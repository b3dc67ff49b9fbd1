----------------------------- MODULE ProtocGenGo -----------------------------
(***************************************************************************)
(* cmd/mss-protoc-gen, the protoc plugin that writes the Go layers of the  *)
(* service: which messages become entities, which of the others become Go  *)
(* types of package usecase and under which name, and which declarations,  *)
(* imports and mentions the generated files end up with.  A name is kept   *)
(* as a stem, the suffix the plugin gives it and the underscores it adds.  *)
(* Of the types of fields it tells apart string, bool, int (int32, int64), *)
(* uint (uint32, uint64), enum and message; a map is known by its values.  *)
(***************************************************************************)
EXTENDS Integers, FiniteSets, Sequences, SequencesExt

CONSTANTS
    Schemas,    \* the sets of proto files the plugin may be run on
    MaxCalls    \* calls of outputUsesEntity the goroutine's stack has room for

ASSUME MaxCallsAssumption == MaxCalls \in Nat \ {0}

Names == [stem : STRING, suffix : STRING, bars : Nat]

(* protoc hands over files whose references it has resolved; it refuses two *)
(* fields of a message, or two rpcs of a service, with one name.  Rpcs are  *)
(* taken to differ in Go's spelling too.                                    *)
ASSUME SchemasAssumption ==
    \A s \in Schemas :
        LET known == DOMAIN s.messages
        IN  /\ s.order \in Seq(known)
            /\ \A m \in known :
                  /\ s.messages[m].name \in Names
                  /\ s.messages[m].fields \in Seq(ToSet(s.messages[m].fields))
                  /\ \A f \in ToSet(s.messages[m].fields) :
                        /\ f.kind \in {"string", "bool", "int", "uint", "enum", "message"}
                        /\ f.kind = "message" => f.msg \in known
                        /\ \A g \in ToSet(s.messages[m].fields) : f.name = g.name => f = g
            /\ s.services \in Seq(ToSet(s.services))
            /\ \A v \in ToSet(s.services) :
                  /\ v.methods \in Seq(ToSet(v.methods))
                  /\ \A m \in ToSet(v.methods) :
                        /\ {m.input, m.output} \subseteq known
                        /\ m.verb \in {"body", "query", "none"}
                        /\ \A n \in ToSet(v.methods) : m.name = n.name => m = n

VARIABLES
    schema,     \* the files of this run: messages, their order, services
    pc,         \* "entities", "services", or how the run ended
    at,         \* next message of pass 1; next service and method of pass 3
    entities,   \* entitiesByMsg
    rename,     \* nonEntityRename of the service being built
    types,      \* nonEntityTypeByName: the message each emitted type is of
    usesEntity, \* AnyUsesEntity
    agenda,     \* what is left to do for the method, first to last
    calls,      \* the open calls of outputUsesEntity
    files       \* what has been generated

vars == <<schema, pc, at, entities, rename, types, usesEntity, agenda, calls, files>>

Fields(m) == schema.messages[m].fields
Method == schema.services[at.service].methods[at.method]
Ident(stem, suffix) == [stem |-> stem, suffix |-> suffix, bars |-> 0]
With(f, x, v) == [y \in DOMAIN f \cup {x} |-> IF y = x THEN v ELSE f[y]]

----------------------------------------------------------------------------
(* Pass 1: the entities.                                                   *)

Marked(m, mark) == {i \in DOMAIN Fields(m) : mark \in Fields(m)[i].marks}

(* parseEntity reports an error. *)
Malformed(m) ==
    LET paging == Marked(m, "@paging")
    IN  \/ \E i \in paging : Fields(m)[i].kind \notin {"string", "int"}
        \/ Cardinality(paging) > 1
        \/ /\ Marked(m, "@pk") # {}
           /\ \E i \in paging : Fields(m)[i].marks \cap {"@pk", "@unique"} = {}

ParseEntity ==
    /\ pc = "entities"
    /\ at.message <= Len(schema.order)
    /\ LET m == schema.order[at.message]
       IN  IF schema.messages[m].entity /\ Malformed(m)
           THEN pc' = "failed" /\ UNCHANGED <<at, entities>>
           ELSE /\ entities' = IF schema.messages[m].entity /\ Marked(m, "@pk") # {}
                               THEN entities \cup {m} ELSE entities
                /\ at' = [at EXCEPT !.message = @ + 1]
                /\ UNCHANGED pc
    /\ UNCHANGED <<schema, rename, types, usesEntity, agenda, calls, files>>

(* What a generated file has to do with the others: the names it declares,  *)
(* those of its own and of other packages that it uses, the imports that    *)
(* depend on the input, and the request fields it reads.                    *)
File(path, declares, uses, imports, reads) ==
    [path |-> path, package |-> path[1], declares |-> declares,
     uses |-> uses, imports |-> imports, reads |-> reads]
Declares(name, by) == [name |-> name, by |-> by]
Uses(package, name) == [package |-> package, name |-> name]
When(condition, x) == IF condition THEN {x} ELSE {}

(* Pass 2: the files of an entity.  New<Entity> trims what is an e-mail      *)
(* address, and what is required if it is a string.                          *)
Trims(f) ==
    \/ "@email" \in f.marks
    \/ "@required" \in f.marks /\ "@timestamp" \notin f.marks /\ f.kind \notin {"int", "bool"}

EntityFiles(m) ==
    LET name == schema.messages[m].name
        as(suffix) == [name EXCEPT !.suffix = suffix]
        layer(package, declared, used) ==
            File(<<package, name>>, {Declares(x, <<"entity", m>>) : x \in declared},
                 {Uses("entity", name)} \cup {Uses("repository", x) : x \in used},
                 {"entity"} \cup (IF used = {} THEN {} ELSE {"repository"}), {})
    IN  << File(<<"entity", name>>, {Declares(name, <<"entity", m>>)},
                When(\E f \in ToSet(Fields(m)) : Trims(f), Uses("strings", Ident("TrimSpace", ""))),
                {"strings"}, {}),
           layer("repository", {as("Repository"), as("NotFound")}, {}),
           layer("mock", {name}, {as("Repository")}),
           layer("infra", {as("PostgresRepository")}, {as("Repository"), as("NotFound")}),
           layer("dto", {as("DTO")}, {}) >>

EmitEntities ==
    /\ pc = "entities"
    /\ at.message > Len(schema.order)
    /\ files' = FlattenSeq([i \in DOMAIN schema.order |->
                               IF schema.order[i] \in entities
                               THEN EntityFiles(schema.order[i]) ELSE <<>>])
    /\ pc' = "services"
    /\ UNCHANGED <<schema, at, entities, rename, types, usesEntity, agenda, calls>>

----------------------------------------------------------------------------
(* Pass 3: a service.  Methods are visited in order; for each the agenda   *)
(* lists the calls of resolve, collectOutputTypes and outputUsesEntity.    *)

IsMessage(f) == f.kind = "message"     \* of a map: the kind of its values
ToNonEntity(f) == IsMessage(f) /\ f.msg \notin entities

Reserved ==
    {Ident(m.name, suffix) :
        m \in ToSet(schema.services[at.service].methods), suffix \in {"Input", "Output"}}

Resolve(m) == [call |-> "resolve", msg |-> m, name |-> schema.messages[m].name]
Collect(m) == [call |-> "collect", msg |-> m, name |-> schema.messages[m].name]
Search(m)  == [call |-> "search",  msg |-> m, name |-> schema.messages[m].name]

\* Mutant of ResolveOf: the messages in maps are left without a name.
ResolveUnmapped(f) == IF ToNonEntity(f) /\ f.shape # "map" THEN <<Resolve(f.msg)>> ELSE <<>>

ResolveOf(f) == IF ToNonEntity(f) THEN <<Resolve(f.msg)>> ELSE <<>>

\* Mutant of CollectOf: the messages in maps are not visited.
CollectUnmapped(f) == IF IsMessage(f) /\ f.shape # "map" THEN <<Collect(f.msg)>> ELSE <<>>

CollectOf(f) == IF IsMessage(f) THEN <<Collect(f.msg)>> ELSE <<>>

ResolveAll(fs) == FlattenSeq([i \in DOMAIN fs |-> ResolveOf(fs[i])])
CollectAll(fs) == FlattenSeq([i \in DOMAIN fs |-> CollectOf(fs[i])])

(* The shape of the response. *)
ReturnsDTO(m) ==
    /\ Len(Fields(m.output)) = 1
    /\ LET f == Fields(m.output)[1] IN IsMessage(f) /\ f.shape # "map" /\ f.msg \in entities
ReturnsOutput(m) == ~ReturnsDTO(m) /\ Fields(m.output) # <<>>

MethodAgenda(m) ==
    LET in  == Fields(m.input)
        out == Fields(m.output)
    IN  FlattenSeq([i \in DOMAIN in |-> ResolveOf(in[i]) \o CollectOf(in[i])])
        \o (IF ReturnsOutput(m)
            THEN ResolveAll(out) \o CollectAll(out) \o <<Search(m.output)>> ELSE <<>>)

HasEntity(fs) == \E i \in DOMAIN fs : IsMessage(fs[i]) /\ fs[i].msg \in entities

BuildMethod ==
    /\ pc = "services"
    /\ agenda = <<>>
    /\ at.service <= Len(schema.services)
    /\ at.method <= Len(schema.services[at.service].methods)
    /\ agenda' = MethodAgenda(Method)
    /\ usesEntity' = (usesEntity \/ HasEntity(Fields(Method.input)))
    /\ at' = [at EXCEPT !.method = @ + 1]
    /\ UNCHANGED <<schema, pc, entities, rename, types, calls, files>>

Calling(name) == pc = "services" /\ agenda # <<>> /\ Head(agenda).call = name

\* Mutant of Taken: only the names of requests and responses count.
TakenByMethods == Reserved

\* Mutant of Taken: only the names of other messages count.
TakenByMessages == Range(rename)

Taken == Reserved \cup Range(rename)

(* resolve: the name found earlier, or the first one nothing has taken. *)
ResolveName ==
    /\ Calling("resolve")
    /\ LET t == Head(agenda)
       IN  \/ /\ t.msg \in DOMAIN rename
              /\ agenda' = Tail(agenda)
              /\ UNCHANGED rename
           \/ /\ t.msg \notin DOMAIN rename
              /\ t.name \in Taken
              /\ agenda' = <<[t EXCEPT !.name.bars = @ + 1]>> \o Tail(agenda)
              /\ UNCHANGED rename
           \/ /\ t.msg \notin DOMAIN rename
              /\ t.name \notin Taken
              /\ rename' = With(rename, t.msg, t.name)
              /\ agenda' = Tail(agenda)
    /\ UNCHANGED <<schema, pc, at, entities, types, usesEntity, calls, files>>

(* collectOutputTypes: declare the type, name its children, then visit them. *)
CollectTypes ==
    /\ Calling("collect")
    /\ LET m == Head(agenda).msg
       IN  IF m \in entities \/ rename[m] \in DOMAIN types
           THEN agenda' = Tail(agenda) /\ UNCHANGED types
           ELSE /\ types' = With(types, rename[m], m)
                /\ agenda' = ResolveAll(Fields(m)) \o CollectAll(Fields(m)) \o Tail(agenda)
    /\ UNCHANGED <<schema, pc, at, entities, rename, usesEntity, calls, files>>

(* outputUsesEntity: a depth-first search that keeps no visited set. *)
EnterSearch ==
    /\ Calling("search")
    /\ calls = <<>>
    /\ calls' = <<[msg |-> Head(agenda).msg, next |-> 1]>>
    /\ UNCHANGED <<schema, pc, at, entities, rename, types, usesEntity, agenda, files>>

\* Mutant of LooksInto: the search goes through maps of messages too.
LooksIntoMaps(f) == ToNonEntity(f)

LooksInto(f) == ToNonEntity(f) /\ f.shape # "map"

SearchField ==
    /\ Calling("search")
    /\ calls # <<>>
    /\ Last(calls).next <= Len(Fields(Last(calls).msg))
    /\ LET f == Fields(Last(calls).msg)[Last(calls).next]
           returned == [calls EXCEPT ![Len(calls)].next = @ + 1]
       IN  \/ /\ IsMessage(f) /\ f.msg \in entities
              /\ usesEntity' = TRUE
              /\ calls' = <<>>
              /\ agenda' = Tail(agenda)
              /\ UNCHANGED pc
           \/ /\ ~(IsMessage(f) /\ f.msg \in entities) /\ ~LooksInto(f)
              /\ calls' = returned
              /\ UNCHANGED <<pc, usesEntity, agenda>>
           \/ /\ LooksInto(f)
              /\ IF Len(calls) = MaxCalls
                 THEN pc' = "overflow" /\ UNCHANGED calls
                 ELSE calls' = Append(returned, [msg |-> f.msg, next |-> 1]) /\ UNCHANGED pc
              /\ UNCHANGED <<usesEntity, agenda>>
    /\ UNCHANGED <<schema, at, entities, rename, types, files>>

\* Mutant of ReturnFalse: the search ends with the first message looked into.
ReturnAtOnce ==
    /\ Calling("search")
    /\ calls # <<>>
    /\ Last(calls).next > Len(Fields(Last(calls).msg))
    /\ calls' = <<>>
    /\ agenda' = Tail(agenda)
    /\ UNCHANGED <<schema, pc, at, entities, rename, types, usesEntity, files>>

ReturnFalse ==
    /\ Calling("search")
    /\ calls # <<>>
    /\ Last(calls).next > Len(Fields(Last(calls).msg))
    /\ calls' = Front(calls)
    /\ agenda' = IF Len(calls) = 1 THEN Tail(agenda) ELSE agenda
    /\ UNCHANGED <<schema, pc, at, entities, rename, types, usesEntity, files>>

----------------------------------------------------------------------------
(* The two files of a service.                                             *)

Methods == ToSet(schema.services[at.service].methods)

(* The structs of the usecase file: the message each one spells out. *)
Structs ==
    {m.input : m \in Methods}
        \cup {m.output : m \in {n \in Methods : ReturnsOutput(n)}} \cup Range(types)

\* Mutant of TypeOf: handlerGoType leaves out the package of a type.
TypeOfUsecase(package, f) ==
    IF ~IsMessage(f) THEN Uses(package, Ident(f.kind, ""))
    ELSE IF f.msg \in entities THEN Uses("entity", schema.messages[f.msg].name)
    ELSE Uses(package, rename[f.msg])

(* The type a field gets; an enum is named without the package of its own. *)
TypeOf(package, f) ==
    IF ~IsMessage(f) THEN Uses(package, Ident(f.kind, ""))
    ELSE IF f.msg \in entities THEN Uses("entity", schema.messages[f.msg].name)
    ELSE Uses("usecase", rename[f.msg])
TypesOf(package, fs) ==
    {TypeOf(package, f) : f \in {g \in fs : IsMessage(g) \/ g.kind = "enum"}}

Replies == {Fields(m.output)[1].msg : m \in {n \in Methods : ReturnsDTO(n)}}

UsecaseFile ==
    LET service == schema.services[at.service].name
        answers == {m \in Methods : ReturnsOutput(m)}
    IN  File(<<"usecase", Ident(service, "")>>,
             {Declares(Ident(m.name, "Input"), <<service, "input">>) : m \in Methods}
               \cup {Declares(Ident(m.name, "Output"), <<service, "output">>) : m \in answers}
               \cup {Declares(name, <<service, types[name]>>) : name \in DOMAIN types}
               \cup {Declares(Ident(service, "Usecase"), <<service, "interface">>)},
             (UNION {TypesOf("usecase", ToSet(Fields(m))) : m \in Structs})
               \cup {Uses("dto", [schema.messages[e].name EXCEPT !.suffix = "DTO"]) : e \in Replies},
             When(usesEntity, "entity") \cup When(Replies # {}, "dto"),
             {})

FromPath(m, f) == f.name \in m.params

\* Mutant of BodyFields: what comes in the path is expected in the body too.
BodyFieldsAll(m) == {f \in ToSet(Fields(m.input)) : m.verb = "body"}

BodyFields(m) == {f \in ToSet(Fields(m.input)) : m.verb = "body" /\ ~FromPath(m, f)}

(* What a handler puts into the Input of a request: path parameters as they *)
(* are, the body as it is decoded, and of the query what queryScalarGoType  *)
(* knows, unsigned numbers as signed ones.                                  *)
Reads(m) ==
    LET read(f, from, kind) == [rpc |-> m.name, field |-> f.name, from |-> from, kind |-> kind]
        asked == {f \in ToSet(Fields(m.input)) :
                    /\ m.verb = "query" /\ ~FromPath(m, f) /\ f.shape = "one"
                    /\ f.kind \in {"string", "bool", "int", "uint"}}
    IN  {read(f, "path", "string") : f \in {g \in ToSet(Fields(m.input)) : FromPath(m, g)}}
          \cup {read(f, "body", f.kind) : f \in BodyFields(m)}
          \cup {read(f, "query", IF f.kind = "uint" THEN "int" ELSE f.kind) : f \in asked}

HandlerFile ==
    LET service == schema.services[at.service].name
        routed  == {m \in Methods : m.verb # "none"}
        reads   == UNION {Reads(m) : m \in routed}
        parses  == \E r \in reads : r.from = "query" /\ r.kind = "int"
    IN  File(<<"handler", Ident(service, "")>>,
             {Declares(Ident(service, "Handler"), <<service, "handler">>)}
               \cup {Declares(Ident(m.name, "Body"), <<service, "body">>) :
                        m \in {n \in Methods : BodyFields(n) # {}}},
             (UNION {TypesOf("handler", BodyFields(m)) : m \in Methods})
               \cup {Uses("usecase", Ident(m.name, "Input")) : m \in routed}
               \cup {Uses("usecase", Ident(service, "Usecase"))}
               \cup {Uses("repository", [schema.messages[e].name EXCEPT !.suffix = "NotFound"]) :
                        e \in Replies}
               \cup When(Replies # {}, Uses("errors", Ident("Is", "")))
               \cup When(parses, Uses("strconv", Ident("Atoi", ""))),
             When(\E m \in Methods : HasEntity(Fields(m.input)), "entity")
               \cup (IF Replies # {} THEN {"errors", "repository"} ELSE {})
               \cup When(parses, "strconv") \cup {"usecase"},
             reads)

\* Mutant of EmitService: AnyUsesEntity is kept for the next service.
EmitServiceKeeping ==
    /\ pc = "services"
    /\ agenda = <<>>
    /\ at.service <= Len(schema.services)
    /\ at.method > Len(schema.services[at.service].methods)
    /\ files' = files \o <<UsecaseFile, HandlerFile>>
    /\ at' = [at EXCEPT !.service = @ + 1, !.method = 1]
    /\ rename' = <<>>
    /\ types' = <<>>
    /\ UNCHANGED <<schema, pc, entities, usesEntity, agenda, calls>>

EmitService ==
    /\ pc = "services"
    /\ agenda = <<>>
    /\ at.service <= Len(schema.services)
    /\ at.method > Len(schema.services[at.service].methods)
    /\ files' = files \o <<UsecaseFile, HandlerFile>>
    /\ at' = [at EXCEPT !.service = @ + 1, !.method = 1]
    /\ rename' = <<>>
    /\ types' = <<>>
    /\ usesEntity' = FALSE
    /\ UNCHANGED <<schema, pc, entities, agenda, calls>>

(* Pass 4: the registry of the entities and the wiring of the services. *)
EmitProject ==
    /\ pc = "services"
    /\ at.service > Len(schema.services)
    /\ LET registry == File(<<"entity", Ident("registry", "")>>, {},
                            {Uses("entity", schema.messages[e].name) : e \in entities}, {}, {})
           services == {s.name : s \in ToSet(schema.services)}
           wiring   == File(<<"di", Ident("handlers", "")>>, {},
                            {Uses("handler", Ident(s, "Handler")) : s \in services}
                              \cup {Uses("usecase", Ident(s, "Usecase")) : s \in services},
                            {"handler", "usecase"}, {})
       IN  files' = files \o (IF entities # {} THEN <<registry>> ELSE <<>>)
                          \o (IF services # {} THEN <<wiring>> ELSE <<>>)
    /\ pc' = "done"
    /\ UNCHANGED <<schema, at, entities, rename, types, usesEntity, agenda, calls>>

----------------------------------------------------------------------------

Init ==
    /\ schema \in Schemas
    /\ pc = "entities"
    /\ at = [message |-> 1, service |-> 1, method |-> 1]
    /\ entities = {}
    /\ rename = <<>>
    /\ types = <<>>
    /\ usesEntity = FALSE
    /\ agenda = <<>>
    /\ calls = <<>>
    /\ files = <<>>

Next ==
    \/ ParseEntity \/ EmitEntities
    \/ BuildMethod \/ ResolveName \/ CollectTypes
    \/ EnterSearch \/ SearchField \/ ReturnFalse
    \/ EmitService \/ EmitProject

(* The plugin is one goroutine that runs until it ends. *)
Spec == Init /\ [][Next]_vars /\ WF_vars(Next)

----------------------------------------------------------------------------
(* What the plugin should compute, stated by reachability.                 *)

(* The least set of messages that holds these and the steps from its own. *)
Reach(Step(_), from) ==
    {m \in DOMAIN schema.messages :
        \A S \in SUBSET DOMAIN schema.messages :
            from \subseteq S /\ (\A n \in S : Step(n) \subseteq S) => m \in S}

Children(m) == {f.msg : f \in {g \in ToSet(Fields(m)) : ToNonEntity(g)}}
PlainChildren(m) == {f.msg : f \in {g \in ToSet(Fields(m)) : ToNonEntity(g) /\ g.shape # "map"}}

(* Every method of the service has been visited. *)
Built ==
    /\ pc = "services" /\ agenda = <<>>
    /\ at.service <= Len(schema.services)
    /\ at.method > Len(schema.services[at.service].methods)

(* The variables keep their types, and only what has a name is collected,  *)
(* so that collectOutputTypes never declares a type resolve has not named. *)
TypeOK ==
    /\ pc \in {"entities", "services", "done", "failed", "overflow"}
    /\ entities \subseteq DOMAIN schema.messages
    /\ DOMAIN rename \subseteq DOMAIN schema.messages \ entities
    /\ DOMAIN types \subseteq Range(rename)
    /\ usesEntity \in BOOLEAN
    /\ Len(calls) <= MaxCalls
    /\ Calling("collect") => Head(agenda).msg \in entities \cup DOMAIN rename

(* Within a service resolve gives two messages two names, whatever order it  *)
(* meets them in, and never the name of an Input or an Output.               *)
NamesApart ==
    /\ \A m, n \in DOMAIN rename : rename[m] = rename[n] => m = n
    /\ rename # <<>> => Range(rename) \cap Reserved = {}

(* The types emitted for a service are those of the messages its requests and *)
(* Output responses reach, through maps too: none is missing, none is spare.  *)
EmitsReachable ==
    Built => Range(types) =
        Reach(Children, UNION ({Children(m.input) : m \in Methods}
                               \cup {Children(m.output) : m \in {n \in Methods : ReturnsOutput(n)}}))

(* outputUsesEntity, a search without a visited set, answers what reachability *)
(* says, the maps of messages aside, which it does not look into.              *)
SearchIsReachability ==
    Built => usesEntity =
        \E m \in Methods :
            \/ HasEntity(Fields(m.input))
            \/ ReturnsOutput(m) /\ \E n \in Reach(PlainChildren, {m.output}) : HasEntity(Fields(n))

Generated(package) == {file \in ToSet(files) : file.package = package}
DeclaredIn(package) == UNION {file.declares : file \in Generated(package)}

(* In the generated project every name a file uses is declared in the package *)
(* it is taken from; an enum field is the one exception.                      *)
EveryNameDeclared ==
    pc = "done" =>
        \A file \in ToSet(files) : \A use \in file.uses :
            \/ use.package \in {"strings", "errors", "strconv"}
            \/ use.name = Ident("enum", "")
            \/ use.name \in {d.name : d \in DeclaredIn(use.package)}

(* A service declares no name twice in the usecase package, which its Inputs,  *)
(* Outputs, interface and messages share; and no two entities declare one.     *)
(* Services and entities are taken to have different names.  Two services may  *)
(* declare one: the names resolve avoids are of one service (main.go:577-583), *)
(* the package is of all.                                                     *)
DeclaredTwiceApart ==
    \A package \in {"entity", "usecase", "handler"} :
        \A d, e \in DeclaredIn(package) : d.name = e.name /\ d.by[1] = e.by[1] => d = e

Mentions(file) == {use.package : use \in file.uses} \ {file.package}

(* The schema puts entities where the plugin looks for them: in requests, but *)
(* only in a body, and behind the fields of responses that are not maps.      *)
EntitiesInSight ==
    \A s \in ToSet(schema.services) : \A m \in ToSet(s.methods) :
        /\ HasEntity(Fields(m.input)) => \E f \in BodyFields(m) : IsMessage(f) /\ f.msg \in entities
        /\ \A n \in Reach(Children, Children(m.input)) : ~HasEntity(Fields(n))
        /\ \A n \in Reach(Children, {m.output}) :
              ReturnsOutput(m) /\ HasEntity(Fields(n)) => n \in Reach(PlainChildren, {m.output})

(* The files of a service import what they mention and nothing else, where   *)
(* entities are in sight; elsewhere only the import of the entities is       *)
(* wrong, and a usecase file may lack it but never has it without a use.     *)
ImportsAreMentions ==
    pc = "done" =>
        \A file \in Generated("usecase") \cup Generated("handler") :
            /\ file.imports \cup {"entity"} = Mentions(file) \cup {"entity"}
            /\ file.package = "usecase" => file.imports \subseteq Mentions(file)
            /\ EntitiesInSight => file.imports = Mentions(file)

(* The handler of a service, found by its path, fills every field of a request *)
(* once: from the path, the body or the query, and with the type the field has; *)
(* what it does not is a list, a message or an enum outside a body, a number    *)
(* without sign in a query, or anything but a string in a path: a number, a bool. *)
ReadBy(s) ==
    UNION {file.reads : file \in {g \in Generated("handler") : g.path = <<"handler", Ident(s.name, "")>>}}
RequestsRead ==
    pc = "done" =>
        \A s \in ToSet(schema.services) : \A m \in ToSet(s.methods) : \A f \in ToSet(Fields(m.input)) :
            LET reads == {r \in ReadBy(s) : r.rpc = m.name /\ r.field = f.name}
            IN  \/ Cardinality(reads) = 1 /\ \A r \in reads : r.kind = f.kind
                \/ m.verb = "none" /\ reads = {}
                \/ m.verb # "body" /\ (f.shape # "one" \/ f.kind \in {"uint", "enum", "message"})
                \/ f.name \in m.params /\ (f.shape # "one" \/ f.kind # "string")

(* The plugin generates the whole project, unless an entity is malformed or a *)
(* response contains, by fields that are not maps, a message that contains    *)
(* itself: there the search for an entity may never return.                   *)
ContainsItself(m) ==
    \E n \in Reach(PlainChildren, {m}) : n \in Reach(PlainChildren, PlainChildren(n))
GeneratesAll ==
    <>(\/ pc = "done"
       \/ pc = "failed" /\ \E m \in ToSet(schema.order) : schema.messages[m].entity /\ Malformed(m)
       \/ pc = "overflow" /\ ContainsItself(Head(agenda).msg))
=============================================================================
