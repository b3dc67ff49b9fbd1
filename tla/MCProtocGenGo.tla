--------------------------- MODULE MCProtocGenGo ---------------------------
(***************************************************************************)
(* Families of small proto files for TLC: every graph of two messages and  *)
(* an entity, every choice of clashing names, every pair of services over  *)
(* shared messages, every kind of request field under every kind of route, *)
(* and every pair of marked fields of an entity.                           *)
(***************************************************************************)
EXTENDS ProtocGenGo

Field(name, kind, shape, msg, marks) ==
    [name |-> name, kind |-> kind, shape |-> shape, msg |-> msg, marks |-> marks]
Scalar(name) == Field(name, "string", "one", "", {})
Key == Field("id", "string", "one", "", {"@pk"})

Message(name, fields) == [name |-> Ident(name, ""), entity |-> FALSE, fields |-> fields]
Entity(name, fields)  == [Message(name, fields) EXCEPT !.entity = TRUE]
Rpc(name, input, output, verb) ==
    [name |-> name, input |-> input, output |-> output, verb |-> verb, params |-> {}]
Service(name, methods) == [name |-> name, methods |-> methods]

Schema(messages, services) ==
    [messages |-> messages, order |-> SetToSeq(DOMAIN messages), services |-> services]

User == Entity("User", <<Key, Field("email", "string", "one", "", {"@unique", "@email"})>>)

(* Every pair of messages of up to two fields over each other and User. *)
Named(fs) == [i \in DOMAIN fs |-> [fs[i] EXCEPT !.name = <<"p", "q">>[i]]]
Links == {Field("f", "message", shape, m, {}) : shape \in {"list", "map"}, m \in {"A", "B", "User"}}
Graphs ==
    {Schema([A |-> Message("A", Named(a)), B |-> Message("B", Named(b)), User |-> User],
            <<Service("S", <<Rpc("Do", "A", "B", "body")>>)>>) :
        a, b \in UNION {[1..n -> Links \cup {Scalar("s")}] : n \in 0..2}}

(* Three children of a response under names that clash. *)
Clashes ==
    {Schema([A |-> [Message("A", <<Scalar("s")>>) EXCEPT !.name = a],
             B |-> [Message("B", <<Field("f", "message", "one", "A", {})>>) EXCEPT !.name = b],
             C |-> [Message("C", <<>>) EXCEPT !.name = c],
             R |-> Message("R", <<Field("c", "message", "list", "C", {}),
                                  Field("b", "message", "list", "B", {}),
                                  Field("a", "message", "map", "A", {})>>)],
            <<Service("S", <<Rpc("Do", "R", "R", "body")>>)>>) :
        a, b, c \in {Ident("Do", "Input"), [Ident("Do", "Input") EXCEPT !.bars = 1],
                     Ident("Do", "Output"), Ident("A", "")}}

(* Two services over the same messages. *)
Shared ==
    {Schema([A |-> Message("A", <<Field("b", "message", "one", "B", {}), Scalar("s")>>),
             B |-> Message("B", <<Field("u", "message", "list", "User", {})>>),
             O |-> Message("O", <<Field("u", "message", "one", "User", {})>>),
             P |-> Message("P", <<Field("q", "enum", "one", "", {})>>),
             User |-> User],
            <<Service("S", <<Rpc("Do", a, b, "body"), Rpc("Get", "B", "O", "query")>>),
              Service("T", <<Rpc(name, c, d, "none")>>)>>) :
        a, b, c, d \in {"A", "B", "O", "P"}, name \in {"Do", "List"}}

(* Every two request fields under every route. *)
RequestFields ==
    {Field("f", kind, shape, "", {}) : kind \in {"string", "int", "uint", "enum"},
                                    shape \in {"one", "list"}}
        \cup {Field("f", "message", shape, m, {}) : shape \in {"one", "map"}, m \in {"A", "User"}}
Routes ==
    {Schema([A |-> Message("A", <<Scalar("s")>>), I |-> Message("I", Named(<<f, g>>)),
             O |-> Message("O", <<>>), User |-> User],
            <<Service("S", <<[Rpc("Do", "I", "O", verb) EXCEPT !.params = params]>>)>>) :
        f, g \in RequestFields, verb \in {"body", "query", "none"}, params \in {{}, {"p"}}}

(* Every two fields of an entity. *)
EntityFields ==
    {Field("f", kind, "one", "", marks) :
        kind \in {"string", "int", "bool"},
        marks \in {{}, {"@pk"}, {"@pk", "@paging"}, {"@paging"}, {"@unique", "@paging"}, {"@email"},
                   {"@required"}, {"@timestamp"}}}
Entities == {Schema([E |-> Entity("E", Named(<<f, g>>))], <<>>) : f, g \in EntityFields}

MCSchemas == Graphs \cup Clashes \cup Shared \cup Routes \cup Entities
=============================================================================
