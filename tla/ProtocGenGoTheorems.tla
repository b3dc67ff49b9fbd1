------------------------- MODULE ProtocGenGoTheorems -------------------------
(***************************************************************************)
(* For any proto files that protoc accepts, however many messages, methods *)
(* and services, and however its types contain each other: the types of    *)
(* the plugin's state; the names resolve gives; the types that             *)
(* collectOutputTypes declares and the entities that outputUsesEntity      *)
(* finds, against reachability; and of the generated files what they       *)
(* declare, use, import and read.                                          *)
(***************************************************************************)
EXTENDS ProtocGenGo, FiniteSetTheorems, WellFoundedInduction, TLAPS

Positions == [message : Nat \ {0}, service : Nat \ {0}, method : Nat \ {0}]
IInv == at \in Positions /\ NamesApart

LEMMA NextPosition ==
    ASSUME NEW p \in Positions
    PROVE  [p EXCEPT !.service = @ + 1, !.method = 1] \in Positions
<1>1. p.service + 1 \in Nat \ {0} /\ 1 \in Nat \ {0}
  BY DEF Positions
<1>2. [p EXCEPT !.service = p.service + 1] \in Positions
  BY <1>1 DEF Positions
<1>3. [[p EXCEPT !.service = p.service + 1] EXCEPT !.method = 1] \in Positions
  BY <1>1, <1>2 DEF Positions
<1> QED
  BY <1>3

(* The names taken depend on the service, and on the names given so far. *)
LEMMA ReservedKept ==
    ASSUME schema' = schema, at'.service = at.service
    PROVE  Reserved' = Reserved
BY DEF Reserved

LEMMA KeptApart ==
    ASSUME IInv, at' \in Positions, schema' = schema, rename' = rename, at'.service = at.service
    PROVE  IInv'
BY ReservedKept DEF IInv, NamesApart, Range

(* Giving a name that is not taken keeps the names apart. *)
LEMMA NamedApart ==
    ASSUME IInv, NEW m, m \notin DOMAIN rename, NEW name, name \notin Taken,
           rename' = With(rename, m, name), UNCHANGED <<schema, at>>
    PROVE  IInv'
<1>1. Reserved' = Reserved
  BY ReservedKept
<1>2. DOMAIN rename' = DOMAIN rename \cup {m}
  BY DEF With
<1>3. \A x \in DOMAIN rename' : rename'[x] = IF x = m THEN name ELSE rename[x]
  BY DEF With
<1>4. name \notin Range(rename) /\ name \notin Reserved
  BY DEF Taken
<1>5. \A x \in DOMAIN rename : rename[x] # name /\ rename[x] \in Range(rename)
  BY <1>4 DEF Range
<1>6. \A x, y \in DOMAIN rename' : rename'[x] = rename'[y] => x = y
  BY <1>2, <1>3, <1>5 DEF IInv, NamesApart
<1>7. \A x \in DOMAIN rename' : rename'[x] \notin Reserved
  <2>1. CASE DOMAIN rename = {}
    BY <2>1, <1>2, <1>3, <1>4
  <2>2. CASE DOMAIN rename # {}
    <3>1. rename # <<>>
      BY <2>2
    <3>2. Range(rename) \cap Reserved = {}
      BY <3>1 DEF IInv, NamesApart
    <3> QED
      BY <3>2, <1>2, <1>3, <1>4, <1>5
  <2> QED
    BY <2>1, <2>2
<1>8. Range(rename)' \cap Reserved' = {}
  BY <1>1, <1>7 DEF Range
<1> QED
  BY <1>6, <1>8 DEF IInv, NamesApart

LEMMA InitApart == Init => IInv
BY DEF Init, IInv, NamesApart, Positions

LEMMA StepKeepsApart == IInv /\ [Next]_vars => IInv'
<1> SUFFICES ASSUME IInv, [Next]_vars
             PROVE  IInv'
  OBVIOUS
<1>1. at \in Positions
  BY DEF IInv
<1>2. CASE ParseEntity
  BY <1>1, <1>2, KeptApart DEF ParseEntity, Positions
<1>3. CASE EmitEntities
  BY <1>1, <1>3, KeptApart DEF EmitEntities
<1>4. CASE BuildMethod
  BY <1>1, <1>4, KeptApart DEF BuildMethod, Positions
<1>5. CASE ResolveName
  <2>1. CASE UNCHANGED rename
    BY <1>1, <1>5, <2>1, KeptApart DEF ResolveName
  <2>2. CASE rename' # rename
    <3>1. PICK m, name :
             m \notin DOMAIN rename /\ name \notin Taken /\ rename' = With(rename, m, name)
      BY <1>5, <2>2 DEF ResolveName
    <3> QED
      BY <3>1, <1>5, NamedApart DEF ResolveName
  <2> QED
    BY <2>1, <2>2
<1>6. CASE CollectTypes
  BY <1>1, <1>6, KeptApart DEF CollectTypes
<1>7. CASE EnterSearch
  BY <1>1, <1>7, KeptApart DEF EnterSearch
<1>8. CASE SearchField
  BY <1>1, <1>8, KeptApart DEF SearchField
<1>9. CASE ReturnFalse
  BY <1>1, <1>9, KeptApart DEF ReturnFalse
<1>10. CASE EmitService
  <2>1. at' \in Positions
    <3>1. at' = [at EXCEPT !.service = @ + 1, !.method = 1]
      BY <1>10 DEF EmitService
    <3> QED
      BY <1>1, <3>1, NextPosition
  <2>2. rename' = <<>>
    BY <1>10 DEF EmitService
  <2>3. DOMAIN rename' = {}
    BY <2>2
  <2>4. NamesApart'
    BY <2>2, <2>3 DEF NamesApart
  <2> QED
    BY <2>1, <2>4 DEF IInv
<1>11. CASE EmitProject
  BY <1>1, <1>11, KeptApart DEF EmitProject
<1>12. CASE UNCHANGED vars
  BY <1>1, <1>12, KeptApart DEF vars
<1> QED
  BY <1>2, <1>3, <1>4, <1>5, <1>6, <1>7, <1>8, <1>9, <1>10, <1>11, <1>12 DEF Next

(* resolve (main.go:587-615) gives no two messages of a service one name and *)
(* no message the name of an Input or Output, whatever the proto files are.  *)
THEOREM NamesStayApart == Spec => []NamesApart
<1>1. IInv => NamesApart
  BY DEF IInv
<1> QED
  BY <1>1, InitApart, StepKeepsApart, PTL DEF Spec

----------------------------------------------------------------------------
(* Sequences laid end to end, as the plugin's work is.                     *)

(* The order of the naturals is well founded, with the relation unnamed.   *)
LEMMA LessIsWellFounded ==
    \E R : /\ IsWellFoundedOn(R, Nat)
           /\ \A x, y \in Nat : <<y, x>> \in R <=> y < x
<1>1. \A x, y \in Nat : <<y, x>> \in OpToRel(<, Nat) <=> y < x
  BY DEF OpToRel
<1> QED BY <1>1, NatLessThanWellFounded, Zenon

(* Induction, over a set of naturals.                                      *)
LEMMA SetInduction ==
    ASSUME NEW T, 1 \in T, \A n \in T : n \in Nat => n + 1 \in T
    PROVE  \A n \in Nat \ {0} : n \in T
<1> SUFFICES ASSUME {n \in Nat \ {0} : n \notin T} # {} PROVE FALSE
  OBVIOUS
<1> DEFINE U == {n \in Nat \ {0} : n \notin T}
<1>1. PICK R : /\ IsWellFoundedOn(R, Nat)
               /\ \A x, y \in Nat : <<y, x>> \in R <=> y < x
  BY LessIsWellFounded
<1>2. U \subseteq Nat /\ U # {}
  OBVIOUS
<1>3. PICK m \in U : \A y \in U : ~ (<<y, m>> \in R)
  BY <1>1, <1>2, WFMin
<1>4. m \in Nat /\ m # 0 /\ m # 1 /\ m \notin T
  OBVIOUS
<1>5. m - 1 \in Nat /\ m - 1 # 0 /\ m - 1 < m
  BY <1>4
<1>6. m - 1 \notin U
  BY <1>1, <1>3, <1>4, <1>5
<1>7. m - 1 \in T
  BY <1>5, <1>6
<1>8. (m - 1) + 1 \in T
  BY <1>5, <1>7
<1>9. (m - 1) + 1 = m
  BY <1>4
<1> QED BY <1>4, <1>8, <1>9

(* The part p lies in s, after its first b elements.                       *)
Lies(p, s, b) == b + Len(p) <= Len(s) /\ \A q \in 1..Len(p) : s[b + q] = p[q]

LEMMA LiesOn ==
    ASSUME NEW S, NEW p \in Seq(S), NEW s \in Seq(S), NEW t \in Seq(S), NEW b \in Nat,
           Lies(p, s, b)
    PROVE  Lies(p, s \o t, b)
BY DEF Lies

LEMMA LiesLast ==
    ASSUME NEW S, NEW s \in Seq(S), NEW t \in Seq(S)
    PROVE  Lies(t, s \o t, Len(s)) /\ Len(s) \in Nat
BY DEF Lies

(* FlattenSeq, as the recursion that defines it.                           *)
Flattens(F, ss, n) ==
    /\ F = [i \in 1..n |-> F[i]]
    /\ F[1] = ss[1]
    /\ \A i \in 1..n : i # 1 => F[i] = F[i - 1] \o ss[i]

LEMMA FlattensOn ==
    ASSUME NEW ss, NEW n \in Nat \ {0}, NEW F, Flattens(F, ss, n)
    PROVE  \E G : Flattens(G, ss, n + 1)
<1> DEFINE last == F[n] \o ss[n + 1]
           G == [i \in 1..(n + 1) |-> IF i = n + 1 THEN last ELSE F[i]]
<1>1. G[n + 1] = last /\ \A i \in 1..n : G[i] = F[i]
  <2> HIDE DEF last
  <2> QED OBVIOUS
<1>2. G = [i \in 1..(n + 1) |-> G[i]]
  OBVIOUS
<1> HIDE DEF G
<1>3. ASSUME NEW i \in 1..(n + 1), i # 1
      PROVE  G[i] = G[i - 1] \o ss[i]
  <2>1. CASE i = n + 1
    <3>1. i - 1 = n /\ n \in 1..n
      BY <2>1
    <3> QED BY <2>1, <3>1, <1>1
  <2>2. CASE i # n + 1
    <3>1. i \in 1..n /\ i - 1 \in 1..n
      BY <1>3, <2>2
    <3> QED BY <3>1, <1>3, <1>1 DEF Flattens
  <2> QED BY <2>1, <2>2
<1>4. G[1] = ss[1]
  BY <1>1 DEF Flattens
<1>5. Flattens(G, ss, n + 1)
  BY <1>2, <1>3, <1>4 DEF Flattens
<1> QED BY <1>5

LEMMA FlattenIs ==
    ASSUME NEW ss, NEW n \in Nat \ {0}, Len(ss) = n
    PROVE  \E F : Flattens(F, ss, n) /\ FlattenSeq(ss) = F[n]
<1> DEFINE T == {k \in Nat \ {0} : \E F : Flattens(F, ss, k)}
<1>1. 1 \in T
  <2> DEFINE G == [i \in 1..1 |-> ss[i]]
  <2>1. G = [i \in 1..1 |-> G[i]] /\ G[1] = ss[1] /\ \A i \in 1..1 : i = 1
    OBVIOUS
  <2> HIDE DEF G
  <2>2. Flattens(G, ss, 1)
    BY <2>1 DEF Flattens
  <2> QED BY <2>2
<1>2. ASSUME NEW k \in T, k \in Nat PROVE k + 1 \in T
  <2>1. \E F : Flattens(F, ss, k)
    OBVIOUS
  <2> QED BY <2>1, FlattensOn
<1>3. n \in T
  <2> HIDE DEF T
  <2> QED BY <1>1, <1>2, SetInduction
<1>4. PICK E : Flattens(E, ss, n)
  BY <1>3
<1> DEFINE Is(F) == F = [i \in 1..n |-> IF i = 1 THEN ss[i] ELSE F[i - 1] \o ss[i]]
           F == CHOOSE F : Is(F)
<1>5. \A i \in 1..n : E[i] = IF i = 1 THEN ss[i] ELSE E[i - 1] \o ss[i]
  BY <1>4 DEF Flattens
<1>6. E = [i \in 1..n |-> E[i]]
  BY <1>4 DEF Flattens
<1>7. Is(E)
  BY <1>5, <1>6
<1>8. Is(F)
  <2> HIDE DEF Is
  <2> QED BY <1>7
<1>9. FlattenSeq(ss) = F[n]
  BY DEF FlattenSeq
<1> HIDE DEF F
<1>10. \A i \in 1..n : F[i] = IF i = 1 THEN ss[i] ELSE F[i - 1] \o ss[i]
  BY <1>8
<1>11. F = [i \in 1..n |-> F[i]]
  BY <1>8, <1>10
<1>12. 1 \in 1..n
  OBVIOUS
<1>13. Flattens(F, ss, n)
  BY <1>10, <1>11, <1>12 DEF Flattens
<1> QED BY <1>9, <1>13

(* Every part lies in the whole, and nothing else does.                    *)
Parts(ss, n, s) ==
    /\ \A i \in 1..n : \E b \in Nat : Lies(ss[i], s, b)
    /\ \A k \in 1..Len(s) : \E i \in 1..n, b \in Nat :
          Lies(ss[i], s, b) /\ b < k /\ k <= b + Len(ss[i])

LEMMA PartsOn ==
    ASSUME NEW S, NEW ss, NEW n \in Nat, \A i \in 1..(n + 1) : ss[i] \in Seq(S),
           NEW s \in Seq(S), Parts(ss, n, s)
    PROVE  Parts(ss, n + 1, s \o ss[n + 1])
<1> DEFINE t == ss[n + 1]
           w == s \o t
<1>0. /\ t \in Seq(S) /\ w \in Seq(S) /\ Len(w) = Len(s) + Len(t)
      /\ Len(s) \in Nat /\ Len(t) \in Nat /\ n + 1 \in 1..(n + 1)
      /\ \A i \in 1..n : i \in 1..(n + 1) /\ ss[i] \in Seq(S)
  OBVIOUS
<1>1. Lies(t, w, Len(s))
  BY <1>0, LiesLast
<1>2. ASSUME NEW i \in 1..n, NEW b \in Nat, Lies(ss[i], s, b) PROVE Lies(ss[i], w, b)
  BY <1>0, <1>2, LiesOn
<1>3. ASSUME NEW i \in 1..(n + 1) PROVE \E b \in Nat : Lies(ss[i], w, b)
  <2>1. CASE i = n + 1
    BY <1>0, <1>1, <2>1
  <2>2. CASE i \in 1..n
    BY <1>2, <2>2 DEF Parts
  <2> QED BY <2>1, <2>2
<1>4. ASSUME NEW k \in 1..Len(w)
      PROVE  \E i \in 1..(n + 1), b \in Nat :
                Lies(ss[i], w, b) /\ b < k /\ k <= b + Len(ss[i])
  <2>1. CASE k <= Len(s)
    <3>1. k \in 1..Len(s)
      BY <1>0, <2>1
    <3>2. PICK i \in 1..n, b \in Nat : Lies(ss[i], s, b) /\ b < k /\ k <= b + Len(ss[i])
      BY <3>1 DEF Parts
    <3> HIDE DEF w
    <3> QED BY <3>2, <1>0, <1>2
  <2>2. CASE Len(s) < k
    <3>1. Len(s) < k /\ k <= Len(s) + Len(t)
      BY <1>0, <2>2
    <3> HIDE DEF w
    <3> QED BY <3>1, <1>0, <1>1
  <2> QED BY <1>0, <2>1, <2>2
<1> HIDE DEF w
<1>5. Parts(ss, n + 1, w)
  BY <1>3, <1>4 DEF Parts
<1> QED BY <1>5 DEF w

LEMMA FlattenParts ==
    ASSUME NEW S, NEW ss, NEW n \in Nat, DOMAIN ss = 1..n, Len(ss) = n, ss = [i \in 1..n |-> ss[i]],
           \A i \in 1..n : ss[i] \in Seq(S)
    PROVE  FlattenSeq(ss) \in Seq(S) /\ Parts(ss, n, FlattenSeq(ss))
<1>1. CASE n = 0
  <2>1. ss = <<>>
    BY <1>1
  <2>2. FlattenSeq(ss) = <<>>
    BY <2>1 DEF FlattenSeq
  <2>3. <<>> \in Seq(S) /\ 1..Len(<<>>) = {} /\ 1..n = {}
    BY <1>1
  <2>4. Parts(ss, n, <<>>)
    BY <2>3 DEF Parts
  <2> QED BY <2>2, <2>3, <2>4
<1>2. CASE n # 0
  <2>1. n \in Nat \ {0}
    BY <1>2
  <2>2. PICK F : Flattens(F, ss, n) /\ FlattenSeq(ss) = F[n]
    BY <2>1, FlattenIs
  <2> DEFINE T == {k \in Nat \ {0} : k <= n => F[k] \in Seq(S) /\ Parts(ss, k, F[k])}
  <2>3. 1 \in T
    <3>1. ss[1] \in Seq(S) /\ Len(ss[1]) \in Nat /\ 1 \in 1..n
      BY <2>1
    <3>2. Lies(ss[1], ss[1], 0)
      BY <3>1 DEF Lies
    <3>3. Parts(ss, 1, ss[1])
      BY <3>1, <3>2 DEF Parts
    <3>4. F[1] = ss[1]
      BY <2>2 DEF Flattens
    <3> QED BY <3>1, <3>3, <3>4
  <2>4. ASSUME NEW k \in T, k \in Nat PROVE k + 1 \in T
    <3> SUFFICES ASSUME k + 1 <= n
                 PROVE  F[k + 1] \in Seq(S) /\ Parts(ss, k + 1, F[k + 1])
      OBVIOUS
    <3>1. F[k] \in Seq(S) /\ Parts(ss, k, F[k]) /\ k + 1 \in 1..n /\ k + 1 # 1 /\ (k + 1) - 1 = k
      OBVIOUS
    <3>2. F[k + 1] = F[k] \o ss[k + 1] /\ ss[k + 1] \in Seq(S)
      BY <3>1, <2>2 DEF Flattens
    <3>3. \A i \in 1..(k + 1) : ss[i] \in Seq(S)
      BY <3>1
    <3>4. F[k] \o ss[k + 1] \in Seq(S)
      BY <3>1, <3>2
    <3>5. Parts(ss, k + 1, F[k] \o ss[k + 1])
      <4> HIDE DEF T
      <4> QED BY <2>4, <3>1, <3>3, PartsOn
    <3> QED BY <3>2, <3>4, <3>5
  <2>5. n \in T
    <3> HIDE DEF T
    <3> QED BY <2>1, <2>3, <2>4, SetInduction
  <2> QED BY <2>2, <2>5
<1> QED BY <1>1, <1>2

----------------------------------------------------------------------------
(* The work on the fields of a message.                                    *)

Known  == DOMAIN schema.messages
Tasks  == [call : {"resolve", "collect", "search"}, msg : Known, name : Names]
Frames == [msg : Known, next : Nat \ {0}]

LEMMA FieldsTyped ==
    ASSUME schema \in Schemas, NEW m \in Known
    PROVE  /\ Fields(m) \in Seq(ToSet(Fields(m)))
           /\ schema.messages[m].name \in Names
           /\ \A f \in ToSet(Fields(m)) : IsMessage(f) => f.msg \in Known
BY SchemasAssumption DEF Fields, Known, IsMessage

LEMMA TasksTyped ==
    ASSUME schema \in Schemas, NEW m \in Known
    PROVE  /\ Resolve(m) \in Tasks /\ Collect(m) \in Tasks /\ Search(m) \in Tasks
           /\ Resolve(m).call = "resolve" /\ Resolve(m).msg = m
           /\ Collect(m).call = "collect" /\ Collect(m).msg = m
           /\ Search(m).call = "search" /\ Search(m).msg = m
           /\ \A t \in {Resolve(m), Collect(m), Search(m)} : t.name = schema.messages[m].name
BY FieldsTyped DEF Resolve, Collect, Search, Tasks

(* What is done for some fields: every message in them is collected, and   *)
(* before that, unless it is an entity, resolved.                          *)
Prepared(w, i, named) ==
    w[i].call = "collect" =>
        \/ w[i].msg \in named
        \/ \E j \in 1..(i - 1) : w[j].call = "resolve" /\ w[j].msg = w[i].msg
Fits(t, fs) ==
    /\ t.call \in {"resolve", "collect"}
    /\ \E f \in ToSet(fs) : IsMessage(f) /\ f.msg = t.msg
    /\ t.call = "resolve" => t.msg \notin entities
    /\ t.name = schema.messages[t.msg].name
Covers(w, fs) ==
    \A f \in ToSet(fs) : IsMessage(f) =>
        \E i \in 1..Len(w) : w[i].call = "collect" /\ w[i].msg = f.msg
Works(w, fs) ==
    /\ w \in Seq(Tasks)
    /\ \A i \in 1..Len(w) : Fits(w[i], fs) /\ Prepared(w, i, entities)
    /\ Covers(w, fs)

(* Fields(m), in the form the lemmas below need. *)
FieldSeq(fs) ==
    /\ fs \in Seq(ToSet(fs))
    /\ \A f \in ToSet(fs) : IsMessage(f) => f.msg \in Known

LEMMA ResolveOfIs ==
    ASSUME schema \in Schemas, NEW f, IsMessage(f) => f.msg \in Known
    PROVE  /\ ResolveOf(f) \in Seq(Tasks)
           /\ ToNonEntity(f) => /\ Len(ResolveOf(f)) = 1
                                /\ ResolveOf(f)[1].call = "resolve"
                                /\ ResolveOf(f)[1].msg = f.msg
                                /\ ResolveOf(f)[1].name = schema.messages[f.msg].name
           /\ ~ToNonEntity(f) => Len(ResolveOf(f)) = 0
<1>1. CASE ToNonEntity(f)
  <2>1. f.msg \in Known
    BY <1>1 DEF ToNonEntity
  <2>2. ResolveOf(f) = <<Resolve(f.msg)>>
    BY <1>1 DEF ResolveOf
  <2> QED BY <1>1, <2>1, <2>2, TasksTyped
<1>2. CASE ~ToNonEntity(f)
  <2>1. ResolveOf(f) = <<>>
    BY <1>2 DEF ResolveOf
  <2> QED BY <1>2, <2>1
<1> QED BY <1>1, <1>2

LEMMA CollectOfIs ==
    ASSUME schema \in Schemas, NEW f, IsMessage(f) => f.msg \in Known
    PROVE  /\ CollectOf(f) \in Seq(Tasks)
           /\ IsMessage(f) => /\ Len(CollectOf(f)) = 1
                              /\ CollectOf(f)[1].call = "collect"
                              /\ CollectOf(f)[1].msg = f.msg
                              /\ CollectOf(f)[1].name = schema.messages[f.msg].name
           /\ ~IsMessage(f) => Len(CollectOf(f)) = 0
<1>1. CASE IsMessage(f)
  <2>1. CollectOf(f) = <<Collect(f.msg)>>
    BY <1>1 DEF CollectOf
  <2> QED BY <1>1, <2>1, TasksTyped
<1>2. CASE ~IsMessage(f)
  <2>1. CollectOf(f) = <<>>
    BY <1>2 DEF CollectOf
  <2> QED BY <1>2, <2>1
<1> QED BY <1>1, <1>2

LEMMA ResolveAllIs ==
    ASSUME schema \in Schemas, NEW fs, FieldSeq(fs)
    PROVE  /\ ResolveAll(fs) \in Seq(Tasks)
           /\ \A i \in 1..Len(ResolveAll(fs)) :
                 ResolveAll(fs)[i].call = "resolve" /\ Fits(ResolveAll(fs)[i], fs)
           /\ \A f \in ToSet(fs) : ToNonEntity(f) =>
                 \E i \in 1..Len(ResolveAll(fs)) :
                     ResolveAll(fs)[i].call = "resolve" /\ ResolveAll(fs)[i].msg = f.msg
<1> DEFINE n == Len(fs)
           ss == [i \in DOMAIN fs |-> ResolveOf(fs[i])]
           w == FlattenSeq(ss)
<1>1. /\ n \in Nat /\ DOMAIN fs = 1..n
      /\ \A i \in 1..n : fs[i] \in ToSet(fs) /\ (IsMessage(fs[i]) => fs[i].msg \in Known)
      /\ \A f \in ToSet(fs) : \E i \in 1..n : f = fs[i]
  BY DEF FieldSeq, ToSet
<1>2. DOMAIN ss = 1..n /\ Len(ss) = n /\ ss = [i \in 1..n |-> ss[i]]
  BY <1>1
<1>3. \A i \in 1..n : ss[i] = ResolveOf(fs[i])
  BY <1>1
<1> HIDE DEF ss, n
<1>4. \A i \in 1..n : ss[i] \in Seq(Tasks)
  BY <1>1, <1>3, ResolveOfIs
<1>5. w \in Seq(Tasks) /\ Parts(ss, n, w)
  BY <1>1, <1>2, <1>4, FlattenParts
<1>6. ResolveAll(fs) = w
  BY DEF ResolveAll, ss
<1> HIDE DEF w
<1>7. ASSUME NEW k \in 1..Len(w)
      PROVE  w[k].call = "resolve" /\ Fits(w[k], fs)
  <2>1. PICK i \in 1..n, b \in Nat : Lies(ss[i], w, b) /\ b < k /\ k <= b + Len(ss[i])
    BY <1>5 DEF Parts
  <2>2. ToNonEntity(fs[i])
    BY <2>1, <1>1, <1>3, ResolveOfIs
  <2>3. /\ Len(ss[i]) = 1 /\ ss[i][1].call = "resolve" /\ ss[i][1].msg = fs[i].msg
        /\ ss[i][1].name = schema.messages[fs[i].msg].name
    BY <2>2, <1>1, <1>3, ResolveOfIs
  <2>4. k = b + 1 /\ 1 \in 1..1
    BY <2>1, <2>3
  <2>5. w[k] = ss[i][1]
    BY <2>1, <2>3, <2>4 DEF Lies
  <2> QED BY <2>2, <2>3, <2>5, <1>1 DEF Fits, ToNonEntity
<1>8. ASSUME NEW f \in ToSet(fs), ToNonEntity(f)
      PROVE  \E k \in 1..Len(w) : w[k].call = "resolve" /\ w[k].msg = f.msg
  <2>1. PICK i \in 1..n : f = fs[i]
    BY <1>1
  <2>2. /\ Len(ss[i]) = 1 /\ ss[i][1].call = "resolve" /\ ss[i][1].msg = f.msg
    BY <2>1, <1>1, <1>3, <1>8, ResolveOfIs
  <2>3. PICK b \in Nat : Lies(ss[i], w, b)
    BY <1>5 DEF Parts
  <2>4. b + 1 \in 1..Len(w) /\ w[b + 1] = ss[i][1]
    BY <1>5, <2>2, <2>3 DEF Lies
  <2> QED BY <2>2, <2>4
<1> QED BY <1>5, <1>6, <1>7, <1>8

LEMMA CollectAllIs ==
    ASSUME schema \in Schemas, NEW fs, FieldSeq(fs)
    PROVE  /\ CollectAll(fs) \in Seq(Tasks)
           /\ \A i \in 1..Len(CollectAll(fs)) :
                 CollectAll(fs)[i].call = "collect" /\ Fits(CollectAll(fs)[i], fs)
           /\ Covers(CollectAll(fs), fs)
<1> DEFINE n == Len(fs)
           ss == [i \in DOMAIN fs |-> CollectOf(fs[i])]
           w == FlattenSeq(ss)
<1>1. /\ n \in Nat /\ DOMAIN fs = 1..n
      /\ \A i \in 1..n : fs[i] \in ToSet(fs) /\ (IsMessage(fs[i]) => fs[i].msg \in Known)
      /\ \A f \in ToSet(fs) : \E i \in 1..n : f = fs[i]
  BY DEF FieldSeq, ToSet
<1>2. DOMAIN ss = 1..n /\ Len(ss) = n /\ ss = [i \in 1..n |-> ss[i]]
  BY <1>1
<1>3. \A i \in 1..n : ss[i] = CollectOf(fs[i])
  BY <1>1
<1> HIDE DEF ss, n
<1>4. \A i \in 1..n : ss[i] \in Seq(Tasks)
  BY <1>1, <1>3, CollectOfIs
<1>5. w \in Seq(Tasks) /\ Parts(ss, n, w)
  BY <1>1, <1>2, <1>4, FlattenParts
<1>6. CollectAll(fs) = w
  BY DEF CollectAll, ss
<1> HIDE DEF w
<1>7. ASSUME NEW k \in 1..Len(w)
      PROVE  w[k].call = "collect" /\ Fits(w[k], fs)
  <2>1. PICK i \in 1..n, b \in Nat : Lies(ss[i], w, b) /\ b < k /\ k <= b + Len(ss[i])
    BY <1>5 DEF Parts
  <2>2. IsMessage(fs[i])
    BY <2>1, <1>1, <1>3, CollectOfIs
  <2>3. /\ Len(ss[i]) = 1 /\ ss[i][1].call = "collect" /\ ss[i][1].msg = fs[i].msg
        /\ ss[i][1].name = schema.messages[fs[i].msg].name
    BY <2>2, <1>1, <1>3, CollectOfIs
  <2>4. k = b + 1 /\ 1 \in 1..1
    BY <2>1, <2>3
  <2>5. w[k] = ss[i][1]
    BY <2>1, <2>3, <2>4 DEF Lies
  <2> QED BY <2>2, <2>3, <2>5, <1>1 DEF Fits
<1>8. ASSUME NEW f \in ToSet(fs), IsMessage(f)
      PROVE  \E k \in 1..Len(w) : w[k].call = "collect" /\ w[k].msg = f.msg
  <2>1. PICK i \in 1..n : f = fs[i]
    BY <1>1
  <2>2. /\ Len(ss[i]) = 1 /\ ss[i][1].call = "collect" /\ ss[i][1].msg = f.msg
    BY <2>1, <1>1, <1>3, <1>8, CollectOfIs
  <2>3. PICK b \in Nat : Lies(ss[i], w, b)
    BY <1>5 DEF Parts
  <2>4. b + 1 \in 1..Len(w) /\ w[b + 1] = ss[i][1]
    BY <1>5, <2>2, <2>3 DEF Lies
  <2> QED BY <2>2, <2>4
<1>9. Covers(w, fs)
  BY <1>8 DEF Covers
<1> QED BY <1>5, <1>6, <1>7, <1>9
FieldWork(w, f) ==
    /\ w \in Seq(Tasks)
    /\ \A i \in 1..Len(w) : /\ IsMessage(f) /\ w[i].msg = f.msg
                            /\ w[i].name = schema.messages[f.msg].name
                            /\ w[i].call \in {"resolve", "collect"}
                            /\ w[i].call = "resolve" => f.msg \notin entities
                            /\ Prepared(w, i, entities)
    /\ IsMessage(f) => \E i \in 1..Len(w) : w[i].call = "collect"

LEMMA FieldWorks ==
    ASSUME schema \in Schemas, NEW f, IsMessage(f) => f.msg \in Known
    PROVE  FieldWork(ResolveOf(f) \o CollectOf(f), f)
<1> DEFINE r == ResolveOf(f)
           c == CollectOf(f)
           w == r \o c
<1>1. r \in Seq(Tasks) /\ c \in Seq(Tasks)
  BY ResolveOfIs, CollectOfIs
<1>0. /\ w \in Seq(Tasks) /\ Len(w) = Len(r) + Len(c) /\ Len(r) \in Nat /\ Len(c) \in Nat
      /\ \A i \in 1..Len(r) : w[i] = r[i]
      /\ \A i \in 1..Len(c) : w[Len(r) + i] = c[i]
  <2> HIDE DEF r, c
  <2> QED BY <1>1
<1> SUFFICES FieldWork(w, f)
  OBVIOUS
<1> HIDE DEF w
<1>2. CASE ToNonEntity(f)
  <2>1. IsMessage(f) /\ f.msg \notin entities
    BY <1>2 DEF ToNonEntity
  <2>2. /\ Len(r) = 1 /\ r[1].call = "resolve" /\ r[1].msg = f.msg
        /\ Len(c) = 1 /\ c[1].call = "collect" /\ c[1].msg = f.msg
        /\ r[1].name = schema.messages[f.msg].name
        /\ c[1].name = schema.messages[f.msg].name
    BY <1>2, <2>1, ResolveOfIs, CollectOfIs
  <2> HIDE DEF r, c
  <2>3. Len(w) = 2 /\ w[1] = r[1] /\ w[2] = c[1] /\ w \in Seq(Tasks)
    BY <1>0, <2>2
  <2>4. 1..Len(w) = {1, 2} /\ 1 \in 1..(2 - 1)
    BY <2>3
  <2>5. Prepared(w, 1, entities) /\ Prepared(w, 2, entities)
    BY <2>2, <2>3, <2>4 DEF Prepared
  <2>6. ASSUME NEW i \in {1, 2}
        PROVE  /\ w[i].msg = f.msg
               /\ w[i].name = schema.messages[f.msg].name
               /\ w[i].call \in {"resolve", "collect"}
               /\ Prepared(w, i, entities)
    <3>1. CASE i = 1
      BY <3>1, <2>2, <2>3, <2>5
    <3>2. CASE i = 2
      BY <3>2, <2>2, <2>3, <2>5
    <3> QED BY <3>1, <3>2
  <2>7. \E i \in 1..Len(w) : w[i].call = "collect"
    BY <2>2, <2>3, <2>4
  <2>8. \A i \in 1..Len(w) : /\ IsMessage(f) /\ w[i].msg = f.msg
                             /\ w[i].name = schema.messages[f.msg].name
                             /\ w[i].call \in {"resolve", "collect"}
                             /\ w[i].call = "resolve" => f.msg \notin entities
                             /\ Prepared(w, i, entities)
    BY <2>1, <2>4, <2>6
  <2> QED BY <2>3, <2>7, <2>8 DEF FieldWork
<1>3. CASE IsMessage(f) /\ ~ToNonEntity(f)
  <2>1. f.msg \in entities
    BY <1>3 DEF ToNonEntity
  <2>2. /\ Len(r) = 0
        /\ Len(c) = 1 /\ c[1].call = "collect" /\ c[1].msg = f.msg
        /\ c[1].name = schema.messages[f.msg].name
    BY <1>3, ResolveOfIs, CollectOfIs
  <2> HIDE DEF r, c
  <2>3. Len(w) = 1 /\ w[1] = c[1] /\ w \in Seq(Tasks)
    BY <1>0, <2>2
  <2>4. 1..Len(w) = {1}
    BY <2>3
  <2>5. Prepared(w, 1, entities)
    BY <2>1, <2>2, <2>3 DEF Prepared
  <2>6. \E i \in 1..Len(w) : w[i].call = "collect"
    BY <2>2, <2>3, <2>4
  <2>7. \A i \in 1..Len(w) : /\ IsMessage(f) /\ w[i].msg = f.msg
                             /\ w[i].name = schema.messages[f.msg].name
                             /\ w[i].call \in {"resolve", "collect"}
                             /\ w[i].call = "resolve" => f.msg \notin entities
                             /\ Prepared(w, i, entities)
    BY <1>3, <2>2, <2>3, <2>4, <2>5
  <2> QED BY <2>3, <2>6, <2>7 DEF FieldWork
<1>4. CASE ~IsMessage(f)
  <2>1. ~ToNonEntity(f)
    BY <1>4 DEF ToNonEntity
  <2>2. Len(r) = 0 /\ Len(c) = 0
    BY <1>4, <2>1, ResolveOfIs, CollectOfIs
  <2> HIDE DEF r, c
  <2>3. Len(w) = 0 /\ w \in Seq(Tasks)
    BY <1>0, <2>2
  <2>4. \A i \in 1..Len(w) : FALSE
    BY <2>3
  <2> QED BY <1>4, <2>3, <2>4 DEF FieldWork
<1> QED BY <1>2, <1>3, <1>4

(* The fields of a response: all are resolved, then all are collected.     *)
LEMMA ResponseWorks ==
    ASSUME schema \in Schemas, NEW fs, FieldSeq(fs)
    PROVE  Works(ResolveAll(fs) \o CollectAll(fs), fs)
<1> DEFINE r == ResolveAll(fs)
           c == CollectAll(fs)
           w == r \o c
<1>1. /\ r \in Seq(Tasks)
      /\ \A i \in 1..Len(r) : r[i].call = "resolve" /\ Fits(r[i], fs)
      /\ \A f \in ToSet(fs) : ToNonEntity(f) =>
            \E i \in 1..Len(r) : r[i].call = "resolve" /\ r[i].msg = f.msg
  BY ResolveAllIs
<1>2. /\ c \in Seq(Tasks)
      /\ \A i \in 1..Len(c) : c[i].call = "collect" /\ Fits(c[i], fs)
      /\ Covers(c, fs)
  BY CollectAllIs
<1> HIDE DEF r, c
<1>3. /\ w \in Seq(Tasks) /\ Len(w) = Len(r) + Len(c) /\ Len(r) \in Nat /\ Len(c) \in Nat
      /\ \A i \in 1..Len(r) : w[i] = r[i]
      /\ \A i \in 1..Len(c) : Len(r) + i \in 1..Len(w) /\ w[Len(r) + i] = c[i]
  BY <1>1, <1>2
<1> HIDE DEF w
<1>4. ASSUME NEW k \in 1..Len(w) PROVE Fits(w[k], fs) /\ Prepared(w, k, entities)
  <2>1. CASE k \in 1..Len(r)
    BY <1>1, <1>3, <2>1 DEF Prepared
  <2>2. CASE k \notin 1..Len(r)
    <3>1. PICK i \in 1..Len(c) : k = Len(r) + i
      <4>1. k - Len(r) \in 1..Len(c) /\ k = Len(r) + (k - Len(r))
        BY <1>3, <2>2
      <4> QED BY <4>1
    <3>2. w[k] = c[i] /\ Fits(c[i], fs)
      BY <1>2, <1>3, <3>1
    <3>3. PICK f \in ToSet(fs) : IsMessage(f) /\ f.msg = w[k].msg
      BY <3>2 DEF Fits
    <3>4. CASE f.msg \in entities
      BY <3>2, <3>3, <3>4 DEF Prepared
    <3>5. CASE f.msg \notin entities
      <4>1. PICK j \in 1..Len(r) : r[j].call = "resolve" /\ r[j].msg = f.msg
        BY <1>1, <3>3, <3>5 DEF ToNonEntity
      <4>2. j \in 1..(k - 1) /\ w[j] = r[j]
        BY <1>3, <3>1, <4>1
      <4> QED BY <3>2, <3>3, <4>1, <4>2 DEF Prepared
    <3> QED BY <3>2, <3>4, <3>5
  <2> QED BY <2>1, <2>2
<1>5. Covers(w, fs)
  <2> SUFFICES ASSUME NEW f \in ToSet(fs), IsMessage(f)
               PROVE  \E k \in 1..Len(w) : w[k].call = "collect" /\ w[k].msg = f.msg
    BY DEF Covers
  <2>1. PICK i \in 1..Len(c) : c[i].call = "collect" /\ c[i].msg = f.msg
    BY <1>2 DEF Covers
  <2> QED BY <1>3, <2>1
<1>6. Works(w, fs)
  BY <1>3, <1>4, <1>5 DEF Works
<1> QED BY <1>6 DEF w, r, c

(* The fields of a request: each is resolved and collected in turn.        *)
RequestWork(fs) == FlattenSeq([i \in DOMAIN fs |-> ResolveOf(fs[i]) \o CollectOf(fs[i])])

LEMMA RequestWorks ==
    ASSUME schema \in Schemas, NEW fs, FieldSeq(fs)
    PROVE  Works(RequestWork(fs), fs)
<1> DEFINE n == Len(fs)
           ss == [i \in DOMAIN fs |-> ResolveOf(fs[i]) \o CollectOf(fs[i])]
           w == FlattenSeq(ss)
<1>1. /\ n \in Nat /\ DOMAIN fs = 1..n
      /\ \A i \in 1..n : fs[i] \in ToSet(fs) /\ (IsMessage(fs[i]) => fs[i].msg \in Known)
      /\ \A f \in ToSet(fs) : \E i \in 1..n : f = fs[i]
  BY DEF FieldSeq, ToSet
<1>2. DOMAIN ss = 1..n /\ Len(ss) = n /\ ss = [i \in 1..n |-> ss[i]]
  BY <1>1
<1>3. \A i \in 1..n : ss[i] = ResolveOf(fs[i]) \o CollectOf(fs[i])
  BY <1>1
<1>w. RequestWork(fs) = w
  BY DEF RequestWork
<1> HIDE DEF ss, n
<1>f. \A i \in 1..n : FieldWork(ss[i], fs[i])
  BY <1>1, <1>3, FieldWorks
<1>4. \A i \in 1..n :
          /\ ss[i] \in Seq(Tasks)
          /\ \A q \in 1..Len(ss[i]) :
                /\ IsMessage(fs[i]) /\ ss[i][q].msg = fs[i].msg
                /\ ss[i][q].name = schema.messages[fs[i].msg].name
                /\ ss[i][q].call \in {"resolve", "collect"}
                /\ ss[i][q].call = "resolve" => fs[i].msg \notin entities
                /\ Prepared(ss[i], q, entities)
          /\ IsMessage(fs[i]) => \E q \in 1..Len(ss[i]) : ss[i][q].call = "collect"
  BY <1>f DEF FieldWork
<1>5. w \in Seq(Tasks) /\ Parts(ss, n, w)
  BY <1>1, <1>2, <1>4, FlattenParts
<1> HIDE DEF w
<1>6. ASSUME NEW k \in 1..Len(w) PROVE Fits(w[k], fs) /\ Prepared(w, k, entities)
  <2>1. PICK i \in 1..n, b \in Nat : Lies(ss[i], w, b) /\ b < k /\ k <= b + Len(ss[i])
    BY <1>5 DEF Parts
  <2>2. PICK q \in 1..Len(ss[i]) : k = b + q
    <3>1. k - b \in 1..Len(ss[i]) /\ k = b + (k - b)
      BY <1>4, <2>1
    <3> QED BY <3>1
  <2>3. \A j \in 1..Len(ss[i]) : w[b + j] = ss[i][j]
    BY <2>1 DEF Lies
  <2>4. w[k] = ss[i][q]
    BY <2>2, <2>3
  <2>5. Fits(w[k], fs)
    <3>1. /\ IsMessage(fs[i]) /\ w[k].msg = fs[i].msg
          /\ w[k].name = schema.messages[fs[i].msg].name
          /\ w[k].call \in {"resolve", "collect"}
          /\ w[k].call = "resolve" => fs[i].msg \notin entities
      BY <1>4, <2>4
    <3>2. fs[i] \in ToSet(fs)
      BY <1>1
    <3> QED BY <3>1, <3>2 DEF Fits
  <2>6. Prepared(w, k, entities)
    <3> SUFFICES ASSUME w[k].call = "collect", w[k].msg \notin entities
                 PROVE  \E j \in 1..(k - 1) : w[j].call = "resolve" /\ w[j].msg = w[k].msg
      BY DEF Prepared
    <3>1. PICK j \in 1..(q - 1) : ss[i][j].call = "resolve" /\ ss[i][j].msg = ss[i][q].msg
      <4>1. Prepared(ss[i], q, entities) /\ ss[i][q] = w[k]
        BY <1>4, <2>4
      <4>2. ss[i][q].call = "collect" /\ ss[i][q].msg \notin entities
        BY <4>1
      <4> QED BY <4>1, <4>2 DEF Prepared
    <3>2. b + j \in 1..(k - 1) /\ j \in 1..Len(ss[i])
      BY <1>4, <2>2
    <3>3. w[b + j] = ss[i][j]
      BY <2>3, <3>2
    <3> QED BY <2>4, <3>1, <3>2, <3>3
  <2> QED BY <2>5, <2>6
<1>7. Covers(w, fs)
  <2> SUFFICES ASSUME NEW f \in ToSet(fs), IsMessage(f)
               PROVE  \E k \in 1..Len(w) : w[k].call = "collect" /\ w[k].msg = f.msg
    BY DEF Covers
  <2>1. PICK i \in 1..n : f = fs[i]
    BY <1>1
  <2>2. PICK q \in 1..Len(ss[i]) : ss[i][q].call = "collect" /\ ss[i][q].msg = f.msg
    BY <1>4, <2>1
  <2>3. PICK b \in Nat : Lies(ss[i], w, b)
    BY <1>5 DEF Parts
  <2>4. b + q \in 1..Len(w) /\ w[b + q] = ss[i][q]
    BY <1>4, <1>5, <2>3 DEF Lies
  <2> QED BY <2>2, <2>4
<1>8. Works(w, fs)
  BY <1>5, <1>6, <1>7 DEF Works
<1> QED BY <1>8, <1>w

----------------------------------------------------------------------------
(* The agenda.  A message is collected only once it has a name, and the    *)
(* search of a response comes last.                                        *)

Ordered(s, named) ==
    \A i \in 1..Len(s) :
        /\ s[i].call = "resolve" => s[i].msg \notin entities
        /\ s[i].call = "search" => i = Len(s)
        /\ Prepared(s, i, named)

LEMMA WorkOrdered ==
    ASSUME NEW w, NEW fs, Works(w, fs), NEW r \in Seq(Tasks), NEW named, entities \subseteq named,
           Ordered(r, named)
    PROVE  w \o r \in Seq(Tasks) /\ Ordered(w \o r, named)
<1> DEFINE s == w \o r
<1>1. /\ s \in Seq(Tasks) /\ Len(s) = Len(w) + Len(r) /\ Len(w) \in Nat /\ Len(r) \in Nat
      /\ \A i \in 1..Len(w) : s[i] = w[i]
      /\ \A i \in 1..Len(r) : s[Len(w) + i] = r[i]
  BY DEF Works
<1> HIDE DEF s
<1>2. ASSUME NEW k \in 1..Len(s)
      PROVE  /\ s[k].call = "resolve" => s[k].msg \notin entities
             /\ s[k].call = "search" => k = Len(s)
             /\ Prepared(s, k, named)
  <2>1. CASE k \in 1..Len(w)
    <3>1. s[k] = w[k] /\ Fits(w[k], fs) /\ Prepared(w, k, entities)
      BY <1>1, <2>1 DEF Works
    <3>2. w[k].call # "search" /\ (w[k].call = "resolve" => w[k].msg \notin entities)
      BY <3>1 DEF Fits
    <3>3. \A j \in 1..(k - 1) : s[j] = w[j]
      BY <1>1, <2>1
    <3>4. Prepared(s, k, named)
      BY <3>1, <3>3 DEF Prepared
    <3> QED BY <3>1, <3>2, <3>4
  <2>2. CASE k \notin 1..Len(w)
    <3>1. PICK i \in 1..Len(r) : k = Len(w) + i
      <4>1. k - Len(w) \in 1..Len(r) /\ k = Len(w) + (k - Len(w))
        BY <1>1, <2>2
      <4> QED BY <4>1
    <3>2. /\ s[k] = r[i]
          /\ r[i].call = "resolve" => r[i].msg \notin entities
          /\ r[i].call = "search" => i = Len(r)
          /\ Prepared(r, i, named)
      BY <1>1, <3>1 DEF Ordered
    <3>3. \A j \in 1..(i - 1) : Len(w) + j \in 1..(k - 1) /\ s[Len(w) + j] = r[j]
      BY <1>1, <3>1
    <3>4. Prepared(s, k, named)
      BY <3>2, <3>3 DEF Prepared
    <3> QED BY <1>1, <3>1, <3>2, <3>4
  <2> QED BY <2>1, <2>2
<1>3. Ordered(s, named)
  BY <1>2 DEF Ordered
<1> QED BY <1>1, <1>3 DEF s

LEMMA OrderedTail ==
    ASSUME NEW s \in Seq(Tasks), s # <<>>, NEW named, NEW more, named \subseteq more,
           Ordered(s, named), s[1].call = "resolve" => s[1].msg \in more
    PROVE  Tail(s) \in Seq(Tasks) /\ Ordered(Tail(s), more)
<1> DEFINE r == Tail(s)
<1>1. /\ r \in Seq(Tasks) /\ Len(s) \in Nat /\ Len(r) = Len(s) - 1
      /\ \A i \in 1..Len(r) : r[i] = s[i + 1] /\ i + 1 \in 1..Len(s)
  OBVIOUS
<1> HIDE DEF r
<1>2. ASSUME NEW k \in 1..Len(r)
      PROVE  /\ r[k].call = "resolve" => r[k].msg \notin entities
             /\ r[k].call = "search" => k = Len(r)
             /\ Prepared(r, k, more)
  <2>1. /\ r[k] = s[k + 1]
        /\ s[k + 1].call = "resolve" => s[k + 1].msg \notin entities
        /\ s[k + 1].call = "search" => k + 1 = Len(s)
        /\ Prepared(s, k + 1, named)
    BY <1>1 DEF Ordered
  <2>2. ASSUME r[k].call = "collect", r[k].msg \notin more
        PROVE  \E j \in 1..(k - 1) : r[j].call = "resolve" /\ r[j].msg = r[k].msg
    <3>1. PICK i \in 1..((k + 1) - 1) : s[i].call = "resolve" /\ s[i].msg = r[k].msg
      BY <2>1, <2>2 DEF Prepared
    <3>2. i # 1
      BY <2>2, <3>1
    <3>3. i - 1 \in 1..(k - 1) /\ i - 1 \in 1..Len(r) /\ (i - 1) + 1 = i
      BY <1>1, <3>1, <3>2
    <3>4. r[i - 1] = s[i]
      BY <1>1, <3>3
    <3> QED BY <3>1, <3>3, <3>4
  <2>3. Prepared(r, k, more)
    BY <2>2 DEF Prepared
  <2> QED BY <1>1, <2>1, <2>3
<1>3. Ordered(r, more)
  BY <1>2 DEF Ordered
<1> QED BY <1>1, <1>3 DEF r

(* resolve adds an underscore to the name it tries.                        *)
LEMMA OrderedRetry ==
    ASSUME NEW s \in Seq(Tasks), s # <<>>, NEW named, Ordered(s, named),
           NEW t \in Tasks, t.call = s[1].call, t.msg = s[1].msg
    PROVE  <<t>> \o Tail(s) \in Seq(Tasks) /\ Ordered(<<t>> \o Tail(s), named)
<1> DEFINE r == <<t>> \o Tail(s)
<1>1. /\ r \in Seq(Tasks) /\ Len(r) = Len(s) /\ Len(s) \in Nat
      /\ r[1] = t /\ \A i \in 1..Len(r) : i # 1 => r[i] = s[i]
  OBVIOUS
<1> HIDE DEF r
<1>2. \A i \in 1..Len(r) : r[i].call = s[i].call /\ r[i].msg = s[i].msg
  BY <1>1
<1>3. ASSUME NEW k \in 1..Len(r)
      PROVE  /\ r[k].call = "resolve" => r[k].msg \notin entities
             /\ r[k].call = "search" => k = Len(r)
             /\ Prepared(r, k, named)
  <2>1. /\ s[k].call = "resolve" => s[k].msg \notin entities
        /\ s[k].call = "search" => k = Len(s)
        /\ Prepared(s, k, named)
    BY <1>1 DEF Ordered
  <2>2. \A i \in 1..(k - 1) : r[i].call = s[i].call /\ r[i].msg = s[i].msg
    BY <1>1, <1>2
  <2>3. Prepared(r, k, named)
    BY <1>2, <2>1, <2>2 DEF Prepared
  <2> QED BY <1>1, <1>2, <2>1, <2>3
<1>4. Ordered(r, named)
  BY <1>3 DEF Ordered
<1> QED BY <1>1, <1>4 DEF r

LEMMA RetryTyped ==
    ASSUME NEW t \in Tasks
    PROVE  /\ [t EXCEPT !.name.bars = @ + 1] \in Tasks
           /\ [t EXCEPT !.name.bars = @ + 1].call = t.call
           /\ [t EXCEPT !.name.bars = @ + 1].msg = t.msg
           /\ [t EXCEPT !.name.bars = @ + 1].name = [t.name EXCEPT !.bars = @ + 1]
<1>1. t.name \in Names /\ t.name.bars + 1 \in Nat
  BY DEF Tasks, Names
<1>2. [t.name EXCEPT !.bars = t.name.bars + 1] \in Names
  BY <1>1 DEF Names
<1>3. [t EXCEPT !.name.bars = @ + 1] = [t EXCEPT !.name = [t.name EXCEPT !.bars = t.name.bars + 1]]
  OBVIOUS
<1> DEFINE v == [t.name EXCEPT !.bars = t.name.bars + 1]
<1> HIDE DEF v
<1>4. v \in Names => /\ [t EXCEPT !.name = v] \in Tasks
                     /\ [t EXCEPT !.name = v].call = t.call
                     /\ [t EXCEPT !.name = v].msg = t.msg
                     /\ [t EXCEPT !.name = v].name = v
  BY DEF Tasks
<1> QED BY <1>2, <1>3, <1>4 DEF v

----------------------------------------------------------------------------
(* The types of the variables, and what the phases have in common.         *)

Typed ==
    /\ schema \in Schemas
    /\ pc \in {"entities", "services", "done", "failed", "overflow"}
    /\ at \in Positions
    /\ entities \subseteq Known
    /\ DOMAIN rename \subseteq Known \ entities
    /\ \A x \in DOMAIN types : types[x] \in DOMAIN rename /\ rename[types[x]] = x
    /\ usesEntity \in BOOLEAN
    /\ agenda \in Seq(Tasks)
    /\ calls \in Seq(Frames)
    /\ Len(calls) <= MaxCalls

(* Before the services nothing is built. *)
Fresh ==
    pc = "entities" =>
        /\ at.service = 1 /\ at.method = 1
        /\ rename = <<>> /\ types = <<>> /\ usesEntity = FALSE
        /\ agenda = <<>> /\ calls = <<>> /\ files = <<>>

(* Work is left only for a method that has been visited. *)
Placed ==
    /\ \A k \in 1..(at.method - 1) :
          /\ at.service \in DOMAIN schema.services
          /\ k \in DOMAIN schema.services[at.service].methods
    /\ agenda # <<>> => at.method # 1
    /\ calls # <<>> => agenda # <<>> /\ agenda[1].call = "search"

TInv ==
    /\ Typed /\ Fresh /\ Placed
    /\ Ordered(agenda, entities \cup DOMAIN rename)

LEMMA InitTyped == Init => TInv
<1> SUFFICES ASSUME Init PROVE TInv
  OBVIOUS
<1>1. Typed
  <2>1. schema \in Schemas /\ pc = "entities" /\ entities = {} /\ usesEntity = FALSE
    BY DEF Init
  <2>2. at \in Positions
    BY DEF Init, Positions
  <2>3. DOMAIN rename = {} /\ DOMAIN types = {}
    BY DEF Init
  <2>4. agenda \in Seq(Tasks) /\ calls \in Seq(Frames) /\ Len(calls) = 0
    BY DEF Init
  <2>5. Len(calls) <= MaxCalls
    BY <2>4, MaxCallsAssumption
  <2>6. /\ pc \in {"entities", "services", "done", "failed", "overflow"}
        /\ usesEntity \in BOOLEAN /\ entities \subseteq Known
        /\ DOMAIN rename \subseteq Known \ entities
        /\ \A x \in DOMAIN types : types[x] \in DOMAIN rename /\ rename[types[x]] = x
    BY <2>1, <2>3
  <2> QED BY <2>1, <2>2, <2>4, <2>5, <2>6 DEF Typed
<1>2. Fresh /\ Placed /\ Ordered(agenda, entities \cup DOMAIN rename)
  BY DEF Init, Fresh, Placed, Ordered
<1> QED BY <1>1, <1>2 DEF TInv

(* The methods of a service are methods, and their messages are known.     *)
LEMMA MethodsTyped ==
    ASSUME schema \in Schemas
    PROVE  /\ schema.services \in Seq(ToSet(schema.services))
           /\ \A i \in DOMAIN schema.services :
                 /\ schema.services[i].methods \in Seq(ToSet(schema.services[i].methods))
                 /\ \A k \in DOMAIN schema.services[i].methods :
                       /\ schema.services[i].methods[k].input \in Known
                       /\ schema.services[i].methods[k].output \in Known
<1>1. /\ schema.services \in Seq(ToSet(schema.services))
      /\ \A v \in ToSet(schema.services) :
            /\ v.methods \in Seq(ToSet(v.methods))
            /\ \A m \in ToSet(v.methods) : {m.input, m.output} \subseteq Known
  BY SchemasAssumption DEF Known
<1>2. ASSUME NEW i \in DOMAIN schema.services
      PROVE  /\ schema.services[i].methods \in Seq(ToSet(schema.services[i].methods))
             /\ \A k \in DOMAIN schema.services[i].methods :
                   /\ schema.services[i].methods[k].input \in Known
                   /\ schema.services[i].methods[k].output \in Known
  <2>1. schema.services[i] \in ToSet(schema.services)
    BY DEF ToSet
  <2>2. \A k \in DOMAIN schema.services[i].methods :
           schema.services[i].methods[k] \in ToSet(schema.services[i].methods)
    BY DEF ToSet
  <2> QED BY <1>1, <2>1, <2>2
<1> QED BY <1>1, <1>2

LEMMA FieldSeqs ==
    ASSUME schema \in Schemas, NEW m \in Known
    PROVE  FieldSeq(Fields(m))
BY FieldsTyped DEF FieldSeq

(* The agenda of a method: its request, its response, and the search.      *)
LEMMA MethodWorks ==
    ASSUME schema \in Schemas, NEW m, m.input \in Known, m.output \in Known
    PROVE  \E w, v :
              /\ MethodAgenda(m) = w \o v
              /\ Works(w, Fields(m.input))
              /\ ~ReturnsOutput(m) => v = <<>>
              /\ ReturnsOutput(m) => \E u : Works(u, Fields(m.output)) /\ v = u \o <<Search(m.output)>>
<1> DEFINE in == Fields(m.input)
           out == Fields(m.output)
           w == RequestWork(in)
           u == ResolveAll(out) \o CollectAll(out)
           v == IF ReturnsOutput(m) THEN u \o <<Search(m.output)>> ELSE <<>>
<1>1. Works(w, in)
  BY FieldSeqs, RequestWorks
<1>2. Works(u, out)
  BY FieldSeqs, ResponseWorks
<1>3. MethodAgenda(m) = w \o (IF ReturnsOutput(m)
            THEN ResolveAll(out) \o CollectAll(out) \o <<Search(m.output)>> ELSE <<>>)
  BY DEF MethodAgenda, RequestWork
<1>4. MethodAgenda(m) = w \o v
  BY <1>3
<1> HIDE DEF w, u
<1> QED BY <1>1, <1>2, <1>4

LEMMA MethodOrdered ==
    ASSUME schema \in Schemas, NEW m, m.input \in Known, m.output \in Known,
           NEW named, entities \subseteq named
    PROVE  MethodAgenda(m) \in Seq(Tasks) /\ Ordered(MethodAgenda(m), named)
<1>1. PICK w, v :
          /\ MethodAgenda(m) = w \o v
          /\ Works(w, Fields(m.input))
          /\ ~ReturnsOutput(m) => v = <<>>
          /\ ReturnsOutput(m) => \E u : Works(u, Fields(m.output)) /\ v = u \o <<Search(m.output)>>
  BY MethodWorks
<1>2. v \in Seq(Tasks) /\ Ordered(v, named)
  <2>1. CASE ~ReturnsOutput(m)
    BY <1>1, <2>1 DEF Ordered
  <2>2. CASE ReturnsOutput(m)
    <3>1. PICK u : Works(u, Fields(m.output)) /\ v = u \o <<Search(m.output)>>
      BY <1>1, <2>2
    <3>2. <<Search(m.output)>> \in Seq(Tasks) /\ Ordered(<<Search(m.output)>>, named)
      BY TasksTyped DEF Ordered, Prepared
    <3> QED BY <3>1, <3>2, WorkOrdered
  <2> QED BY <2>1, <2>2
<1> QED BY <1>1, <1>2, WorkOrdered

LEMMA ParseTyped == TInv /\ ParseEntity => TInv'
<1> SUFFICES ASSUME TInv, ParseEntity PROVE TInv'
  OBVIOUS
<1>1. /\ Typed /\ at.service = 1 /\ at.method = 1
      /\ rename = <<>> /\ types = <<>> /\ usesEntity = FALSE
      /\ agenda = <<>> /\ calls = <<>> /\ files = <<>>
  BY DEF TInv, Fresh, ParseEntity
<1>2. UNCHANGED <<schema, rename, types, usesEntity, agenda, calls, files>>
  BY DEF ParseEntity
<1>3. /\ pc' \in {"entities", "failed"}
      /\ at' = at \/ at' = [at EXCEPT !.message = @ + 1]
      /\ entities' \subseteq entities \cup {schema.order[at.message]}
  BY <1>1 DEF ParseEntity, Typed
<1>4. schema.order[at.message] \in Known
  <2>1. schema.order \in Seq(Known)
    BY <1>1, SchemasAssumption DEF Typed, Known
  <2>2. at.message \in 1..Len(schema.order)
    BY <1>1 DEF ParseEntity, Typed, Positions
  <2> QED BY <2>1, <2>2
<1>5. at' \in Positions /\ at'.service = 1 /\ at'.method = 1
  BY <1>1, <1>3 DEF Typed, Positions
<1>6. Known' = Known /\ Tasks' = Tasks /\ Frames' = Frames
  BY <1>2 DEF Known, Tasks, Frames
<1>7. Typed'
  BY <1>1, <1>2, <1>3, <1>4, <1>5, <1>6 DEF Typed
<1>8. Fresh' /\ Placed'
  BY <1>1, <1>2, <1>5 DEF Fresh, Placed
<1>9. Ordered(agenda, entities \cup DOMAIN rename)'
  BY <1>1, <1>2 DEF Ordered
<1> QED BY <1>7, <1>8, <1>9 DEF TInv

(* What every action of the services pass leaves alone. *)
LEMMA KnownKept ==
    ASSUME schema' = schema
    PROVE  Known' = Known /\ Tasks' = Tasks /\ Frames' = Frames
BY DEF Known, Tasks, Frames

(* A step that names nothing, and leaves the agenda as it is. *)
LEMMA KeptTyped ==
    ASSUME TInv, UNCHANGED <<schema, at, entities, rename, types, agenda, calls>>,
           pc' \in {"services", "done", "failed", "overflow"}, usesEntity' \in BOOLEAN
    PROVE  TInv'
<1>1. Known' = Known /\ Tasks' = Tasks /\ Frames' = Frames
  BY KnownKept
<1>2. Typed'
  BY <1>1 DEF TInv, Typed
<1>3. Fresh' /\ Placed'
  BY DEF TInv, Fresh, Placed
<1>4. Ordered(agenda, entities \cup DOMAIN rename)'
  BY DEF TInv, Ordered
<1> QED BY <1>2, <1>3, <1>4 DEF TInv

LEMMA BuildTyped == TInv /\ BuildMethod => TInv'
<1> SUFFICES ASSUME TInv, BuildMethod PROVE TInv'
  OBVIOUS
<1>1. /\ Typed /\ Placed /\ pc = "services" /\ pc' = pc /\ agenda = <<>> /\ calls = <<>>
      /\ at.service <= Len(schema.services)
      /\ at.method <= Len(schema.services[at.service].methods)
      /\ agenda' = MethodAgenda(Method)
      /\ usesEntity' = (usesEntity \/ HasEntity(Fields(Method.input)))
      /\ at' = [at EXCEPT !.method = @ + 1]
      /\ UNCHANGED <<schema, entities, rename, types, calls>>
  BY DEF TInv, BuildMethod, Placed
<1>2. Known' = Known /\ Tasks' = Tasks /\ Frames' = Frames
  BY <1>1, KnownKept
<1>3. /\ at.service \in DOMAIN schema.services
      /\ at.method \in DOMAIN schema.services[at.service].methods
      /\ Method.input \in Known /\ Method.output \in Known
  <2>1. schema \in Schemas /\ at.service \in Nat \ {0} /\ at.method \in Nat \ {0}
    BY <1>1 DEF Typed, Positions
  <2>2. at.service \in DOMAIN schema.services
    BY <1>1, <2>1, MethodsTyped
  <2>3. at.method \in DOMAIN schema.services[at.service].methods
    BY <1>1, <2>1, <2>2, MethodsTyped
  <2> QED BY <2>1, <2>2, <2>3, MethodsTyped DEF Method
<1>4. /\ at' \in Positions /\ at'.service = at.service /\ at'.method = at.method + 1
      /\ at.method \in Nat \ {0}
  BY <1>1 DEF Typed, Positions
<1>5. agenda' \in Seq(Tasks) /\ Ordered(agenda', entities \cup DOMAIN rename)
  BY <1>1, <1>3, MethodOrdered DEF Typed
<1>6. usesEntity' \in BOOLEAN
  BY <1>1 DEF Typed, HasEntity
<1>7. Typed'
  BY <1>1, <1>2, <1>4, <1>5, <1>6 DEF Typed
<1>8. Fresh' /\ Placed'
  <2>1. \A k \in 1..(at'.method - 1) : k \in 1..(at.method - 1) \/ k = at.method
    BY <1>4
  <2>2. \A k \in 1..(at'.method - 1) :
            /\ at'.service \in DOMAIN schema'.services
            /\ k \in DOMAIN schema'.services[at'.service].methods
    BY <1>1, <1>3, <1>4, <2>1 DEF Placed
  <2>3. at'.method # 1
    BY <1>4
  <2> QED BY <1>1, <2>2, <2>3 DEF Fresh, Placed
<1>9. Ordered(agenda, entities \cup DOMAIN rename)'
  BY <1>1, <1>5 DEF Ordered
<1> QED BY <1>7, <1>8, <1>9 DEF TInv

(* The facts the steps of the agenda start from. *)
LEMMA HeadIs ==
    ASSUME TInv, NEW name, Calling(name)
    PROVE  /\ Typed /\ Placed /\ pc = "services" /\ agenda # <<>> /\ agenda \in Seq(Tasks)
           /\ Head(agenda) = agenda[1] /\ Head(agenda) \in Tasks /\ Head(agenda).msg \in Known
           /\ Head(agenda).call = name /\ at.method # 1
           /\ Ordered(agenda, entities \cup DOMAIN rename)
<1>1. /\ Typed /\ Placed /\ pc = "services" /\ agenda # <<>> /\ agenda \in Seq(Tasks)
      /\ Head(agenda).call = name
      /\ Ordered(agenda, entities \cup DOMAIN rename)
  BY DEF TInv, Typed, Calling
<1>2. Head(agenda) = agenda[1] /\ Head(agenda) \in Tasks
  BY <1>1
<1> QED BY <1>1, <1>2 DEF Placed, Tasks

LEMMA HeadPrepared ==
    ASSUME TInv
    PROVE  /\ Calling("resolve") => Head(agenda).msg \in Known \ entities
           /\ Calling("collect") => Head(agenda).msg \in entities \cup DOMAIN rename
           /\ Calling("search") => Tail(agenda) = <<>> /\ Len(agenda) = 1
<1>1. CASE Calling("resolve")
  BY <1>1, HeadIs DEF Ordered, Calling
<1>2. CASE Calling("collect")
  <2>1. 1 \in 1..Len(agenda) /\ agenda[1].call = "collect" /\ Head(agenda) = agenda[1]
    BY <1>2, HeadIs
  <2>2. Prepared(agenda, 1, entities \cup DOMAIN rename)
    BY <1>2, <2>1, HeadIs DEF Ordered
  <2>3. ~Calling("resolve") /\ ~Calling("search")
    BY <1>2 DEF Calling
  <2> QED BY <2>1, <2>2, <2>3 DEF Prepared
<1>3. CASE Calling("search")
  <2>1. /\ 1 \in 1..Len(agenda) /\ agenda[1].call = "search"
        /\ agenda \in Seq(Tasks) /\ agenda # <<>>
    BY <1>3, HeadIs
  <2>2. Len(agenda) = 1
    BY <1>3, <2>1, HeadIs DEF Ordered
  <2>3. Tail(agenda) = <<>>
    <3> DEFINE r == Tail(agenda)
    <3>1. agenda \in Seq(Tasks) /\ agenda # <<>> /\ Len(agenda) = 1
      BY <2>1, <2>2
    <3>2. r \in Seq(Tasks) /\ Len(r) = 0
      BY <3>1
    <3> HIDE DEF r
    <3>3. r = <<>>
      BY <3>2
    <3> QED BY <3>3 DEF r
  <2>4. ~Calling("resolve") /\ ~Calling("collect")
    BY <1>3 DEF Calling
  <2> QED BY <2>2, <2>3, <2>4
<1> QED BY <1>1, <1>2, <1>3

(* Dropping the head of the agenda. *)
LEMMA TailTyped ==
    ASSUME TInv, NEW name, Calling(name), agenda' = Tail(agenda),
           UNCHANGED <<schema, pc, at, entities, calls>>, name # "search" \/ calls' = <<>>,
           DOMAIN rename \subseteq DOMAIN rename', DOMAIN rename' \subseteq Known \ entities,
           \A x \in DOMAIN types' : types'[x] \in DOMAIN rename' /\ rename'[types'[x]] = x,
           Head(agenda).call = "resolve" => Head(agenda).msg \in DOMAIN rename',
           usesEntity' \in BOOLEAN
    PROVE  TInv'
<1>1. /\ Typed /\ Placed /\ pc = "services" /\ agenda # <<>> /\ agenda \in Seq(Tasks)
      /\ Head(agenda) = agenda[1] /\ agenda[1].call = name
      /\ Ordered(agenda, entities \cup DOMAIN rename)
  BY HeadIs
<1>2. Known' = Known /\ Tasks' = Tasks /\ Frames' = Frames
  BY KnownKept
<1>3. /\ agenda' \in Seq(Tasks)
      /\ Ordered(agenda', entities \cup DOMAIN rename')
  <2>1. entities \cup DOMAIN rename \subseteq entities \cup DOMAIN rename'
    OBVIOUS
  <2>2. agenda[1].call = "resolve" => agenda[1].msg \in entities \cup DOMAIN rename'
    BY <1>1
  <2> QED BY <1>1, <2>1, <2>2, OrderedTail
<1>4. calls' = <<>>
  BY <1>1 DEF Placed
<1>5. Typed'
  <2>1. calls' \in Seq(Frames') /\ Len(calls') <= MaxCalls
    BY <1>1, <1>2 DEF Typed
  <2> QED BY <1>1, <1>2, <1>3, <2>1 DEF Typed
<1>6. Fresh' /\ Placed'
  BY <1>1, <1>4 DEF Fresh, Placed
<1>7. Ordered(agenda, entities \cup DOMAIN rename)'
  BY <1>3 DEF Ordered
<1> QED BY <1>5, <1>6, <1>7 DEF TInv

LEMMA ResolveTyped == TInv /\ IInv /\ ResolveName => TInv'
<1> SUFFICES ASSUME TInv, IInv, ResolveName PROVE TInv'
  OBVIOUS
<1> DEFINE t == Head(agenda)
<1>1. /\ Calling("resolve") /\ UNCHANGED <<schema, pc, at, entities, types, usesEntity, calls>>
  BY DEF ResolveName
<1>2. /\ Typed /\ Placed /\ pc = "services" /\ agenda # <<>> /\ agenda \in Seq(Tasks)
      /\ t = agenda[1] /\ t \in Tasks /\ t.msg \in Known \ entities /\ t.call = "resolve"
      /\ Ordered(agenda, entities \cup DOMAIN rename)
  BY <1>1, HeadIs, HeadPrepared
<1>3. CASE t.msg \in DOMAIN rename /\ agenda' = Tail(agenda) /\ rename' = rename
  BY <1>1, <1>2, <1>3, TailTyped DEF Typed
<1>4. CASE agenda' = <<[t EXCEPT !.name.bars = @ + 1]>> \o Tail(agenda) /\ rename' = rename
  <2> DEFINE u == [t EXCEPT !.name.bars = @ + 1]
  <2>1. u \in Tasks /\ u.call = t.call /\ u.msg = t.msg
    BY <1>2, RetryTyped
  <2> HIDE DEF u
  <2>2. agenda' \in Seq(Tasks) /\ Ordered(agenda', entities \cup DOMAIN rename)
    <3>1. agenda' = <<u>> \o Tail(agenda)
      BY <1>4 DEF u
    <3> QED BY <1>2, <2>1, <3>1, OrderedRetry
  <2>3. agenda'[1].call = "resolve" /\ agenda' # <<>> /\ calls = <<>>
    <3>1. agenda' = <<u>> \o Tail(agenda)
      BY <1>4 DEF u
    <3>2. agenda'[1] = u
      BY <1>2, <2>1, <3>1
    <3> QED BY <1>2, <2>1, <3>1, <3>2 DEF Placed
  <2>4. Known' = Known /\ Tasks' = Tasks /\ Frames' = Frames
    BY <1>1, KnownKept
  <2>5. Typed'
    BY <1>1, <1>2, <1>4, <2>2, <2>4 DEF Typed
  <2>6. Fresh' /\ Placed'
    BY <1>1, <1>2, <2>3 DEF Fresh, Placed
  <2>7. Ordered(agenda, entities \cup DOMAIN rename)'
    BY <1>1, <1>4, <2>2 DEF Ordered
  <2> QED BY <2>5, <2>6, <2>7 DEF TInv
<1>5. CASE /\ t.msg \notin DOMAIN rename /\ rename' = With(rename, t.msg, t.name)
           /\ agenda' = Tail(agenda)
  <2>1. /\ DOMAIN rename' = DOMAIN rename \cup {t.msg}
        /\ \A x \in DOMAIN rename : x # t.msg => rename'[x] = rename[x]
    BY <1>5 DEF With
  <2>2. \A x \in DOMAIN types' : types'[x] \in DOMAIN rename' /\ rename'[types'[x]] = x
    BY <1>1, <1>2, <1>5, <2>1 DEF Typed
  <2>3. DOMAIN rename' \subseteq Known \ entities
    BY <1>2, <2>1 DEF Typed
  <2>4. usesEntity' \in BOOLEAN
    BY <1>1, <1>2 DEF Typed
  <2> HIDE DEF t
  <2>5. Head(agenda).call = "resolve" => Head(agenda).msg \in DOMAIN rename'
    BY <2>1 DEF t
  <2> QED BY <1>1, <1>5, <2>1, <2>2, <2>3, <2>4, <2>5, TailTyped
<1> QED BY <1>3, <1>4, <1>5 DEF ResolveName

LEMMA CollectTyped == TInv /\ IInv /\ CollectTypes => TInv'
<1> SUFFICES ASSUME TInv, IInv, CollectTypes PROVE TInv'
  OBVIOUS
<1> DEFINE m == Head(agenda).msg
<1>1. /\ Calling("collect") /\ UNCHANGED <<schema, pc, at, entities, rename, usesEntity, calls>>
  BY DEF CollectTypes
<1>2. /\ Typed /\ Placed /\ pc = "services" /\ agenda # <<>> /\ agenda \in Seq(Tasks)
      /\ m \in Known /\ m \in entities \cup DOMAIN rename /\ agenda[1].call = "collect"
      /\ Head(agenda) = agenda[1] /\ at.method # 1
      /\ Ordered(agenda, entities \cup DOMAIN rename)
  BY <1>1, HeadIs, HeadPrepared
<1>3. CASE agenda' = Tail(agenda) /\ types' = types
  BY <1>1, <1>2, <1>3, TailTyped DEF Typed
<1>4. CASE /\ m \notin entities
           /\ types' = With(types, rename[m], m)
           /\ agenda' = ResolveAll(Fields(m)) \o CollectAll(Fields(m)) \o Tail(agenda)
  <2> HIDE DEF m
  <2>1. Works(ResolveAll(Fields(m)) \o CollectAll(Fields(m)), Fields(m))
    BY <1>2, FieldSeqs, ResponseWorks DEF Typed
  <2>2. Tail(agenda) \in Seq(Tasks) /\ Ordered(Tail(agenda), entities \cup DOMAIN rename)
    BY <1>2, OrderedTail
  <2>3. agenda' \in Seq(Tasks) /\ Ordered(agenda', entities \cup DOMAIN rename)
    BY <1>4, <2>1, <2>2, WorkOrdered
  <2>4. Known' = Known /\ Tasks' = Tasks /\ Frames' = Frames
    BY <1>1, KnownKept
  <2>5. \A x \in DOMAIN types' : types'[x] \in DOMAIN rename' /\ rename'[types'[x]] = x
    <3>1. DOMAIN types' = DOMAIN types \cup {rename[m]}
      BY <1>4 DEF With
    <3>2. \A x \in DOMAIN types' : types'[x] = IF x = rename[m] THEN m ELSE types[x]
      BY <1>4, <3>1 DEF With
    <3>3. m \in DOMAIN rename
      BY <1>2, <1>4
    <3> QED BY <1>1, <1>2, <3>1, <3>2, <3>3 DEF Typed
  <2>6. Typed'
    BY <1>1, <1>2, <2>3, <2>4, <2>5 DEF Typed
  <2>7. Fresh' /\ Placed'
    BY <1>1, <1>2 DEF Fresh, Placed
  <2>8. Ordered(agenda, entities \cup DOMAIN rename)'
    BY <1>1, <2>3 DEF Ordered
  <2> QED BY <2>6, <2>7, <2>8 DEF TInv
<1> QED BY <1>3, <1>4 DEF CollectTypes

LEMMA EnterTyped == TInv /\ EnterSearch => TInv'
<1> SUFFICES ASSUME TInv, EnterSearch PROVE TInv'
  OBVIOUS
<1>1. /\ Calling("search") /\ UNCHANGED <<schema, pc, at, entities, rename, types, usesEntity, agenda>>
      /\ calls' = <<[msg |-> Head(agenda).msg, next |-> 1]>>
  BY DEF EnterSearch
<1>2. /\ Typed /\ Placed /\ Fresh /\ pc = "services" /\ agenda # <<>> /\ Head(agenda).msg \in Known
      /\ Head(agenda) = agenda[1] /\ agenda[1].call = "search" /\ at.method # 1
      /\ Ordered(agenda, entities \cup DOMAIN rename)
  BY <1>1, HeadIs DEF TInv
<1>3. Known' = Known /\ Tasks' = Tasks /\ Frames' = Frames
  BY <1>1, KnownKept
<1>4. calls' \in Seq(Frames) /\ Len(calls') <= MaxCalls
  <2>1. [msg |-> Head(agenda).msg, next |-> 1] \in Frames
    BY <1>2 DEF Frames
  <2>2. calls' \in Seq(Frames) /\ Len(calls') = 1
    BY <1>1, <2>1
  <2> QED BY <2>2, MaxCallsAssumption
<1>5. Typed'
  BY <1>1, <1>2, <1>3, <1>4 DEF Typed
<1>6. Fresh' /\ Placed'
  BY <1>1, <1>2 DEF Fresh, Placed
<1>7. Ordered(agenda, entities \cup DOMAIN rename)'
  BY <1>1, <1>2 DEF Ordered
<1> QED BY <1>5, <1>6, <1>7 DEF TInv

LEMMA SearchedTyped ==
    ASSUME TInv, Calling("search"), agenda' = Tail(agenda), calls' = <<>>,
           UNCHANGED <<schema, pc, at, entities, rename, types>>, usesEntity' \in BOOLEAN
    PROVE  TInv'
<1>1. /\ Typed /\ Placed /\ Fresh /\ pc = "services" /\ Len(agenda) = 1
  BY HeadIs, HeadPrepared DEF TInv
<1>2. agenda' = <<>>
  BY HeadPrepared
<1>3. Known' = Known /\ Tasks' = Tasks /\ Frames' = Frames
  BY KnownKept
<1>4. agenda' \in Seq(Tasks') /\ calls' \in Seq(Frames') /\ Len(calls') <= MaxCalls
  <2>1. /\ <<>> \in Seq(Tasks') /\ <<>> \in Seq(Frames') /\ Len(<<>>) = 0 /\ 0 <= MaxCalls
    BY MaxCallsAssumption
  <2> QED BY <1>2, <2>1
<1>5. Typed'
  BY <1>1, <1>3, <1>4 DEF Typed
<1>6. Fresh' /\ Placed' /\ Ordered(agenda, entities \cup DOMAIN rename)'
  BY <1>1, <1>2 DEF Fresh, Placed, Ordered
<1> QED BY <1>5, <1>6 DEF TInv

LEMMA FrontIs ==
    ASSUME NEW S, NEW s \in Seq(S), s # <<>>
    PROVE  /\ Front(s) \in Seq(S) /\ Len(Front(s)) = Len(s) - 1 /\ Len(s) \in Nat \ {0}
           /\ \A i \in 1..(Len(s) - 1) : Front(s)[i] = s[i]
<1> DEFINE n == Len(s) - 1
<1>1. n \in Nat /\ n + 1 = Len(s) /\ Len(s) \in Nat \ {0}
  OBVIOUS
<1>2. SubSeq(s, 1, n) = [i \in 1..n |-> s[i]]
  <2> HIDE DEF n
  <2> QED BY <1>1
<1>3. \A i \in 1..n : s[i] \in S
  BY <1>1
<1> QED BY <1>1, <1>2, <1>3 DEF Front

LEMMA SearchTyped == TInv /\ SearchField => TInv'
<1> SUFFICES ASSUME TInv, SearchField PROVE TInv'
  OBVIOUS
<1> DEFINE n == Len(calls)
           top == calls[n]
           f == Fields(top.msg)[top.next]
           returned == [calls EXCEPT ![n].next = @ + 1]
<1>1. /\ Calling("search") /\ calls # <<>> /\ top.next <= Len(Fields(top.msg))
      /\ UNCHANGED <<schema, at, entities, rename, types, files>>
  BY DEF SearchField, Last
<1>2. /\ Typed /\ Placed /\ Fresh /\ pc = "services" /\ agenda # <<>>
      /\ agenda[1].call = "search" /\ Head(agenda).call = "search" /\ at.method # 1
      /\ Ordered(agenda, entities \cup DOMAIN rename)
  BY <1>1, HeadIs DEF TInv
<1>3. Known' = Known /\ Tasks' = Tasks /\ Frames' = Frames
  BY <1>1, KnownKept
<1>4. n \in Nat \ {0} /\ n <= MaxCalls /\ top \in Frames /\ calls \in Seq(Frames)
  BY <1>1, <1>2 DEF Typed
<1>5. returned \in Seq(Frames) /\ Len(returned) = n
  <2>1. [top EXCEPT !.next = @ + 1] \in Frames
    BY <1>4 DEF Frames
  <2> QED BY <1>4, <2>1
<1>6. CASE /\ usesEntity' = TRUE /\ calls' = <<>> /\ agenda' = Tail(agenda) /\ UNCHANGED pc
  BY <1>1, <1>6, SearchedTyped
<1>7. CASE /\ calls' \in Seq(Frames) /\ Len(calls') <= MaxCalls
           /\ pc' \in {"services", "overflow"} /\ UNCHANGED <<usesEntity, agenda>>
  <2>1. Typed'
    BY <1>1, <1>2, <1>3, <1>7 DEF Typed
  <2>2. Fresh' /\ Placed'
    BY <1>1, <1>2, <1>7 DEF Fresh, Placed
  <2>3. Ordered(agenda, entities \cup DOMAIN rename)'
    BY <1>1, <1>2, <1>7 DEF Ordered
  <2> QED BY <2>1, <2>2, <2>3 DEF TInv
<1>8. CASE /\ ~(IsMessage(f) /\ f.msg \in entities) /\ ~LooksInto(f)
           /\ calls' = returned /\ UNCHANGED <<pc, usesEntity, agenda>>
  BY <1>2, <1>4, <1>5, <1>7, <1>8
<1>9. CASE /\ LooksInto(f) /\ n = MaxCalls
           /\ pc' = "overflow" /\ UNCHANGED <<calls, usesEntity, agenda>>
  BY <1>4, <1>7, <1>9
<1>10. CASE /\ LooksInto(f) /\ n # MaxCalls
            /\ calls' = Append(returned, [msg |-> f.msg, next |-> 1])
            /\ UNCHANGED <<pc, usesEntity, agenda>>
  <2>1. f.msg \in Known
    <3>1. top.msg \in Known /\ top.next \in Nat \ {0}
      BY <1>4 DEF Frames
    <3>2. f \in ToSet(Fields(top.msg))
      BY <1>1, <1>2, <3>1, FieldsTyped DEF Typed, ToSet
    <3> QED BY <1>2, <1>10, <3>1, <3>2, FieldsTyped DEF Typed, LooksInto, ToNonEntity
  <2>2. [msg |-> f.msg, next |-> 1] \in Frames
    BY <2>1 DEF Frames
  <2> HIDE DEF returned, f, n
  <2>3. calls' \in Seq(Frames) /\ Len(calls') = n + 1
    BY <1>5, <1>10, <2>2
  <2> QED BY <1>2, <1>4, <1>7, <1>10, <2>3, MaxCallsAssumption
<1> QED BY <1>6, <1>8, <1>9, <1>10 DEF SearchField, Last

LEMMA ReturnTyped == TInv /\ ReturnFalse => TInv'
<1> SUFFICES ASSUME TInv, ReturnFalse PROVE TInv'
  OBVIOUS
<1>1. /\ Calling("search") /\ calls # <<>> /\ calls' = Front(calls)
      /\ agenda' = IF Len(calls) = 1 THEN Tail(agenda) ELSE agenda
      /\ UNCHANGED <<schema, pc, at, entities, rename, types, usesEntity, files>>
  BY DEF ReturnFalse
<1>2. /\ Typed /\ Placed /\ Fresh /\ pc = "services" /\ agenda # <<>>
      /\ agenda[1].call = "search" /\ Head(agenda).call = "search" /\ at.method # 1
      /\ Ordered(agenda, entities \cup DOMAIN rename)
  BY <1>1, HeadIs DEF TInv
<1>3. Known' = Known /\ Tasks' = Tasks /\ Frames' = Frames
  BY <1>1, KnownKept
<1>4. calls' \in Seq(Frames) /\ Len(calls') = Len(calls) - 1 /\ Len(calls) \in Nat /\ Len(calls) <= MaxCalls
  BY <1>1, <1>2, FrontIs DEF Typed
<1>5. CASE Len(calls) = 1
  <2>1. calls' = <<>>
    BY <1>4, <1>5
  <2> QED BY <1>1, <1>2, <1>5, <2>1, SearchedTyped DEF Typed
<1>6. CASE Len(calls) # 1
  <2>1. Typed'
    BY <1>1, <1>2, <1>3, <1>4, <1>6, MaxCallsAssumption DEF Typed
  <2>2. Fresh' /\ Placed'
    BY <1>1, <1>2, <1>6 DEF Fresh, Placed
  <2>3. Ordered(agenda, entities \cup DOMAIN rename)'
    BY <1>1, <1>2, <1>6 DEF Ordered
  <2> QED BY <2>1, <2>2, <2>3 DEF TInv
<1> QED BY <1>5, <1>6

LEMMA EmitServiceTyped == TInv /\ EmitService => TInv'
<1> SUFFICES ASSUME TInv, EmitService PROVE TInv'
  OBVIOUS
<1>1. /\ pc = "services" /\ agenda = <<>> /\ rename' = <<>> /\ types' = <<>> /\ usesEntity' = FALSE
      /\ at' = [at EXCEPT !.service = @ + 1, !.method = 1]
      /\ UNCHANGED <<schema, pc, entities, agenda, calls>>
  BY DEF EmitService
<1>2. Typed /\ calls = <<>>
  BY <1>1 DEF TInv, Placed
<1>3. Known' = Known /\ Tasks' = Tasks /\ Frames' = Frames
  BY <1>1, KnownKept
<1>4. at' \in Positions /\ at'.method = 1
  <2>1. at' \in Positions
    BY <1>1, <1>2, NextPosition DEF Typed
  <2>2. at'.method = 1
    BY <1>1, <1>2 DEF Typed, Positions
  <2> QED BY <2>1, <2>2
<1>5. DOMAIN rename' = {} /\ DOMAIN types' = {}
  BY <1>1
<1>6. Typed'
  BY <1>1, <1>2, <1>3, <1>4, <1>5 DEF Typed
<1>7. Fresh' /\ Placed'
  BY <1>1, <1>2, <1>4 DEF Fresh, Placed
<1>8. Ordered(agenda, entities \cup DOMAIN rename)'
  BY <1>1 DEF Ordered
<1> QED BY <1>6, <1>7, <1>8 DEF TInv

LEMMA StepTyped == TInv /\ IInv /\ [Next]_vars => TInv'
<1> SUFFICES ASSUME TInv, IInv, [Next]_vars PROVE TInv'
  OBVIOUS
<1>0. usesEntity \in BOOLEAN
  BY DEF TInv, Typed
<1>1. CASE EmitEntities
  BY <1>0, <1>1, KeptTyped DEF EmitEntities
<1>2. CASE EmitProject
  BY <1>0, <1>2, KeptTyped DEF EmitProject
<1>3. CASE UNCHANGED vars
  <2>1. Known' = Known /\ Tasks' = Tasks /\ Frames' = Frames
    BY <1>3, KnownKept DEF vars
  <2> QED BY <1>3, <2>1 DEF vars, TInv, Typed, Fresh, Placed, Ordered
<1> QED
  BY <1>1, <1>2, <1>3, ParseTyped, BuildTyped, ResolveTyped, CollectTyped, EnterTyped,
     SearchTyped, ReturnTyped, EmitServiceTyped DEF Next

(* The types of the variables; and collectOutputTypes (main.go:925-958) never *)
(* declares a message that resolve has not named, whatever the files say.     *)
THEOREM TypeCorrect == Spec => []TypeOK
<1>1. Init => TInv /\ IInv
  BY InitTyped, InitApart
<1>2. (TInv /\ IInv) /\ [Next]_vars => (TInv /\ IInv)'
  BY StepTyped, StepKeepsApart
<1>3. TInv /\ IInv => TypeOK
  <2> SUFFICES ASSUME TInv PROVE TypeOK
    OBVIOUS
  <2>1. DOMAIN types \subseteq Range(rename)
    BY DEF TInv, Typed, Range
  <2>2. Calling("collect") => Head(agenda).msg \in entities \cup DOMAIN rename
    BY HeadPrepared
  <2> QED BY <2>1, <2>2 DEF TInv, Typed, TypeOK, Known
<1> QED
  BY <1>1, <1>2, <1>3, PTL DEF Spec

----------------------------------------------------------------------------
(* The types that are emitted: collectOutputTypes computes reachability.   *)

VisitedMethods == {schema.services[at.service].methods[k] : k \in 1..(at.method - 1)}
Rooted(m) == Children(m.input) \cup (IF ReturnsOutput(m) THEN Children(m.output) ELSE {})
Roots == UNION {Rooted(m) : m \in VisitedMethods}
Closed(S, from) == from \subseteq S /\ \A n \in S : Children(n) \subseteq S
Asked(s, call) == {s[i].msg : i \in {j \in 1..Len(s) : s[j].call = call}}
Collected(s) == Asked(s, "collect")

(* Whatever is to be emitted is emitted, or waits in the agenda. *)
Complete(from, done, left) ==
    /\ from \subseteq done \cup Collected(left)
    /\ \A n \in done : Children(n) \subseteq done \cup Collected(left)

(* Whatever is emitted, or waits, is to be emitted. *)
Within(s, S) ==
    \A i \in 1..Len(s) : s[i].call # "search" /\ s[i].msg \notin entities => s[i].msg \in S
Sound(from, done, left) ==
    \A S \in SUBSET Known : Closed(S, from) => done \subseteq S /\ Within(left, S)

EInv ==
    /\ Complete(Roots, Range(types), agenda)
    /\ Sound(Roots, Range(types), agenda)

LEMMA ChildrenAre ==
    ASSUME NEW m, NEW c
    PROVE  c \in Children(m) <=>
              \E f \in ToSet(Fields(m)) : IsMessage(f) /\ f.msg \notin entities /\ f.msg = c
BY DEF Children, ToNonEntity

LEMMA ChildrenKnown ==
    ASSUME schema \in Schemas, NEW m \in Known
    PROVE  Children(m) \subseteq Known \ entities
BY ChildrenAre, FieldsTyped

LEMMA WorksChildren ==
    ASSUME NEW w, NEW m, Works(w, Fields(m))
    PROVE  /\ Children(m) \subseteq Collected(w)
           /\ \A i \in 1..Len(w) : w[i].msg \notin entities => w[i].msg \in Children(m)
           /\ w \in Seq(Tasks)
<1>1. Children(m) \subseteq Collected(w)
  BY ChildrenAre DEF Works, Covers, Collected, Asked
<1>2. \A i \in 1..Len(w) : w[i].msg \notin entities => w[i].msg \in Children(m)
  BY ChildrenAre DEF Works, Fits
<1> QED BY <1>1, <1>2 DEF Works

LEMMA AskedBoth ==
    ASSUME NEW w \in Seq(Tasks), NEW r \in Seq(Tasks), NEW call
    PROVE  Asked(w \o r, call) = Asked(w, call) \cup Asked(r, call)
<1> DEFINE s == w \o r
<1>1. /\ s \in Seq(Tasks) /\ Len(s) = Len(w) + Len(r) /\ Len(w) \in Nat /\ Len(r) \in Nat
      /\ \A i \in 1..Len(w) : s[i] = w[i] /\ i \in 1..Len(s)
      /\ \A i \in 1..Len(r) : s[Len(w) + i] = r[i] /\ Len(w) + i \in 1..Len(s)
  OBVIOUS
<1> HIDE DEF s
<1>2. ASSUME NEW x \in Asked(s, call) PROVE x \in Asked(w, call) \cup Asked(r, call)
  <2>1. PICK k \in 1..Len(s) : s[k].call = call /\ s[k].msg = x
    BY DEF Asked
  <2>2. CASE k \in 1..Len(w)
    BY <1>1, <2>1, <2>2 DEF Asked
  <2>3. CASE k \notin 1..Len(w)
    <3>1. PICK i \in 1..Len(r) : k = Len(w) + i
      <4>1. k - Len(w) \in 1..Len(r) /\ k = Len(w) + (k - Len(w))
        BY <1>1, <2>3
      <4> QED BY <4>1
    <3>2. s[k] = r[i]
      BY <1>1, <3>1
    <3> QED BY <2>1, <3>2 DEF Asked
  <2> QED BY <2>2, <2>3
<1>3. \A x \in Asked(w, call) : x \in Asked(s, call)
  BY <1>1 DEF Asked
<1>4. \A x \in Asked(r, call) : x \in Asked(s, call)
  BY <1>1 DEF Asked
<1>5. Asked(s, call) = Asked(w, call) \cup Asked(r, call)
  BY <1>2, <1>3, <1>4
<1> QED BY <1>5 DEF s

LEMMA WithinBoth ==
    ASSUME NEW w \in Seq(Tasks), NEW r \in Seq(Tasks), NEW S, Within(w, S), Within(r, S)
    PROVE  Within(w \o r, S)
<1> DEFINE s == w \o r
<1>1. /\ s \in Seq(Tasks) /\ Len(s) = Len(w) + Len(r) /\ Len(w) \in Nat /\ Len(r) \in Nat
      /\ \A i \in 1..Len(w) : s[i] = w[i]
      /\ \A i \in 1..Len(r) : s[Len(w) + i] = r[i]
  OBVIOUS
<1> HIDE DEF s
<1>2. ASSUME NEW k \in 1..Len(s), s[k].call # "search", s[k].msg \notin entities
      PROVE  s[k].msg \in S
  <2>1. CASE k \in 1..Len(w)
    BY <1>1, <1>2, <2>1 DEF Within
  <2>2. CASE k \notin 1..Len(w)
    <3>1. PICK i \in 1..Len(r) : k = Len(w) + i
      <4>1. k - Len(w) \in 1..Len(r) /\ k = Len(w) + (k - Len(w))
        BY <1>1, <2>2
      <4> QED BY <4>1
    <3>2. s[k] = r[i]
      BY <1>1, <3>1
    <3> QED BY <1>2, <3>2 DEF Within
  <2> QED BY <2>1, <2>2
<1>3. Within(s, S)
  BY <1>2 DEF Within
<1> QED BY <1>3 DEF s

LEMMA CollectedBoth ==
    ASSUME NEW w \in Seq(Tasks), NEW r \in Seq(Tasks), NEW S
    PROVE  /\ Collected(w \o r) = Collected(w) \cup Collected(r)
           /\ Within(w, S) /\ Within(r, S) => Within(w \o r, S)
BY AskedBoth, WithinBoth DEF Collected

LEMMA AskedTail ==
    ASSUME NEW s \in Seq(Tasks), s # <<>>, NEW call
    PROVE  /\ Asked(s, call) \subseteq Asked(Tail(s), call) \cup {s[1].msg}
           /\ s[1].call # call => Asked(s, call) = Asked(Tail(s), call)
           /\ Asked(Tail(s), call) \subseteq Asked(s, call)
<1> DEFINE r == Tail(s)
<1>1. /\ r \in Seq(Tasks) /\ Len(s) \in Nat \ {0} /\ Len(r) = Len(s) - 1
      /\ \A i \in 1..Len(r) : r[i] = s[i + 1] /\ i + 1 \in 1..Len(s)
  OBVIOUS
<1> HIDE DEF r
<1>2. ASSUME NEW k \in 1..Len(s), k # 1
      PROVE  k - 1 \in 1..Len(r) /\ r[k - 1] = s[k]
  <2>1. k - 1 \in 1..Len(r) /\ (k - 1) + 1 = k
    BY <1>1, <1>2
  <2> QED BY <1>1, <2>1
<1>3. Asked(r, call) \subseteq Asked(s, call)
  BY <1>1 DEF Asked
<1>4. ASSUME NEW x \in Asked(s, call)
      PROVE  x \in Asked(r, call) \/ (x = s[1].msg /\ s[1].call = call)
  <2>1. PICK k \in 1..Len(s) : s[k].call = call /\ s[k].msg = x
    BY DEF Asked
  <2>2. k # 1 => k - 1 \in 1..Len(r) /\ r[k - 1] = s[k]
    BY <1>2
  <2> QED BY <2>1, <2>2 DEF Asked
<1> QED BY <1>3, <1>4 DEF r

LEMMA CollectedTail ==
    ASSUME NEW s \in Seq(Tasks), s # <<>>, NEW S
    PROVE  /\ Collected(s) \subseteq Collected(Tail(s)) \cup {s[1].msg}
           /\ s[1].call # "collect" => Collected(s) = Collected(Tail(s))
           /\ Collected(Tail(s)) \subseteq Collected(s)
           /\ Within(s, S) => Within(Tail(s), S)
           /\ Within(s, S) /\ s[1].call # "search" /\ s[1].msg \notin entities => s[1].msg \in S
<1> DEFINE r == Tail(s)
<1>1. /\ Len(s) \in Nat \ {0} /\ Len(r) = Len(s) - 1
      /\ \A i \in 1..Len(r) : r[i] = s[i + 1] /\ i + 1 \in 1..Len(s)
      /\ 1 \in 1..Len(s)
  OBVIOUS
<1> HIDE DEF r
<1>2. Within(s, S) => Within(r, S)
  BY <1>1 DEF Within
<1>3. Within(s, S) /\ s[1].call # "search" /\ s[1].msg \notin entities => s[1].msg \in S
  BY <1>1 DEF Within
<1> QED BY <1>2, <1>3, AskedTail DEF r, Collected

(* Where the schema and the entities stay, so does what is to be emitted.   *)
LEMMA ShapesKept ==
    ASSUME schema' = schema, entities' = entities
    PROVE  /\ Known' = Known
           /\ \A m : Fields(m)' = Fields(m) /\ Children(m)' = Children(m)
           /\ \A m : ReturnsOutput(m)' = ReturnsOutput(m)
           /\ \A m : Rooted(m)' = Rooted(m)
<1>1. \A m : Fields(m)' = Fields(m)
  BY DEF Fields
<1>2. \A f : ToNonEntity(f)' = ToNonEntity(f)
  BY DEF ToNonEntity
<1>3. \A m : Children(m)' = Children(m)
  BY <1>1, <1>2 DEF Children
<1>4. \A m : ReturnsOutput(m)' = ReturnsOutput(m)
  BY <1>1 DEF ReturnsOutput, ReturnsDTO
<1>5. \A m : Rooted(m)' = Rooted(m)
  BY <1>3, <1>4 DEF Rooted
<1> QED BY <1>1, <1>3, <1>4, <1>5 DEF Known

LEMMA EmitsKept ==
    ASSUME schema' = schema, entities' = entities
    PROVE  /\ \A from, done, left : Complete(from, done, left)' <=> Complete(from, done, left)
           /\ \A from, done, left : Sound(from, done, left)' <=> Sound(from, done, left)
<1>1. Known' = Known /\ \A m : Children(m)' = Children(m)
  BY ShapesKept
<1>2. \A from, done, left : Complete(from, done, left)' <=> Complete(from, done, left)
  BY <1>1 DEF Complete, Collected, Asked
<1>3. \A S, from : Closed(S, from)' <=> Closed(S, from)
  BY <1>1 DEF Closed
<1>4. \A s, S : Within(s, S)' <=> Within(s, S)
  BY DEF Within
<1>5. \A from, done, left : Sound(from, done, left)' <=> Sound(from, done, left)
  BY <1>1, <1>3, <1>4 DEF Sound
<1> QED BY <1>2, <1>5

LEMMA RootsKept ==
    ASSUME UNCHANGED <<schema, entities>>, at'.service = at.service, at'.method = at.method
    PROVE  Roots' = Roots
<1>1. VisitedMethods' = VisitedMethods
  BY DEF VisitedMethods
<1>2. \A m : Rooted(m)' = Rooted(m)
  BY ShapesKept
<1> QED BY <1>1, <1>2 DEF Roots

LEMMA RootsAre == \A x \in Roots : x \notin entities
BY ChildrenAre DEF Roots, Rooted

(* Entities, and what is emitted, need not be collected. *)
LEMMA EmitsOn ==
    ASSUME NEW from, NEW done, NEW left, NEW rest,
           \A x \in from : x \notin entities,
           Complete(from, done, left), Sound(from, done, left),
           Collected(left) \ entities \subseteq done \cup Collected(rest),
           \A S : Within(left, S) => Within(rest, S)
    PROVE  Complete(from, done, rest) /\ Sound(from, done, rest)
<1>1. \A n, c : c \in Children(n) => c \notin entities
  BY ChildrenAre
<1>2. Complete(from, done, rest)
  BY <1>1 DEF Complete
<1>3. Sound(from, done, rest)
  BY DEF Sound
<1> QED BY <1>2, <1>3

LEMMA KeptEmits ==
    ASSUME EInv, UNCHANGED <<schema, entities, types>>,
           at'.service = at.service, at'.method = at.method,
           Collected(agenda) \ entities \subseteq Range(types) \cup Collected(agenda'),
           \A S : Within(agenda, S) => Within(agenda', S)
    PROVE  EInv'
<1>1. /\ Complete(Roots, Range(types), agenda')
      /\ Sound(Roots, Range(types), agenda')
  BY RootsAre, EmitsOn DEF EInv
<1>2. Roots' = Roots /\ Range(types)' = Range(types)
  BY RootsKept DEF Range
<1>3. Complete(Roots, Range(types), agenda)'
  BY <1>1, <1>2, EmitsKept
<1>4. Sound(Roots, Range(types), agenda)'
  BY <1>1, <1>2, EmitsKept
<1> QED BY <1>3, <1>4 DEF EInv

LEMMA NoEmits ==
    /\ Complete({}, {}, <<>>) /\ Sound({}, {}, <<>>)
    /\ Complete({}, {}, <<>>)' /\ Sound({}, {}, <<>>)'
BY DEF Complete, Sound, Within

LEMMA InitEmits == Init => EInv
<1> SUFFICES ASSUME Init PROVE EInv
  OBVIOUS
<1>1. Roots = {} /\ Range(types) = {} /\ agenda = <<>>
  BY DEF Init, Roots, VisitedMethods, Range
<1> QED BY <1>1, NoEmits DEF EInv

LEMMA ParseEmits == TInv /\ ParseEntity => EInv'
<1> SUFFICES ASSUME TInv, ParseEntity PROVE EInv'
  OBVIOUS
<1>1. at.method = 1 /\ types' = <<>> /\ agenda' = <<>> /\ at \in Positions
  BY DEF TInv, Typed, Fresh, ParseEntity
<1>2. at'.method = 1
  BY <1>1 DEF ParseEntity, Positions
<1>3. (Roots = {} /\ Range(types) = {} /\ agenda = <<>>)'
  BY <1>1, <1>2 DEF Roots, VisitedMethods, Range
<1> QED BY <1>3, NoEmits DEF EInv

LEMMA ServiceEmits == TInv /\ EmitService => EInv'
<1> SUFFICES ASSUME TInv, EmitService PROVE EInv'
  OBVIOUS
<1>1. /\ types' = <<>> /\ agenda' = <<>> /\ at \in Positions
      /\ at' = [at EXCEPT !.service = @ + 1, !.method = 1]
  BY DEF TInv, Typed, EmitService
<1>2. at'.method = 1
  BY <1>1 DEF Positions
<1>3. (Roots = {} /\ Range(types) = {} /\ agenda = <<>>)'
  BY <1>1, <1>2 DEF Roots, VisitedMethods, Range
<1> QED BY <1>3, NoEmits DEF EInv

(* The agenda of a method collects what its messages hold, and no more.    *)
LEMMA MethodEmits ==
    ASSUME schema \in Schemas, NEW m, m.input \in Known, m.output \in Known
    PROVE  /\ Rooted(m) \subseteq Collected(MethodAgenda(m))
           /\ \A S : Rooted(m) \subseteq S => Within(MethodAgenda(m), S)
<1>1. PICK w, v :
          /\ MethodAgenda(m) = w \o v
          /\ Works(w, Fields(m.input))
          /\ ~ReturnsOutput(m) => v = <<>>
          /\ ReturnsOutput(m) => \E u : Works(u, Fields(m.output)) /\ v = u \o <<Search(m.output)>>
  BY MethodWorks
<1>2. /\ Children(m.input) \subseteq Collected(w) /\ w \in Seq(Tasks)
      /\ \A S : Children(m.input) \subseteq S => Within(w, S)
  BY <1>1, WorksChildren DEF Within
<1>3. CASE ~ReturnsOutput(m)
  <2>1. v \in Seq(Tasks) /\ \A S : Within(v, S)
    BY <1>1, <1>3 DEF Within
  <2>2. Rooted(m) = Children(m.input)
    BY <1>3 DEF Rooted
  <2> QED BY <1>1, <1>2, <2>1, <2>2, CollectedBoth
<1>4. CASE ReturnsOutput(m)
  <2>1. PICK u : Works(u, Fields(m.output)) /\ v = u \o <<Search(m.output)>>
    BY <1>1, <1>4
  <2>2. /\ Children(m.output) \subseteq Collected(u) /\ u \in Seq(Tasks)
        /\ \A S : Children(m.output) \subseteq S => Within(u, S)
    BY <2>1, WorksChildren DEF Within
  <2>3. <<Search(m.output)>> \in Seq(Tasks) /\ \A S : Within(<<Search(m.output)>>, S)
    BY TasksTyped DEF Within
  <2>4. /\ Children(m.output) \subseteq Collected(v) /\ v \in Seq(Tasks)
        /\ \A S : Children(m.output) \subseteq S => Within(v, S)
    <3> DEFINE z == <<Search(m.output)>>
    <3> HIDE DEF z
    <3>1. v = u \o z /\ u \in Seq(Tasks) /\ z \in Seq(Tasks) /\ \A S : Within(z, S)
      BY <2>1, <2>2, <2>3 DEF z
    <3>2. Collected(v) = Collected(u) \cup Collected(z) /\ v \in Seq(Tasks)
      BY <3>1, CollectedBoth
    <3>3. \A S : Within(u, S) => Within(v, S)
      BY <3>1, CollectedBoth
    <3> QED BY <2>2, <3>2, <3>3
  <2>5. Rooted(m) = Children(m.input) \cup Children(m.output)
    BY <1>4 DEF Rooted
  <2> QED BY <1>1, <1>2, <2>4, <2>5, CollectedBoth
<1> QED BY <1>3, <1>4

LEMMA VisitsOne ==
    ASSUME TInv, BuildMethod
    PROVE  /\ Method.input \in Known /\ Method.output \in Known
           /\ VisitedMethods' = VisitedMethods \cup {Method}
           /\ UNCHANGED <<schema, entities>>
           /\ schema \in Schemas
<1>1. /\ schema \in Schemas /\ at.service \in Nat \ {0} /\ at.method \in Nat \ {0}
      /\ at.service <= Len(schema.services)
      /\ at.method <= Len(schema.services[at.service].methods)
      /\ UNCHANGED <<schema, entities>>
  BY DEF TInv, Typed, Positions, BuildMethod
<1>2. at.service \in DOMAIN schema.services
  BY <1>1, MethodsTyped
<1>3. at.method \in DOMAIN schema.services[at.service].methods
  BY <1>1, <1>2, MethodsTyped
<1>4. Method.input \in Known /\ Method.output \in Known
  BY <1>1, <1>2, <1>3, MethodsTyped DEF Method
<1>5. at'.service = at.service /\ at'.method = at.method + 1
  BY DEF TInv, Typed, Positions, BuildMethod
<1>6. 1..(at'.method - 1) = 1..(at.method - 1) \cup {at.method}
  BY <1>1, <1>5
<1>7. VisitedMethods' = VisitedMethods \cup {Method}
  BY <1>1, <1>5, <1>6 DEF VisitedMethods, Method
<1> QED BY <1>1, <1>4, <1>7

LEMMA BuildEmits == TInv /\ EInv /\ BuildMethod => EInv'
<1> SUFFICES ASSUME TInv, EInv, BuildMethod PROVE EInv'
  OBVIOUS
<1>1. /\ agenda = <<>> /\ agenda' = MethodAgenda(Method) /\ types' = types
  BY DEF BuildMethod
<1>2. /\ Rooted(Method) \subseteq Collected(agenda')
      /\ \A S : Rooted(Method) \subseteq S => Within(agenda', S)
  BY <1>1, VisitsOne, MethodEmits
<1>3. Roots' = Roots \cup Rooted(Method)
  <2>1. \A m : Rooted(m)' = Rooted(m)
    BY VisitsOne, ShapesKept
  <2> QED BY <2>1, VisitsOne DEF Roots
<1>4. Collected(<<>>) = {}
  BY DEF Collected, Asked
<1>5. Complete(Roots', Range(types), agenda')
  BY <1>1, <1>2, <1>3, <1>4 DEF EInv, Complete
<1>6. Sound(Roots', Range(types), agenda')
  BY <1>1, <1>2, <1>3 DEF EInv, Sound, Closed
<1>7. Range(types)' = Range(types)
  BY <1>1 DEF Range
<1>8. Complete(Roots, Range(types), agenda)'
  BY <1>5, <1>7, VisitsOne, EmitsKept
<1>9. Sound(Roots, Range(types), agenda)'
  BY <1>6, <1>7, VisitsOne, EmitsKept
<1> QED BY <1>8, <1>9 DEF EInv

LEMMA ResolveEmits == TInv /\ EInv /\ ResolveName => EInv'
<1> SUFFICES ASSUME TInv, EInv, ResolveName PROVE EInv'
  OBVIOUS
<1> DEFINE t == Head(agenda)
           u == [t EXCEPT !.name.bars = @ + 1]
<1>1. Calling("resolve") /\ UNCHANGED <<schema, at, entities, types>>
  BY DEF ResolveName
<1>2. /\ agenda # <<>> /\ agenda \in Seq(Tasks) /\ t = agenda[1] /\ t \in Tasks
      /\ t.call = "resolve"
  BY <1>1, HeadIs
<1>3. CASE agenda' = Tail(agenda)
  BY <1>1, <1>2, <1>3, CollectedTail, KeptEmits
<1>4. CASE agenda' = <<u>> \o Tail(agenda)
  <2>1. u \in Tasks /\ u.call = "resolve" /\ u.msg = t.msg
    BY <1>2, RetryTyped
  <2> HIDE DEF u
  <2>2. /\ Tail(agenda) \in Seq(Tasks) /\ <<u>> \in Seq(Tasks)
        /\ Len(<<u>>) = 1 /\ <<u>>[1] = u
    BY <1>2, <2>1
  <2>3. Collected(agenda) \subseteq Collected(agenda')
    <3> DEFINE z == <<u>>
               r == Tail(agenda)
    <3>1. z \in Seq(Tasks) /\ r \in Seq(Tasks) /\ agenda' = z \o r
      BY <1>4, <2>2 DEF u
    <3>2. Collected(agenda) = Collected(r)
      BY <1>2, CollectedTail
    <3> HIDE DEF z, r
    <3>3. Collected(agenda') = Collected(z) \cup Collected(r)
      BY <3>1, CollectedBoth
    <3> QED BY <3>2, <3>3
  <2>4. ASSUME NEW S, Within(agenda, S) PROVE Within(agenda', S)
    <3>1. Within(Tail(agenda), S) /\ (t.msg \notin entities => t.msg \in S)
      BY <1>2, <2>4, CollectedTail
    <3>2. Within(<<u>>, S)
      BY <2>1, <2>2, <3>1 DEF Within
    <3> QED BY <1>4, <2>2, <3>1, <3>2, CollectedBoth
  <2> QED BY <1>1, <2>3, <2>4, KeptEmits
<1> QED BY <1>3, <1>4 DEF ResolveName

LEMMA CollectEmits == TInv /\ IInv /\ EInv /\ CollectTypes => EInv'
<1> SUFFICES ASSUME TInv, IInv, EInv, CollectTypes PROVE EInv'
  OBVIOUS
<1> DEFINE m == Head(agenda).msg
           w == ResolveAll(Fields(m)) \o CollectAll(Fields(m))
<1>1. Calling("collect") /\ UNCHANGED <<schema, at, entities, rename>>
  BY DEF CollectTypes
<1>2. /\ Typed /\ agenda # <<>> /\ agenda \in Seq(Tasks) /\ Head(agenda) = agenda[1]
      /\ agenda[1].call = "collect" /\ m \in Known /\ m \in entities \cup DOMAIN rename
  BY <1>1, HeadIs, HeadPrepared
<1>3. CASE /\ m \in entities \/ rename[m] \in DOMAIN types
           /\ agenda' = Tail(agenda) /\ types' = types
  <2>1. m \in entities \/ m \in Range(types)
    <3> SUFFICES ASSUME m \notin entities PROVE m \in Range(types)
      OBVIOUS
    <3>1. m \in DOMAIN rename /\ rename[m] \in DOMAIN types
      BY <1>2, <1>3
    <3>2. types[rename[m]] \in DOMAIN rename /\ rename[types[rename[m]]] = rename[m]
      BY <1>2, <3>1 DEF Typed
    <3>3. types[rename[m]] = m
      BY <3>1, <3>2 DEF IInv, NamesApart
    <3> QED BY <3>1, <3>3 DEF Range
  <2>2. Collected(agenda) \ entities \subseteq Range(types) \cup Collected(agenda')
    <3>1. Collected(agenda) \subseteq Collected(Tail(agenda)) \cup {m}
      BY <1>2, CollectedTail
    <3> QED BY <1>3, <2>1, <3>1
  <2>3. \A S : Within(agenda, S) => Within(agenda', S)
    BY <1>2, <1>3, CollectedTail
  <2> QED BY <1>1, <1>3, <2>2, <2>3, KeptEmits
<1>4. CASE /\ m \notin entities /\ rename[m] \notin DOMAIN types
           /\ types' = With(types, rename[m], m)
           /\ agenda' = w \o Tail(agenda)
  <2> HIDE DEF m
  <2>1. Works(w, Fields(m))
    BY <1>2, FieldSeqs, ResponseWorks DEF Typed
  <2> HIDE DEF w
  <2>2. /\ Children(m) \subseteq Collected(w) /\ w \in Seq(Tasks)
        /\ \A S : Children(m) \subseteq S => Within(w, S)
    BY <2>1, WorksChildren DEF Within
  <2>3. /\ Tail(agenda) \in Seq(Tasks)
        /\ Collected(agenda) \subseteq Collected(Tail(agenda)) \cup {m}
        /\ \A S : Within(agenda, S) => Within(Tail(agenda), S) /\ m \in S
    <3>1. agenda[1].msg = m
      BY <1>2 DEF m
    <3> QED BY <1>2, <1>4, <3>1, CollectedTail
  <2>4. Range(types') = Range(types) \cup {m}
    <3>1. DOMAIN types' = DOMAIN types \cup {rename[m]}
      BY <1>4 DEF With
    <3>2. \A x \in DOMAIN types' : types'[x] = IF x = rename[m] THEN m ELSE types[x]
      BY <1>4, <3>1 DEF With
    <3> QED BY <1>4, <3>1, <3>2 DEF Range
  <2>5. /\ Collected(agenda') = Collected(w) \cup Collected(Tail(agenda))
        /\ \A S : Within(w, S) /\ Within(Tail(agenda), S) => Within(agenda', S)
    BY <1>4, <2>2, <2>3, CollectedBoth
  <2>6. Complete(Roots, Range(types'), agenda')
    BY <2>2, <2>3, <2>4, <2>5 DEF EInv, Complete
  <2>7. Sound(Roots, Range(types'), agenda')
    <3> SUFFICES ASSUME NEW S \in SUBSET Known, Closed(S, Roots)
                 PROVE  Range(types') \subseteq S /\ Within(agenda', S)
      BY DEF Sound
    <3>1. Range(types) \subseteq S /\ Within(agenda, S)
      BY DEF EInv, Sound
    <3>2. m \in S /\ Within(Tail(agenda), S)
      BY <2>3, <3>1
    <3>3. Children(m) \subseteq S
      BY <3>2 DEF Closed
    <3> QED BY <2>2, <2>4, <2>5, <3>1, <3>2, <3>3
  <2>8. Roots' = Roots /\ Range(types)' = Range(types')
    BY <1>1, RootsKept DEF Range
  <2>9. Complete(Roots, Range(types), agenda)' /\ Sound(Roots, Range(types), agenda)'
    <3>1. Complete(Roots, Range(types), agenda)'
      BY <1>1, <2>6, <2>8, EmitsKept
    <3>2. Sound(Roots, Range(types), agenda)'
      BY <1>1, <2>7, <2>8, EmitsKept
    <3> QED BY <3>1, <3>2
  <2> QED BY <2>9 DEF EInv
<1> QED BY <1>3, <1>4 DEF CollectTypes

LEMMA StepEmits == TInv /\ IInv /\ EInv /\ [Next]_vars => EInv'
<1> SUFFICES ASSUME TInv, IInv, EInv, [Next]_vars PROVE EInv'
  OBVIOUS
<1>1. CASE UNCHANGED <<schema, entities, types, at, agenda>>
  BY <1>1, KeptEmits
<1>2. CASE UNCHANGED <<schema, entities, types, at>> /\ Calling("search") /\ agenda' = Tail(agenda)
  <2>1. /\ agenda # <<>> /\ agenda \in Seq(Tasks) /\ agenda[1].call = "search"
    BY <1>2, HeadIs
  <2>2. Collected(agenda) = Collected(agenda') /\ \A S : Within(agenda, S) => Within(agenda', S)
    BY <1>2, <2>1, CollectedTail
  <2> QED BY <1>2, <2>2, KeptEmits
<1>3. CASE EmitEntities \/ EnterSearch \/ EmitProject \/ UNCHANGED vars
  BY <1>1, <1>3 DEF EmitEntities, EnterSearch, EmitProject, vars
<1>4. CASE SearchField
  BY <1>1, <1>2, <1>4 DEF SearchField
<1>5. CASE ReturnFalse
  BY <1>1, <1>2, <1>5 DEF ReturnFalse
<1> QED
  BY <1>3, <1>4, <1>5, ParseEmits, BuildEmits, ResolveEmits, CollectEmits, ServiceEmits DEF Next

LEMMA AllVisited ==
    ASSUME TInv, Built
    PROVE  VisitedMethods = Methods /\ schema \in Schemas
           /\ \A m \in Methods : m.input \in Known /\ m.output \in Known
<1>1. /\ schema \in Schemas /\ at.service \in Nat \ {0} /\ at.method \in Nat \ {0}
      /\ at.service <= Len(schema.services)
      /\ at.method > Len(schema.services[at.service].methods)
  BY DEF TInv, Typed, Positions, Built
<1>2. at.service \in DOMAIN schema.services
  BY <1>1, MethodsTyped
<1> DEFINE ms == schema.services[at.service].methods
<1>3. ms \in Seq(ToSet(ms)) /\ \A k \in DOMAIN ms : ms[k].input \in Known /\ ms[k].output \in Known
  BY <1>1, <1>2, MethodsTyped
<1>4. \A k \in 1..(at.method - 1) : k \in DOMAIN ms
  BY DEF TInv, Placed
<1> HIDE DEF ms
<1>5. DOMAIN ms = 1..Len(ms) /\ Len(ms) \in Nat /\ at.method > Len(ms)
  BY <1>1, <1>3 DEF ms
<1>6. DOMAIN ms = 1..(at.method - 1)
  BY <1>1, <1>4, <1>5
<1>7. VisitedMethods = {ms[k] : k \in DOMAIN ms} /\ Methods = {ms[k] : k \in DOMAIN ms}
  BY <1>6 DEF VisitedMethods, Methods, ToSet, ms
<1> QED BY <1>1, <1>3, <1>7

LEMMA BuiltEmits ==
    ASSUME TInv, EInv, Built
    PROVE  /\ Range(types) \in SUBSET Known
           /\ Closed(Range(types), Roots)
           /\ \A S \in SUBSET Known : Closed(S, Roots) => Range(types) \subseteq S
<1>1. agenda = <<>> /\ Collected(<<>>) = {}
  BY DEF Built, Collected, Asked
<1>2. Range(types) \in SUBSET Known
  BY DEF TInv, Typed, Range
<1>3. Closed(Range(types), Roots)
  BY <1>1 DEF EInv, Complete, Closed
<1>4. \A S \in SUBSET Known : Closed(S, Roots) => Range(types) \subseteq S
  BY DEF EInv, Sound
<1> QED BY <1>2, <1>3, <1>4

(* collectOutputTypes (main.go:925-958), called method by method over messages *)
(* that may contain each other and themselves, emits the messages the requests *)
(* and Output responses of the service reach: none is missing, none is spare.  *)
THEOREM EmitsWhatIsReached == Spec => []EmitsReachable
<1>1. Init => TInv /\ IInv /\ EInv
  BY InitTyped, InitApart, InitEmits
<1>2. (TInv /\ IInv /\ EInv) /\ [Next]_vars => (TInv /\ IInv /\ EInv)'
  BY StepTyped, StepKeepsApart, StepEmits
<1>3. TInv /\ IInv /\ EInv => EmitsReachable
  <2> SUFFICES ASSUME TInv, EInv, Built
               PROVE  Range(types) =
                        Reach(Children, UNION ({Children(m.input) : m \in Methods}
                               \cup {Children(m.output) : m \in {n \in Methods : ReturnsOutput(n)}}))
    BY DEF EmitsReachable
  <2>1. Roots = UNION ({Children(m.input) : m \in Methods}
                       \cup {Children(m.output) : m \in {n \in Methods : ReturnsOutput(n)}})
    BY AllVisited DEF Roots, Rooted
  <2>2. /\ Range(types) \in SUBSET Known
        /\ Closed(Range(types), Roots)
        /\ \A S \in SUBSET Known : Closed(S, Roots) => Range(types) \subseteq S
    BY BuiltEmits
  <2>3. Range(types) = Reach(Children, Roots)
    <3>1. \A x \in Range(types) : x \in Reach(Children, Roots)
      BY <2>2 DEF Reach, Closed, Known
    <3>2. \A x \in Reach(Children, Roots) : x \in Range(types)
      BY <2>2 DEF Reach, Closed, Known
    <3> QED BY <3>1, <3>2
  <2> QED BY <2>1, <2>3
<1> QED
  BY <1>1, <1>2, <1>3, PTL DEF Spec

----------------------------------------------------------------------------
(* outputUsesEntity: a search without a visited set computes reachability. *)

(* No entity is reached from m, but for those in maps. *)
Clean(m) ==
    \E S \in SUBSET Known :
        m \in S /\ \A n \in S : PlainChildren(n) \subseteq S /\ ~HasEntity(Fields(n))

(* What AnyUsesEntity should say of a method. *)
WithEntity(m) == HasEntity(Fields(m.input)) \/ (ReturnsOutput(m) /\ ~Clean(m.output))

(* The search has left a field behind: it leads to no entity. *)
Passed(f) == ~(IsMessage(f) /\ f.msg \in entities) /\ (LooksInto(f) => Clean(f.msg))

(* The open calls lead from the response to where the search is.           *)
Opened(cs, i) == Fields(cs[i].msg)[cs[i].next - 1]
Stack(cs) ==
    /\ \A i \in 1..Len(cs) :
          /\ ~Clean(cs[i].msg) => ~Clean(cs[1].msg)
          /\ \A j \in 1..(cs[i].next - 1) :
                j \in DOMAIN Fields(cs[i].msg)
                /\ (i = Len(cs) \/ j # cs[i].next - 1 => Passed(Fields(cs[i].msg)[j]))
    /\ \A i \in 1..(Len(cs) - 1) :
          cs[i].next # 1 /\ LooksInto(Opened(cs, i)) /\ Opened(cs, i).msg = cs[i + 1].msg

SInv ==
    /\ usesEntity => \E m \in VisitedMethods : WithEntity(m)
    /\ ~usesEntity => \A m \in VisitedMethods : WithEntity(m) =>
          /\ ~HasEntity(Fields(m.input))
          /\ m.output \in Asked(agenda, "search")
    /\ \A x \in Asked(agenda, "search") :
          \E m \in VisitedMethods : ReturnsOutput(m) /\ m.output = x
    /\ Stack(calls)
    /\ calls # <<>> => calls[1].msg = agenda[1].msg

LEMMA PlainChildrenAre ==
    ASSUME NEW m, NEW c
    PROVE  c \in PlainChildren(m) <=> \E f \in ToSet(Fields(m)) : LooksInto(f) /\ f.msg = c
BY DEF PlainChildren, LooksInto

LEMMA PlainChildrenKnown ==
    ASSUME schema \in Schemas, NEW m \in Known
    PROVE  PlainChildren(m) \subseteq Known
BY PlainChildrenAre, FieldsTyped DEF LooksInto, ToNonEntity

LEMMA CleanDown ==
    ASSUME NEW m, Clean(m)
    PROVE  m \in Known /\ ~HasEntity(Fields(m)) /\ \A c \in PlainChildren(m) : Clean(c)
<1>1. PICK S \in SUBSET Known :
          m \in S /\ \A n \in S : PlainChildren(n) \subseteq S /\ ~HasEntity(Fields(n))
  BY DEF Clean
<1>2. \A c \in PlainChildren(m) : Clean(c)
  BY <1>1 DEF Clean
<1> QED BY <1>1, <1>2

LEMMA CleanUp ==
    ASSUME NEW m \in Known, ~HasEntity(Fields(m)), \A c \in PlainChildren(m) : Clean(c)
    PROVE  Clean(m)
<1> DEFINE S == {n \in Known : Clean(n)} \cup {m}
<1>1. S \in SUBSET Known /\ m \in S
  OBVIOUS
<1>2. ASSUME NEW n \in S PROVE PlainChildren(n) \subseteq S /\ ~HasEntity(Fields(n))
  <2>1. CASE n = m
    <3>1. \A c \in PlainChildren(m) : c \in Known
      BY CleanDown
    <3> QED BY <2>1, <3>1
  <2>2. CASE Clean(n)
    <3>1. ~HasEntity(Fields(n)) /\ \A c \in PlainChildren(n) : Clean(c)
      BY <2>2, CleanDown
    <3>2. \A c \in PlainChildren(n) : c \in Known
      BY <3>1, CleanDown
    <3> QED BY <3>1, <3>2
  <2> QED BY <2>1, <2>2
<1> HIDE DEF S
<1> QED BY <1>1, <1>2 DEF Clean

LEMMA CleanIsReach ==
    ASSUME schema \in Schemas, NEW m \in Known
    PROVE  ~Clean(m) <=> \E n \in Reach(PlainChildren, {m}) : HasEntity(Fields(n))
<1> DEFINE R == Reach(PlainChildren, {m})
<1>1. R = {x \in Known : \A S \in SUBSET Known :
                {m} \subseteq S /\ (\A n \in S : PlainChildren(n) \subseteq S) => x \in S}
  BY DEF Reach, Known
<1> HIDE DEF R
<1>2. m \in R /\ R \in SUBSET Known
  BY <1>1
<1>3. ASSUME NEW n \in R PROVE PlainChildren(n) \subseteq R
  <2> SUFFICES ASSUME NEW c \in PlainChildren(n) PROVE c \in R
    OBVIOUS
  <2>1. c \in Known
    BY <1>2, PlainChildrenKnown
  <2>2. ASSUME NEW S \in SUBSET Known,
               {m} \subseteq S /\ \A k \in S : PlainChildren(k) \subseteq S
        PROVE  c \in S
    <3>1. n \in S
      BY <1>1, <2>2
    <3> QED BY <2>2, <3>1
  <2> QED BY <1>1, <2>1, <2>2
<1>4. ASSUME Clean(m) PROVE \A n \in R : ~HasEntity(Fields(n))
  <2>1. PICK S \in SUBSET Known :
            m \in S /\ \A n \in S : PlainChildren(n) \subseteq S /\ ~HasEntity(Fields(n))
    BY <1>4 DEF Clean
  <2>2. \A n \in R : n \in S
    BY <1>1, <2>1
  <2> QED BY <2>1, <2>2
<1>5. ASSUME \A n \in R : ~HasEntity(Fields(n)) PROVE Clean(m)
  BY <1>2, <1>3, <1>5 DEF Clean
<1> QED BY <1>4, <1>5 DEF R

(* Where every field is passed, nothing is found. *)
LEMMA PassedAll ==
    ASSUME NEW m \in Known, \A j \in DOMAIN Fields(m) : Passed(Fields(m)[j])
    PROVE  Clean(m)
<1>1. ~HasEntity(Fields(m))
  BY DEF HasEntity, Passed
<1>2. \A c \in PlainChildren(m) : Clean(c)
  BY PlainChildrenAre DEF ToSet, Passed
<1> QED BY <1>1, <1>2, CleanUp

LEMMA SearchShapesKept ==
    ASSUME schema' = schema, entities' = entities
    PROVE  /\ \A m : Clean(m)' <=> Clean(m)
           /\ \A m : WithEntity(m)' <=> WithEntity(m)
           /\ \A cs : Stack(cs)' <=> Stack(cs)
<1>1. /\ Known' = Known
      /\ \A m : Fields(m)' = Fields(m)
      /\ \A m : ReturnsOutput(m)' = ReturnsOutput(m)
  BY ShapesKept
<1>2. \A fs : HasEntity(fs)' <=> HasEntity(fs)
  BY DEF HasEntity
<1>3. \A f : ToNonEntity(f)' = ToNonEntity(f)
  BY DEF ToNonEntity
<1>4. \A m : PlainChildren(m)' = PlainChildren(m)
  BY <1>1, <1>3 DEF PlainChildren
<1>5. \A m : Clean(m)' <=> Clean(m)
  BY <1>1, <1>2, <1>4 DEF Clean
<1>6. \A m : WithEntity(m)' <=> WithEntity(m)
  BY <1>1, <1>2, <1>5 DEF WithEntity
<1>7. \A f : (LooksInto(f)' <=> LooksInto(f)) /\ (Passed(f)' <=> Passed(f))
  BY <1>3, <1>5 DEF LooksInto, Passed
<1>8. \A cs, i : Opened(cs, i)' = Opened(cs, i)
  BY <1>1 DEF Opened
<1>9. \A cs : Stack(cs)' <=> Stack(cs)
  BY <1>1, <1>5, <1>7, <1>8 DEF Stack
<1> QED BY <1>5, <1>6, <1>9

LEMMA VisitedKept ==
    ASSUME schema' = schema, at'.service = at.service, at'.method = at.method
    PROVE  VisitedMethods' = VisitedMethods
BY DEF VisitedMethods

(* SInv, where the values of the variables are given.                      *)
LEMMA SearchInv ==
    ASSUME schema' = schema, entities' = entities,
           usesEntity' => \E m \in VisitedMethods' : WithEntity(m),
           ~usesEntity' => \A m \in VisitedMethods' : WithEntity(m) =>
              ~HasEntity(Fields(m.input)) /\ m.output \in Asked(agenda', "search"),
           \A x \in Asked(agenda', "search") :
              \E m \in VisitedMethods' : ReturnsOutput(m) /\ m.output = x,
           Stack(calls'),
           calls' # <<>> => calls'[1].msg = agenda'[1].msg
    PROVE  SInv'
<1>1. /\ \A m : WithEntity(m)' <=> WithEntity(m)
      /\ \A cs : Stack(cs)' <=> Stack(cs)
  BY SearchShapesKept
<1>2. \A m : Fields(m)' = Fields(m) /\ ReturnsOutput(m)' = ReturnsOutput(m)
  BY ShapesKept
<1>3. \A fs : HasEntity(fs)' <=> HasEntity(fs)
  BY DEF HasEntity
<1>4. Stack(calls)'
  BY <1>1
<1>5. \A s, c : Asked(s, c)' = Asked(s, c)
  BY DEF Asked
<1>6. (usesEntity => \E m \in VisitedMethods : WithEntity(m))'
  BY <1>1
<1>7. (~usesEntity => \A m \in VisitedMethods : WithEntity(m) =>
          ~HasEntity(Fields(m.input)) /\ m.output \in Asked(agenda, "search"))'
  BY <1>1, <1>2, <1>3, <1>5
<1>8. (\A x \in Asked(agenda, "search") :
          \E m \in VisitedMethods : ReturnsOutput(m) /\ m.output = x)'
  BY <1>2, <1>5
<1> QED BY <1>4, <1>6, <1>7, <1>8 DEF SInv

LEMMA NoSearch == Asked(<<>>, "search") = {} /\ Stack(<<>>)
BY DEF Asked, Stack

LEMMA InitSearch == Init => SInv
<1> SUFFICES ASSUME Init PROVE SInv
  OBVIOUS
<1>1. VisitedMethods = {} /\ usesEntity = FALSE /\ agenda = <<>> /\ calls = <<>>
  BY DEF Init, VisitedMethods
<1> QED BY <1>1, NoSearch DEF SInv

(* Before the first method of a service nothing has been searched. *)
LEMMA NothingSearched ==
    (VisitedMethods = {} /\ usesEntity = FALSE /\ agenda = <<>> /\ calls = <<>> => SInv)'
<1> SUFFICES ASSUME VisitedMethods' = {}, usesEntity' = FALSE, agenda' = <<>>, calls' = <<>>
             PROVE  SInv'
  OBVIOUS
<1>1. Asked(agenda, "search")' = {}
  BY DEF Asked
<1>2. Stack(calls)'
  BY DEF Stack
<1> QED BY <1>1, <1>2 DEF SInv

LEMMA ParseSearch == TInv /\ ParseEntity => SInv'
<1> SUFFICES ASSUME TInv, ParseEntity PROVE SInv'
  OBVIOUS
<1>1. /\ at.method = 1 /\ usesEntity' = FALSE /\ agenda' = <<>> /\ calls' = <<>>
      /\ at \in Positions
  BY DEF TInv, Typed, Fresh, ParseEntity
<1>2. at'.method = 1
  BY <1>1 DEF ParseEntity, Positions
<1>3. VisitedMethods' = {}
  BY <1>2 DEF VisitedMethods
<1> QED BY <1>1, <1>3, NothingSearched

LEMMA ServiceSearch == TInv /\ EmitService => SInv'
<1> SUFFICES ASSUME TInv, EmitService PROVE SInv'
  OBVIOUS
<1>1. /\ usesEntity' = FALSE /\ agenda' = <<>> /\ calls' = <<>> /\ at \in Positions
      /\ at' = [at EXCEPT !.service = @ + 1, !.method = 1]
  BY DEF TInv, Typed, Placed, EmitService
<1>2. at'.method = 1
  BY <1>1 DEF Positions
<1>3. VisitedMethods' = {}
  BY <1>2 DEF VisitedMethods
<1> QED BY <1>1, <1>3, NothingSearched

(* The agenda of a method ends with the search of its response, if it has  *)
(* an Output.                                                              *)
LEMMA MethodSearches ==
    ASSUME schema \in Schemas, NEW m, m.input \in Known, m.output \in Known
    PROVE  Asked(MethodAgenda(m), "search") = IF ReturnsOutput(m) THEN {m.output} ELSE {}
<1>1. PICK w, v :
          /\ MethodAgenda(m) = w \o v
          /\ Works(w, Fields(m.input))
          /\ ~ReturnsOutput(m) => v = <<>>
          /\ ReturnsOutput(m) => \E u : Works(u, Fields(m.output)) /\ v = u \o <<Search(m.output)>>
  BY MethodWorks
<1>2. ASSUME NEW u, NEW fs, Works(u, fs)
      PROVE  u \in Seq(Tasks) /\ Asked(u, "search") = {}
  BY <1>2 DEF Works, Fits, Asked
<1>3. CASE ~ReturnsOutput(m)
  <2>1. v \in Seq(Tasks) /\ Asked(v, "search") = {}
    BY <1>1, <1>3, NoSearch
  <2> QED BY <1>1, <1>2, <1>3, <2>1, AskedBoth
<1>4. CASE ReturnsOutput(m)
  <2>1. PICK u : Works(u, Fields(m.output)) /\ v = u \o <<Search(m.output)>>
    BY <1>1, <1>4
  <2> DEFINE z == <<Search(m.output)>>
  <2>2. z \in Seq(Tasks) /\ Asked(z, "search") = {m.output}
    BY TasksTyped DEF Asked
  <2>3. v = u \o z
    BY <2>1
  <2> HIDE DEF z
  <2>4. v \in Seq(Tasks) /\ Asked(v, "search") = {m.output}
    BY <1>2, <2>1, <2>2, <2>3, AskedBoth
  <2> QED BY <1>1, <1>2, <1>4, <2>4, AskedBoth
<1> QED BY <1>3, <1>4

LEMMA BuildSearch == TInv /\ SInv /\ BuildMethod => SInv'
<1> SUFFICES ASSUME TInv, SInv, BuildMethod PROVE SInv'
  OBVIOUS
<1>1. /\ agenda = <<>> /\ agenda' = MethodAgenda(Method) /\ calls = <<>> /\ calls' = <<>>
      /\ usesEntity' = (usesEntity \/ HasEntity(Fields(Method.input)))
      /\ usesEntity \in BOOLEAN
  BY DEF TInv, Typed, Placed, BuildMethod
<1>2. Asked(agenda', "search") = IF ReturnsOutput(Method) THEN {Method.output} ELSE {}
  BY <1>1, VisitsOne, MethodSearches
<1>3. Asked(agenda, "search") = {}
  BY <1>1, NoSearch
<1>4. VisitedMethods' = VisitedMethods \cup {Method} /\ UNCHANGED <<schema, entities>>
  BY VisitsOne
<1>5. usesEntity' => \E m \in VisitedMethods' : WithEntity(m)
  BY <1>1, <1>4 DEF SInv, WithEntity
<1>6. ASSUME ~usesEntity', NEW m \in VisitedMethods', WithEntity(m)
      PROVE  ~HasEntity(Fields(m.input)) /\ m.output \in Asked(agenda', "search")
  <2>1. ~usesEntity /\ ~HasEntity(Fields(Method.input))
    BY <1>1, <1>6
  <2>2. m \notin VisitedMethods
    BY <1>3, <1>6, <2>1 DEF SInv
  <2>3. m = Method
    BY <1>4, <2>2
  <2> QED BY <1>2, <1>6, <2>1, <2>3 DEF WithEntity
<1>7. \A x \in Asked(agenda', "search") :
          \E m \in VisitedMethods' : ReturnsOutput(m) /\ m.output = x
  BY <1>2, <1>4
<1>8. Stack(calls')
  BY <1>1, NoSearch
<1> QED BY <1>1, <1>4, <1>5, <1>6, <1>7, <1>8, SearchInv

(* A step that neither visits a method nor searches. *)
LEMMA KeptSearch ==
    ASSUME SInv, UNCHANGED <<schema, entities, usesEntity, calls>>,
           at'.service = at.service, at'.method = at.method,
           Asked(agenda', "search") = Asked(agenda, "search"),
           calls # <<>> => agenda'[1] = agenda[1]
    PROVE  SInv'
<1>1. VisitedMethods' = VisitedMethods
  BY VisitedKept
<1> QED BY <1>1, SearchInv DEF SInv

LEMMA ResolveSearch == TInv /\ SInv /\ ResolveName => SInv'
<1> SUFFICES ASSUME TInv, SInv, ResolveName PROVE SInv'
  OBVIOUS
<1> DEFINE t == Head(agenda)
           u == [t EXCEPT !.name.bars = @ + 1]
<1>1. Calling("resolve") /\ UNCHANGED <<schema, at, entities, usesEntity, calls>>
  BY DEF ResolveName
<1>2. /\ agenda # <<>> /\ agenda \in Seq(Tasks) /\ t = agenda[1] /\ t \in Tasks
      /\ t.call = "resolve" /\ calls = <<>>
  BY <1>1, HeadIs DEF Placed
<1>3. Asked(Tail(agenda), "search") = Asked(agenda, "search")
  BY <1>2, AskedTail
<1>4. CASE agenda' = Tail(agenda)
  BY <1>1, <1>2, <1>3, <1>4, KeptSearch
<1>5. CASE agenda' = <<u>> \o Tail(agenda)
  <2>1. u \in Tasks /\ u.call = "resolve"
    BY <1>2, RetryTyped
  <2> DEFINE z == <<u>>
             r == Tail(agenda)
  <2>2. z \in Seq(Tasks) /\ r \in Seq(Tasks) /\ agenda' = z \o r
    BY <1>2, <1>5, <2>1
  <2> HIDE DEF u
  <2>3. Asked(z, "search") = {}
    BY <2>1 DEF Asked
  <2>4. Asked(r, "search") = Asked(agenda, "search")
    BY <1>3
  <2> HIDE DEF z, r
  <2>5. Asked(z \o r, "search") = Asked(z, "search") \cup Asked(r, "search")
    BY <2>2, AskedBoth
  <2>6. Asked(agenda', "search") = Asked(agenda, "search")
    BY <2>2, <2>3, <2>4, <2>5
  <2> QED BY <1>1, <1>2, <2>6, KeptSearch
<1> QED BY <1>4, <1>5 DEF ResolveName

LEMMA CollectSearch == TInv /\ SInv /\ CollectTypes => SInv'
<1> SUFFICES ASSUME TInv, SInv, CollectTypes PROVE SInv'
  OBVIOUS
<1> DEFINE m == Head(agenda).msg
           w == ResolveAll(Fields(m)) \o CollectAll(Fields(m))
           r == Tail(agenda)
<1>1. Calling("collect") /\ UNCHANGED <<schema, at, entities, usesEntity, calls>>
  BY DEF CollectTypes
<1>2. /\ Typed /\ agenda # <<>> /\ agenda \in Seq(Tasks) /\ agenda[1].call = "collect"
      /\ m \in Known /\ calls = <<>>
  BY <1>1, HeadIs DEF Placed
<1>3. r \in Seq(Tasks) /\ Asked(r, "search") = Asked(agenda, "search")
  BY <1>2, AskedTail
<1>4. CASE agenda' = r
  BY <1>1, <1>2, <1>3, <1>4, KeptSearch
<1>5. CASE agenda' = w \o r
  <2>1. Works(w, Fields(m))
    BY <1>2, FieldSeqs, ResponseWorks DEF Typed
  <2> HIDE DEF w, r, m
  <2>2. w \in Seq(Tasks) /\ Asked(w, "search") = {}
    BY <2>1 DEF Works, Fits, Asked
  <2>3. Asked(w \o r, "search") = Asked(w, "search") \cup Asked(r, "search")
    BY <1>3, <2>2, AskedBoth
  <2>4. Asked(agenda', "search") = Asked(agenda, "search")
    BY <1>3, <1>5, <2>2, <2>3
  <2> QED BY <1>1, <1>2, <2>4, KeptSearch
<1> QED BY <1>4, <1>5 DEF CollectTypes

LEMMA FramesAre ==
    ASSUME NEW cs \in Seq(Frames)
    PROVE  \A i \in 1..Len(cs) : cs[i].msg \in Known /\ cs[i].next \in Nat \ {0}
<1>1. \A i \in 1..Len(cs) : cs[i] \in Frames
  OBVIOUS
<1> QED BY <1>1 DEF Frames

(* The open calls after a step of the search. *)
LEMMA StackReturned ==
    ASSUME NEW cs \in Seq(Frames), NEW ds \in Seq(Frames), NEW n, n = Len(cs), n # 0,
           Stack(cs), Len(ds) = n,
           \A i \in 1..(n - 1) : ds[i] = cs[i],
           ds[n].msg = cs[n].msg, ds[n].next = cs[n].next + 1,
           cs[n].next \in DOMAIN Fields(cs[n].msg),
           Passed(Fields(cs[n].msg)[cs[n].next])
    PROVE  Stack(ds)
<1>1. n \in Nat /\ n \in 1..n /\ 1 \in 1..n /\ \A i \in 1..n : cs[i].next \in Nat \ {0}
  <2>1. n \in Nat
    OBVIOUS
  <2> QED BY <2>1, FramesAre
<1>2. \A i \in 1..n : ds[i].msg = cs[i].msg
  BY <1>1
<1>3. \A i \in 1..n : ~Clean(ds[i].msg) => ~Clean(ds[1].msg)
  BY <1>1, <1>2 DEF Stack
<1>b. \A i \in 1..n : i # n => ds[i] = cs[i]
  BY <1>1
<1>4. ASSUME NEW i \in 1..n, NEW j \in 1..(ds[i].next - 1)
      PROVE  /\ j \in DOMAIN Fields(ds[i].msg)
             /\ i = n \/ j # ds[i].next - 1 => Passed(Fields(ds[i].msg)[j])
  <2>1. CASE i # n
    <3>1. ds[i] = cs[i]
      BY <1>b, <1>4, <2>1
    <3> QED BY <1>4, <2>1, <3>1 DEF Stack
  <2>2. CASE i = n /\ j = cs[n].next
    BY <1>2, <2>2
  <2>3. CASE i = n /\ j # cs[n].next
    <3>1. j \in 1..(cs[n].next - 1)
      BY <1>1, <2>3
    <3>2. j \in DOMAIN Fields(cs[n].msg) /\ Passed(Fields(cs[n].msg)[j])
      BY <1>1, <3>1 DEF Stack
    <3> QED BY <1>2, <2>3, <3>2
  <2> QED BY <2>1, <2>2, <2>3
<1>5. ASSUME NEW i \in 1..(n - 1)
      PROVE  ds[i].next # 1 /\ LooksInto(Opened(ds, i)) /\ Opened(ds, i).msg = ds[i + 1].msg
  <2>1. ds[i] = cs[i] /\ i + 1 \in 1..n
    BY <1>1
  <2>2. Opened(ds, i) = Opened(cs, i) /\ ds[i + 1].msg = cs[i + 1].msg
    BY <1>2, <2>1 DEF Opened
  <2> QED BY <2>1, <2>2 DEF Stack
<1> QED BY <1>3, <1>4, <1>5 DEF Stack

LEMMA StackCalled ==
    ASSUME schema \in Schemas,
           NEW cs \in Seq(Frames), NEW ds \in Seq(Frames), NEW n, n = Len(cs), n # 0,
           Stack(cs), Len(ds) = n + 1,
           \A i \in 1..(n - 1) : ds[i] = cs[i],
           ds[n].msg = cs[n].msg, ds[n].next = cs[n].next + 1,
           cs[n].next \in DOMAIN Fields(cs[n].msg),
           LooksInto(Fields(cs[n].msg)[cs[n].next]),
           ds[n + 1].msg = Fields(cs[n].msg)[cs[n].next].msg, ds[n + 1].next = 1
    PROVE  Stack(ds)
<1>1. n \in Nat /\ n \in 1..n /\ 1 \in 1..n /\ \A i \in 1..n : cs[i].next \in Nat \ {0}
  <2>1. n \in Nat
    OBVIOUS
  <2> QED BY <2>1, FramesAre
<1>2. \A i \in 1..n : ds[i].msg = cs[i].msg
  BY <1>1
<1>3. ASSUME NEW i \in 1..(n + 1), ~Clean(ds[i].msg) PROVE ~Clean(ds[1].msg)
  <2>1. CASE i \in 1..n
    BY <1>1, <1>2, <1>3, <2>1 DEF Stack
  <2>2. CASE i = n + 1
    <3>1. ds[n + 1].msg \in PlainChildren(cs[n].msg)
      BY PlainChildrenAre DEF ToSet
    <3>2. ~Clean(cs[n].msg)
      BY <1>3, <2>2, <3>1, CleanDown
    <3> QED BY <1>1, <1>2, <3>2 DEF Stack
  <2> QED BY <1>1, <2>1, <2>2
<1>b. \A i \in 1..(n - 1) : ds[i] = cs[i] /\ i \in 1..n /\ i # n /\ i # n + 1
  BY <1>1
<1>n. n # n + 1 /\ ds[n].next - 1 = cs[n].next
  BY <1>1
<1>4. ASSUME NEW i \in 1..(n + 1), NEW j \in 1..(ds[i].next - 1)
      PROVE  /\ j \in DOMAIN Fields(ds[i].msg)
             /\ i = n + 1 \/ j # ds[i].next - 1 => Passed(Fields(ds[i].msg)[j])
  <2>1. CASE i \in 1..(n - 1)
    <3>1. ds[i] = cs[i] /\ i \in 1..n /\ i # n /\ i # n + 1
      BY <1>b, <2>1
    <3> QED BY <1>4, <3>1 DEF Stack
  <2>2. CASE i = n /\ j = cs[n].next
    <3>1. j = ds[i].next - 1 /\ i # n + 1
      BY <1>n, <2>2
    <3> QED BY <1>2, <2>2, <3>1
  <2>3. CASE i = n /\ j # cs[n].next
    <3>1. j \in 1..(cs[n].next - 1)
      BY <1>1, <2>3
    <3>2. j \in DOMAIN Fields(cs[n].msg) /\ Passed(Fields(cs[n].msg)[j])
      BY <1>1, <3>1 DEF Stack
    <3> QED BY <1>2, <2>3, <3>2
  <2>4. CASE i = n + 1
    BY <2>4
  <2> QED BY <1>1, <2>1, <2>2, <2>3, <2>4
<1>5. ASSUME NEW i \in 1..n
      PROVE  ds[i].next # 1 /\ LooksInto(Opened(ds, i)) /\ Opened(ds, i).msg = ds[i + 1].msg
  <2>1. CASE i = n
    <3>1. cs[n].next \in Nat \ {0} /\ ds[n].next - 1 = cs[n].next
      BY <1>1
    <3> QED BY <1>1, <2>1, <3>1 DEF Opened
  <2>2. CASE i # n
    <3>1. i \in 1..(n - 1) /\ ds[i] = cs[i] /\ i + 1 \in 1..n
      BY <1>1, <2>2
    <3>2. Opened(ds, i) = Opened(cs, i) /\ ds[i + 1].msg = cs[i + 1].msg
      BY <1>2, <3>1 DEF Opened
    <3> QED BY <3>1, <3>2 DEF Stack
  <2> QED BY <2>1, <2>2
<1>6. Len(ds) - 1 = n
  BY <1>1
<1> QED BY <1>3, <1>4, <1>5, <1>6 DEF Stack

LEMMA StackPopped ==
    ASSUME NEW cs \in Seq(Frames), NEW ds \in Seq(Frames), NEW n, n = Len(cs), n # 0, n # 1,
           Stack(cs), Len(ds) = n - 1,
           \A i \in 1..(n - 1) : ds[i] = cs[i],
           Clean(cs[n].msg)
    PROVE  Stack(ds)
<1>1. n \in Nat /\ 1 \in 1..n /\ 1 \in 1..(n - 1) /\ \A i \in 1..(n - 1) : i \in 1..n /\ i # n
  OBVIOUS
<1>2. \A i \in 1..(n - 1) : ~Clean(ds[i].msg) => ~Clean(ds[1].msg)
  BY <1>1 DEF Stack
<1>3. ASSUME NEW i \in 1..(n - 1), NEW j \in 1..(ds[i].next - 1)
      PROVE  /\ j \in DOMAIN Fields(ds[i].msg)
             /\ i = n - 1 \/ j # ds[i].next - 1 => Passed(Fields(ds[i].msg)[j])
  <2>1. /\ j \in 1..(cs[i].next - 1) /\ ds[i] = cs[i] /\ j \in DOMAIN Fields(cs[i].msg)
        /\ j # cs[i].next - 1 => Passed(Fields(cs[i].msg)[j])
    BY <1>1 DEF Stack
  <2>2. CASE j = cs[i].next - 1 /\ i = n - 1
    <3>1. LooksInto(Opened(cs, i)) /\ Opened(cs, i).msg = cs[i + 1].msg /\ i + 1 = n
      BY <1>1, <2>2 DEF Stack
    <3>2. Opened(cs, i) = Fields(cs[i].msg)[j]
      BY <2>2 DEF Opened
    <3>3. Passed(Fields(cs[i].msg)[j])
      BY <3>1, <3>2 DEF Passed, LooksInto, ToNonEntity
    <3> QED BY <2>1, <3>3
  <2> QED BY <2>1, <2>2
<1>4. ASSUME NEW i \in 1..((n - 1) - 1)
      PROVE  ds[i].next # 1 /\ LooksInto(Opened(ds, i)) /\ Opened(ds, i).msg = ds[i + 1].msg
  <2>0. i \in 1..(n - 1) /\ i + 1 \in 1..(n - 1)
    BY <1>1
  <2>1. ds[i] = cs[i] /\ ds[i + 1] = cs[i + 1]
    BY <2>0
  <2>2. Opened(ds, i) = Opened(cs, i)
    BY <2>1 DEF Opened
  <2> QED BY <2>0, <2>1, <2>2 DEF Stack
<1> QED BY <1>2, <1>3, <1>4 DEF Stack

(* While a search is open, it is of the response on the agenda. *)
LEMMA SearchOpen ==
    ASSUME TInv, SInv, Calling("search"), calls # <<>>
    PROVE  /\ schema \in Schemas /\ pc = "services"
           /\ agenda \in Seq(Tasks) /\ agenda # <<>> /\ Tail(agenda) = <<>>
           /\ Asked(agenda, "search") = {agenda[1].msg}
           /\ calls \in Seq(Frames) /\ Len(calls) \in Nat \ {0} /\ Len(calls) <= MaxCalls
           /\ Stack(calls) /\ calls[1].msg = agenda[1].msg
           /\ \A i \in 1..Len(calls) : calls[i].msg \in Known /\ calls[i].next \in Nat \ {0}
           /\ \A i \in 1..Len(calls) : ~Clean(calls[i].msg) => ~Clean(agenda[1].msg)
<1>1. /\ Typed /\ pc = "services" /\ agenda \in Seq(Tasks) /\ agenda # <<>>
      /\ Head(agenda) = agenda[1] /\ Head(agenda).call = "search"
      /\ Tail(agenda) = <<>> /\ Len(agenda) = 1
  BY HeadIs, HeadPrepared
<1>2. Asked(agenda, "search") = {agenda[1].msg}
  BY <1>1 DEF Asked
<1>3. calls \in Seq(Frames) /\ Len(calls) \in Nat \ {0} /\ Len(calls) <= MaxCalls
  BY <1>1 DEF Typed
<1>4. \A i \in 1..Len(calls) : calls[i].msg \in Known /\ calls[i].next \in Nat \ {0}
  BY <1>3, FramesAre
<1>5. Stack(calls) /\ calls[1].msg = agenda[1].msg
  BY DEF SInv
<1>6. \A i \in 1..Len(calls) : ~Clean(calls[i].msg) => ~Clean(agenda[1].msg)
  BY <1>5 DEF Stack
<1> QED BY <1>1, <1>2, <1>3, <1>4, <1>5, <1>6 DEF Typed

(* A step of the search that goes on with it. *)
LEMMA SearchGoesOn ==
    ASSUME SInv, UNCHANGED <<schema, entities, usesEntity, at, agenda>>,
           Stack(calls'), calls' # <<>> => calls'[1].msg = agenda[1].msg
    PROVE  SInv'
<1>1. VisitedMethods' = VisitedMethods
  BY VisitedKept
<1> QED BY <1>1, SearchInv DEF SInv

LEMMA EnterSearches == TInv /\ SInv /\ EnterSearch => SInv'
<1> SUFFICES ASSUME TInv, SInv, EnterSearch PROVE SInv'
  OBVIOUS
<1>1. /\ Calling("search") /\ calls' = <<[msg |-> Head(agenda).msg, next |-> 1]>>
      /\ UNCHANGED <<schema, entities, usesEntity, at, agenda>>
  BY DEF EnterSearch
<1>2. Head(agenda) = agenda[1]
  BY <1>1, HeadIs
<1>3. Len(calls') = 1 /\ calls'[1].msg = agenda[1].msg /\ calls'[1].next = 1
  BY <1>1, <1>2
<1>4. Stack(calls')
  BY <1>3 DEF Stack
<1> QED BY <1>1, <1>3, <1>4, SearchGoesOn

(* The entity that ends the search is one the response reaches. *)
LEMMA SearchFinds ==
    ASSUME TInv, SInv, Calling("search"), calls # <<>>,
           NEW i \in 1..Len(calls), HasEntity(Fields(calls[i].msg)),
           UNCHANGED <<schema, entities, at>>,
           usesEntity' = TRUE, calls' = <<>>, agenda' = <<>>
    PROVE  SInv'
<1>1. ~Clean(calls[i].msg)
  BY CleanDown
<1>2. ~Clean(agenda[1].msg) /\ agenda[1].msg \in Asked(agenda, "search")
  BY <1>1, SearchOpen
<1>3. PICK m \in VisitedMethods : ReturnsOutput(m) /\ m.output = agenda[1].msg
  BY <1>2 DEF SInv
<1>4. VisitedMethods' = VisitedMethods
  BY VisitedKept
<1>5. WithEntity(m)
  BY <1>2, <1>3 DEF WithEntity
<1> QED BY <1>3, <1>4, <1>5, NoSearch, SearchInv

LEMMA SearchSearches == TInv /\ SInv /\ SearchField => SInv'
<1> SUFFICES ASSUME TInv, SInv, SearchField PROVE SInv'
  OBVIOUS
<1> DEFINE n == Len(calls)
           top == calls[n]
           f == Fields(top.msg)[top.next]
           returned == [calls EXCEPT ![n].next = @ + 1]
<1>1. /\ Calling("search") /\ calls # <<>> /\ top.next <= Len(Fields(top.msg))
      /\ UNCHANGED <<schema, at, entities>>
  BY DEF SearchField, Last
<1>2. /\ schema \in Schemas /\ calls \in Seq(Frames) /\ n \in Nat \ {0} /\ n \in 1..n
      /\ top.msg \in Known /\ top.next \in Nat \ {0} /\ top \in Frames
      /\ Stack(calls) /\ calls[1].msg = agenda[1].msg /\ Tail(agenda) = <<>>
  BY <1>1, SearchOpen
<1>3. top.next \in DOMAIN Fields(top.msg)
  BY <1>1, <1>2, FieldsTyped
<1>4. /\ returned \in Seq(Frames) /\ Len(returned) = n
      /\ returned[n].msg = top.msg /\ returned[n].next = top.next + 1
      /\ \A i \in 1..(n - 1) : returned[i] = calls[i]
  <2>1. [top EXCEPT !.next = @ + 1] \in Frames
    BY <1>2 DEF Frames
  <2> QED BY <1>2, <2>1 DEF Frames
<1>5. returned[1].msg = calls[1].msg
  BY <1>2, <1>4
<1>6. CASE /\ IsMessage(f) /\ f.msg \in entities
           /\ usesEntity' = TRUE /\ calls' = <<>> /\ agenda' = Tail(agenda)
  <2>1. HasEntity(Fields(calls[n].msg))
    BY <1>3, <1>6 DEF HasEntity
  <2> QED BY <1>1, <1>2, <1>6, <2>1, SearchFinds
<1>7. CASE /\ ~(IsMessage(f) /\ f.msg \in entities) /\ ~LooksInto(f)
           /\ calls' = returned /\ UNCHANGED <<usesEntity, agenda>>
  <2>1. Passed(f)
    BY <1>7 DEF Passed
  <2> HIDE DEF returned
  <2>2. Stack(returned)
    BY <1>2, <1>3, <1>4, <2>1, StackReturned
  <2> QED BY <1>1, <1>2, <1>5, <1>7, <2>2, SearchGoesOn
<1>8. CASE UNCHANGED <<calls, usesEntity, agenda>>
  BY <1>1, <1>2, <1>8, SearchGoesOn
<1>9. CASE /\ LooksInto(f)
           /\ calls' = Append(returned, [msg |-> f.msg, next |-> 1])
           /\ UNCHANGED <<usesEntity, agenda>>
  <2> DEFINE frame == [msg |-> f.msg, next |-> 1]
             ds == Append(returned, frame)
  <2>1. f.msg \in Known
    BY <1>2, <1>3, <1>9, FieldsTyped DEF ToSet, LooksInto, ToNonEntity
  <2>2. frame \in Frames /\ frame.msg = f.msg /\ frame.next = 1
    BY <2>1 DEF Frames
  <2> HIDE DEF returned, frame
  <2>3. /\ ds \in Seq(Frames) /\ Len(ds) = n + 1 /\ ds[n + 1] = frame
        /\ \A i \in 1..n : ds[i] = returned[i]
    BY <1>2, <1>4, <2>2
  <2> HIDE DEF ds
  <2>4. /\ \A i \in 1..(n - 1) : ds[i] = calls[i]
        /\ ds[n].msg = top.msg /\ ds[n].next = top.next + 1
        /\ ds[1].msg = calls[1].msg
    BY <1>2, <1>4, <1>5, <2>3
  <2>5. Stack(ds)
    BY <1>2, <1>3, <1>9, <2>2, <2>3, <2>4, StackCalled
  <2>6. calls' = ds
    BY <1>9 DEF ds, frame
  <2> QED BY <1>1, <1>2, <1>9, <2>4, <2>5, <2>6, SearchGoesOn
<1> QED BY <1>6, <1>7, <1>8, <1>9 DEF SearchField, Last

LEMMA ReturnSearches == TInv /\ SInv /\ ReturnFalse => SInv'
<1> SUFFICES ASSUME TInv, SInv, ReturnFalse PROVE SInv'
  OBVIOUS
<1> DEFINE n == Len(calls)
<1>1. /\ Calling("search") /\ calls # <<>> /\ calls' = Front(calls)
      /\ calls[n].next > Len(Fields(calls[n].msg))
      /\ agenda' = IF n = 1 THEN Tail(agenda) ELSE agenda
      /\ UNCHANGED <<schema, at, entities, usesEntity>>
  BY DEF ReturnFalse, Last
<1>2. /\ schema \in Schemas /\ calls \in Seq(Frames) /\ n \in Nat \ {0} /\ n \in 1..n
      /\ calls[n].msg \in Known /\ calls[n].next \in Nat \ {0}
      /\ Stack(calls) /\ calls[1].msg = agenda[1].msg /\ Tail(agenda) = <<>>
      /\ Asked(agenda, "search") = {agenda[1].msg}
  BY <1>1, SearchOpen
<1>3. Clean(calls[n].msg)
  <2>1. \A j \in DOMAIN Fields(calls[n].msg) : j \in 1..(calls[n].next - 1)
    BY <1>1, <1>2, FieldsTyped
  <2>2. \A j \in DOMAIN Fields(calls[n].msg) : Passed(Fields(calls[n].msg)[j])
    BY <1>2, <2>1 DEF Stack
  <2> QED BY <1>2, <2>2, PassedAll
<1>4. /\ calls' \in Seq(Frames) /\ Len(calls') = n - 1
      /\ \A i \in 1..(n - 1) : calls'[i] = calls[i]
  BY <1>1, <1>2, FrontIs
<1>5. CASE n = 1
  <2>1. agenda' = <<>> /\ calls' = <<>>
    BY <1>1, <1>2, <1>4, <1>5
  <2>2. VisitedMethods' = VisitedMethods
    BY <1>1, VisitedKept
  <2>3. ASSUME ~usesEntity, NEW m \in VisitedMethods, WithEntity(m) PROVE FALSE
    <3>1. ~HasEntity(Fields(m.input)) /\ m.output = agenda[1].msg
      BY <1>2, <2>3 DEF SInv
    <3>2. Clean(m.output)
      BY <1>2, <1>3, <1>5, <3>1
    <3> QED BY <2>3, <3>1, <3>2 DEF WithEntity
  <2>4. usesEntity => \E m \in VisitedMethods : WithEntity(m)
    BY DEF SInv
  <2> QED BY <1>1, <2>1, <2>2, <2>3, <2>4, NoSearch, SearchInv
<1>6. CASE n # 1
  <2>1. Stack(calls')
    BY <1>2, <1>3, <1>4, <1>6, StackPopped
  <2>2. calls'[1].msg = agenda[1].msg
    BY <1>2, <1>4, <1>6
  <2> QED BY <1>1, <1>6, <2>1, <2>2, SearchGoesOn
<1> QED BY <1>5, <1>6

LEMMA StepSearch == TInv /\ SInv /\ [Next]_vars => SInv'
<1> SUFFICES ASSUME TInv, SInv, [Next]_vars PROVE SInv'
  OBVIOUS
<1>1. CASE UNCHANGED <<schema, entities, usesEntity, calls, at, agenda>>
  BY <1>1, KeptSearch
<1>2. CASE EmitEntities \/ EmitProject \/ UNCHANGED vars
  BY <1>1, <1>2 DEF EmitEntities, EmitProject, vars
<1> QED
  BY <1>2, ParseSearch, BuildSearch, ResolveSearch, CollectSearch, EnterSearches,
     SearchSearches, ReturnSearches, ServiceSearch DEF Next

(* outputUsesEntity (main.go:961-987) keeps no visited set, so it may go round *)
(* in circles, but the answer it comes back with is reachability's: it neither *)
(* misses an entity behind a field that is no map, nor sees one there is not.  *)
THEOREM SearchFindsEntities == Spec => []SearchIsReachability
<1>1. Init => TInv /\ IInv /\ SInv
  BY InitTyped, InitApart, InitSearch
<1>2. (TInv /\ IInv /\ SInv) /\ [Next]_vars => (TInv /\ IInv /\ SInv)'
  BY StepTyped, StepKeepsApart, StepSearch
<1>3. TInv /\ SInv => SearchIsReachability
  <2> SUFFICES ASSUME TInv, SInv, Built
               PROVE  usesEntity =
                        \E m \in Methods :
                            \/ HasEntity(Fields(m.input))
                            \/ ReturnsOutput(m) /\ \E n \in Reach(PlainChildren, {m.output}) :
                                                        HasEntity(Fields(n))
    BY DEF SearchIsReachability
  <2>1. /\ VisitedMethods = Methods /\ schema \in Schemas
        /\ \A m \in Methods : m.output \in Known
        /\ Asked(agenda, "search") = {} /\ usesEntity \in BOOLEAN
    BY AllVisited, NoSearch DEF Built, TInv, Typed
  <2>2. \A m \in Methods :
            ~Clean(m.output) <=> \E n \in Reach(PlainChildren, {m.output}) : HasEntity(Fields(n))
    BY <2>1, CleanIsReach
  <2>3. usesEntity <=> \E m \in Methods : WithEntity(m)
    BY <2>1 DEF SInv
  <2>4. (\E m \in Methods : WithEntity(m)) <=>
            \E m \in Methods :
                \/ HasEntity(Fields(m.input))
                \/ ReturnsOutput(m) /\ \E n \in Reach(PlainChildren, {m.output}) : HasEntity(Fields(n))
    BY <2>2 DEF WithEntity
  <2> QED BY <2>1, <2>3, <2>4
<1> QED
  BY <1>1, <1>2, <1>3, PTL DEF Spec

----------------------------------------------------------------------------
(* The generated files: whatever one of them uses, one of them declares.   *)

Settled(use, fs) ==
    \/ use.package \in {"strings", "errors", "strconv"}
    \/ use.name = Ident("enum", "")
    \/ \E file \in fs : file.package = use.package /\ \E d \in file.declares : d.name = use.name
Served(service, fs) ==
    /\ Settled(Uses("handler", Ident(service, "Handler")), fs)
    /\ Settled(Uses("usecase", Ident(service, "Usecase")), fs)

DInv ==
    /\ entities \subseteq ToSet(schema.order)
    /\ files \in Seq(ToSet(files))
    /\ pc \notin {"entities", "failed"} =>
          \A e \in entities : ToSet(EntityFiles(e)) \subseteq ToSet(files)
    /\ \A file \in ToSet(files) : \A use \in file.uses : Settled(use, ToSet(files))
    /\ \A k \in 1..(at.service - 1) :
          k \in DOMAIN schema.services => Served(schema.services[k].name, ToSet(files))

LEMMA FilesJoin ==
    ASSUME NEW s, s \in Seq(ToSet(s)), NEW t, t \in Seq(ToSet(t))
    PROVE  ToSet(s \o t) = ToSet(s) \cup ToSet(t) /\ s \o t \in Seq(ToSet(s \o t))
<1> DEFINE S == ToSet(s)
           T == ToSet(t)
           w == s \o t
<1>1. S = {s[i] : i \in 1..Len(s)} /\ T = {t[i] : i \in 1..Len(t)}
  BY DEF ToSet
<1>2. s \in Seq(S \cup T) /\ t \in Seq(S \cup T) /\ S \subseteq S \cup T /\ T \subseteq S \cup T
  <2> HIDE DEF S, T
  <2>1. s \in Seq(S) /\ t \in Seq(T)
    BY DEF S, T
  <2> QED BY <2>1
<1>3. /\ w \in Seq(S \cup T) /\ DOMAIN w = 1..Len(w) /\ Len(w) = Len(s) + Len(t) /\ Len(s) \in Nat /\ Len(t) \in Nat
      /\ \A i \in 1..Len(s) : w[i] = s[i] /\ i \in 1..Len(w)
      /\ \A i \in 1..Len(t) : w[Len(s) + i] = t[i] /\ Len(s) + i \in 1..Len(w)
  <2> HIDE DEF S, T
  <2> QED BY <1>2
<1> HIDE DEF S, T, w
<1>4. ToSet(w) = {w[i] : i \in 1..Len(w)}
  BY <1>3 DEF ToSet
<1>5. ToSet(w) \subseteq S \cup T
  BY <1>3, <1>4
<1>6. S \cup T \subseteq ToSet(w)
  BY <1>1, <1>3, <1>4
<1>7. ToSet(w) = S \cup T /\ w \in Seq(ToSet(w))
  BY <1>3, <1>5, <1>6
<1> QED BY <1>7 DEF S, T, w

LEMMA SettledMore ==
    ASSUME NEW fs, NEW gs, fs \subseteq gs
    PROVE  /\ \A use : Settled(use, fs) => Settled(use, gs)
           /\ \A service : Served(service, fs) => Served(service, gs)
BY DEF Settled, Served

LEMMA WhenIs ==
    ASSUME NEW p, NEW x
    PROVE  \A use : use \in When(p, x) <=> p /\ use = x
<1>1. CASE p
  BY <1>1 DEF When
<1>2. CASE ~p
  BY <1>2 DEF When
<1> QED BY <1>1, <1>2

LEMMA SettledBy ==
    ASSUME NEW fs, NEW file \in fs, NEW package, file.package = package,
           NEW x, \E d \in file.declares : d.name = x
    PROVE  Settled(Uses(package, x), fs)
BY DEF Settled, Uses

(* What an entity's files hold, whatever the schema. *)
As(e, suffix) == [schema.messages[e].name EXCEPT !.suffix = suffix]

LEMMA EntityFilesAre ==
    ASSUME NEW e
    PROVE  /\ EntityFiles(e) \in Seq(ToSet(EntityFiles(e)))
           /\ \A file \in ToSet(EntityFiles(e)) :
                 /\ \A use \in file.uses : Settled(use, ToSet(EntityFiles(e)))
                 /\ file.package \notin {"usecase", "handler"}
                 /\ file.package = "entity" => \A d \in file.declares :
                       d = Declares(schema.messages[e].name, <<"entity", e>>)
           /\ Settled(Uses("entity", schema.messages[e].name), ToSet(EntityFiles(e)))
           /\ Settled(Uses("dto", As(e, "DTO")), ToSet(EntityFiles(e)))
           /\ Settled(Uses("repository", As(e, "NotFound")), ToSet(EntityFiles(e)))
<1> DEFINE name == schema.messages[e].name
           as(suffix) == As(e, suffix)
           own == <<"entity", e>>
           imports(used) == {"entity"} \cup (IF used = {} THEN {} ELSE {"repository"})
           layer(package, declared, used) ==
              File(<<package, name>>, {Declares(x, own) : x \in declared},
                   {Uses("entity", name)} \cup {Uses("repository", x) : x \in used},
                   imports(used), {})
           trims == \E f \in ToSet(Fields(e)) : Trims(f)
           trim == Uses("strings", Ident("TrimSpace", ""))
           strings == When(trims, trim)
           both == {as("Repository"), as("NotFound")}
           f1 == File(<<"entity", name>>, {Declares(name, own)}, strings, {"strings"}, {})
           f2 == layer("repository", both, {})
           f3 == layer("mock", {name}, {as("Repository")})
           f4 == layer("infra", {as("PostgresRepository")}, both)
           f5 == layer("dto", {as("DTO")}, {})
           fs == ToSet(EntityFiles(e))
<1>1. EntityFiles(e) = <<f1, f2, f3, f4, f5>>
  BY DEF EntityFiles, As
<1>2. \A use \in strings : use.package = "strings"
  <2>1. trim.package = "strings"
    BY DEF Uses
  <2> HIDE DEF trims, trim
  <2> QED BY <2>1, WhenIs
<1>0. as("Repository") \in both /\ as("NotFound") \in both
      /\ \A x \in both : x = as("Repository") \/ x = as("NotFound")
  OBVIOUS
<1> HIDE DEF strings, as, name, own, both
<1>3. /\ f1.package = "entity" /\ \E d \in f1.declares : d.name = name
      /\ \A use \in f1.uses : use.package = "strings"
      /\ f1.declares = {Declares(name, own)}
  BY <1>2 DEF File, Declares
<1>4. ASSUME NEW package, NEW declared, NEW used
      PROVE  /\ layer(package, declared, used).package = package
             /\ \A x \in declared : \E d \in layer(package, declared, used).declares : d.name = x
             /\ \A use \in layer(package, declared, used).uses :
                   use = Uses("entity", name) \/ \E x \in used : use = Uses("repository", x)
  <2> DEFINE ds == {Declares(x, own) : x \in declared}
             us == {Uses("entity", name)} \cup {Uses("repository", x) : x \in used}
             is == imports(used)
  <2>1. \A x \in declared : Declares(x, own) \in ds /\ Declares(x, own).name = x
    BY DEF Declares
  <2>2. \A use \in us : use = Uses("entity", name) \/ \E x \in used : use = Uses("repository", x)
    OBVIOUS
  <2>3. layer(package, declared, used) = File(<<package, name>>, ds, us, is, {})
    OBVIOUS
  <2> HIDE DEF ds, us, is, layer
  <2>4. /\ layer(package, declared, used).package = package
        /\ layer(package, declared, used).declares = ds
        /\ layer(package, declared, used).uses = us
    BY <2>3 DEF File
  <2> QED BY <2>1, <2>2, <2>4
<1> DEFINE Layer(file, package, declared, used) ==
              /\ file.package = package
              /\ \A x \in declared : \E d \in file.declares : d.name = x
              /\ \A use \in file.uses :
                    use = Uses("entity", name) \/ \E x \in used : use = Uses("repository", x)
<1>5. /\ Layer(f2, "repository", both, {})
      /\ Layer(f3, "mock", {name}, {as("Repository")})
      /\ Layer(f4, "infra", {as("PostgresRepository")}, both)
      /\ Layer(f5, "dto", {as("DTO")}, {})
  <2>1. \A package, declared, used : Layer(layer(package, declared, used), package, declared, used)
    BY <1>4
  <2> HIDE DEF layer, Layer
  <2> QED BY <2>1
<1> HIDE DEF f1, f2, f3, f4, f5
<1>6. \A file \in {f2, f3, f4, f5} : \A use \in file.uses :
          \/ use = Uses("entity", name)
          \/ use = Uses("repository", as("Repository"))
          \/ use = Uses("repository", as("NotFound"))
  BY <1>0, <1>5
<1>7. fs = {f1, f2, f3, f4, f5} /\ EntityFiles(e) \in Seq({f1, f2, f3, f4, f5})
  BY <1>1 DEF ToSet
<1> HIDE DEF fs
<1>8. /\ Settled(Uses("entity", name), fs)
      /\ Settled(Uses("repository", as("Repository")), fs)
      /\ Settled(Uses("repository", as("NotFound")), fs)
      /\ Settled(Uses("dto", as("DTO")), fs)
  <2>1. f1 \in fs /\ f2 \in fs /\ f5 \in fs
    BY <1>7
  <2>2. /\ \E d \in f2.declares : d.name = as("Repository")
        /\ \E d \in f2.declares : d.name = as("NotFound")
        /\ \E d \in f5.declares : d.name = as("DTO")
    BY <1>0, <1>5
  <2> QED BY <1>3, <1>5, <2>1, <2>2, SettledBy
<1>9. \A use \in f1.uses : Settled(use, fs)
  BY <1>3 DEF Settled
<1>10. \A file \in fs : \A use \in file.uses : Settled(use, fs)
  BY <1>6, <1>7, <1>8, <1>9
<1>11. \A file \in fs : file.package \notin {"usecase", "handler"}
  BY <1>3, <1>5, <1>7
<1>12. \A file \in fs : file.package = "entity" => \A d \in file.declares : d = Declares(name, own)
  BY <1>3, <1>5, <1>7
<1> QED BY <1>7, <1>8, <1>10, <1>11, <1>12 DEF fs, name, as, own

LEMMA PartsSet ==
    ASSUME NEW S, NEW ss, NEW n \in Nat, \A i \in 1..n : ss[i] \in Seq(S),
           NEW w \in Seq(S), Parts(ss, n, w)
    PROVE  /\ \A i \in 1..n : ToSet(ss[i]) \subseteq ToSet(w)
           /\ \A x \in ToSet(w) : \E i \in 1..n : x \in ToSet(ss[i])
<1>1. ASSUME NEW i \in 1..n, NEW x \in ToSet(ss[i]) PROVE x \in ToSet(w)
  <2>1. PICK b \in Nat : Lies(ss[i], w, b)
    BY DEF Parts
  <2>2. PICK q \in 1..Len(ss[i]) : x = ss[i][q]
    BY DEF ToSet
  <2>3. Len(w) \in Nat /\ Len(ss[i]) \in Nat /\ DOMAIN w = 1..Len(w)
    OBVIOUS
  <2>4. b + q \in 1..Len(w) /\ w[b + q] = x
    BY <2>1, <2>2, <2>3 DEF Lies
  <2> QED BY <2>3, <2>4 DEF ToSet
<1>2. ASSUME NEW x \in ToSet(w) PROVE \E i \in 1..n : x \in ToSet(ss[i])
  <2>1. PICK k \in 1..Len(w) : x = w[k]
    BY DEF ToSet
  <2>2. PICK i \in 1..n, b \in Nat : Lies(ss[i], w, b) /\ b < k /\ k <= b + Len(ss[i])
    BY DEF Parts
  <2>3. Len(ss[i]) \in Nat /\ DOMAIN ss[i] = 1..Len(ss[i])
    OBVIOUS
  <2>4. k - b \in 1..Len(ss[i]) /\ w[b + (k - b)] = ss[i][k - b] /\ b + (k - b) = k
    BY <2>2, <2>3 DEF Lies
  <2> QED BY <2>1, <2>3, <2>4 DEF ToSet
<1> QED BY <1>1, <1>2

LEMMA EntityFilesKept ==
    ASSUME schema' = schema
    PROVE  \A e : EntityFiles(e)' = EntityFiles(e)
BY DEF EntityFiles, Fields

(* The parts of DInv, where the values of the variables are given.         *)
LEMMA DeclaresInv ==
    ASSUME schema' = schema,
           entities' \subseteq ToSet(schema.order),
           files' \in Seq(ToSet(files')),
           pc' \notin {"entities", "failed"} =>
              \A e \in entities' : ToSet(EntityFiles(e)) \subseteq ToSet(files'),
           \A file \in ToSet(files') : \A use \in file.uses : Settled(use, ToSet(files')),
           \A k \in 1..(at'.service - 1) :
              k \in DOMAIN schema.services => Served(schema.services[k].name, ToSet(files'))
    PROVE  DInv'
<1>1. \A e : EntityFiles(e)' = EntityFiles(e)
  BY EntityFilesKept
<1>2. (pc \notin {"entities", "failed"} =>
          \A e \in entities : ToSet(EntityFiles(e)) \subseteq ToSet(files))'
  BY <1>1 DEF ToSet
<1>3. (\A file \in ToSet(files) : \A use \in file.uses : Settled(use, ToSet(files)))'
  BY DEF ToSet, Settled
<1>4. (\A k \in 1..(at.service - 1) :
          k \in DOMAIN schema.services => Served(schema.services[k].name, ToSet(files)))'
  BY DEF ToSet, Served, Settled
<1>5. (entities \subseteq ToSet(schema.order) /\ files \in Seq(ToSet(files)))'
  BY DEF ToSet
<1> QED BY <1>2, <1>3, <1>4, <1>5 DEF DInv

LEMMA NoFiles == <<>> \in Seq(ToSet(<<>>)) /\ ToSet(<<>>) = {}
BY DEF ToSet

LEMMA InitDeclares == Init => DInv
<1> SUFFICES ASSUME Init PROVE DInv
  OBVIOUS
<1>1. files = <<>> /\ entities = {} /\ pc = "entities" /\ 1..(at.service - 1) = {}
  BY DEF Init
<1> QED BY <1>1, NoFiles DEF DInv

LEMMA ParseDeclares == TInv /\ DInv /\ ParseEntity => DInv'
<1> SUFFICES ASSUME TInv, DInv, ParseEntity PROVE DInv'
  OBVIOUS
<1>1. /\ schema \in Schemas /\ at \in Positions /\ at.service = 1 /\ files = <<>>
      /\ UNCHANGED <<schema, files>> /\ at.message <= Len(schema.order)
  BY DEF TInv, Typed, Fresh, ParseEntity
<1>2. /\ pc' \in {"entities", "failed"}
      /\ at' = at \/ at' = [at EXCEPT !.message = @ + 1]
      /\ entities' \subseteq entities \cup {schema.order[at.message]}
  BY DEF ParseEntity
<1>3. at'.service = 1 /\ 1..(at'.service - 1) = {}
  BY <1>1, <1>2 DEF Positions
<1>4. schema.order[at.message] \in ToSet(schema.order)
  <2>1. schema.order \in Seq(Known) /\ at.message \in Nat \ {0}
    BY <1>1, SchemasAssumption DEF Known, Positions
  <2> QED BY <1>1, <2>1 DEF ToSet
<1>5. entities' \subseteq ToSet(schema.order)
  BY <1>2, <1>4 DEF DInv
<1> QED BY <1>1, <1>2, <1>3, <1>5, NoFiles, DeclaresInv

LEMMA EntitiesEmitted ==
    ASSUME TInv, DInv, EmitEntities
    PROVE  /\ files' \in Seq(ToSet(files'))
           /\ ToSet(files') = UNION {ToSet(EntityFiles(e)) : e \in entities}
<1> DEFINE n == Len(schema.order)
           made(i) == IF schema.order[i] \in entities THEN EntityFiles(schema.order[i]) ELSE <<>>
           ss == [i \in DOMAIN schema.order |-> made(i)]
           S == UNION {ToSet(EntityFiles(e)) : e \in entities}
<1>1. schema \in Schemas /\ files' = FlattenSeq(ss)
  BY DEF TInv, Typed, EmitEntities
<1>2. n \in Nat /\ DOMAIN schema.order = 1..n
  BY <1>1, SchemasAssumption
<1>3. ASSUME NEW e \in entities
      PROVE  EntityFiles(e) \in Seq(S) /\ ToSet(EntityFiles(e)) \subseteq S
  <2>1. ToSet(EntityFiles(e)) \subseteq S
    OBVIOUS
  <2>2. EntityFiles(e) \in Seq(ToSet(EntityFiles(e)))
    BY EntityFilesAre
  <2> DEFINE F == EntityFiles(e)
             T == ToSet(F)
  <2> HIDE DEF F, S
  <2>3. F \in Seq(S)
    <3>1. F \in Seq(T) /\ T \subseteq S
      BY <2>1, <2>2 DEF F, S
    <3> HIDE DEF T
    <3> QED BY <3>1
  <2> QED BY <2>1, <2>3 DEF F, S
<1>4. \A i \in 1..n : ss[i] = made(i) /\ ss[i] \in Seq(S)
  <2> HIDE DEF S
  <2> QED BY <1>2, <1>3
<1>5. DOMAIN ss = 1..n /\ Len(ss) = n /\ ss = [i \in 1..n |-> ss[i]]
  BY <1>2
<1> HIDE DEF ss, S
<1>6. /\ files' \in Seq(S)
      /\ \A i \in 1..n : ToSet(ss[i]) \subseteq ToSet(files')
      /\ \A x \in ToSet(files') : \E i \in 1..n : x \in ToSet(ss[i])
  <2>1. files' \in Seq(S) /\ Parts(ss, n, files')
    BY <1>1, <1>2, <1>4, <1>5, FlattenParts
  <2>2. n \in Nat /\ \A i \in 1..n : ss[i] \in Seq(S)
    BY <1>2, <1>4
  <2> HIDE DEF n
  <2> QED BY <2>1, <2>2, PartsSet
<1>7. ToSet(files') = S
  <2>1. ASSUME NEW x \in S PROVE \E i \in 1..n : x \in ToSet(ss[i])
    <3>1. PICK e \in entities : x \in ToSet(EntityFiles(e))
      BY DEF S
    <3>2. PICK i \in 1..n : schema.order[i] = e
      BY <1>2 DEF DInv, ToSet
    <3>3. ss[i] = EntityFiles(e)
      BY <1>4, <3>2
    <3> QED BY <3>1, <3>3
  <2>2. ASSUME NEW i \in 1..n, NEW x \in ToSet(ss[i]) PROVE x \in S
    <3>1. CASE schema.order[i] \in entities
      BY <1>4, <3>1 DEF S
    <3>2. CASE schema.order[i] \notin entities
      BY <1>4, <3>2, NoFiles
    <3> QED BY <3>1, <3>2
  <2> QED BY <1>6, <2>1, <2>2
<1>8. files' \in Seq(ToSet(files'))
  BY <1>6, <1>7
<1> QED BY <1>7, <1>8 DEF S

LEMMA EntitiesDeclare == TInv /\ DInv /\ EmitEntities => DInv'
<1> SUFFICES ASSUME TInv, DInv, EmitEntities PROVE DInv'
  OBVIOUS
<1>1. /\ UNCHANGED <<schema, at, entities>> /\ 1..(at'.service - 1) = {}
      /\ entities' \subseteq ToSet(schema.order)
  BY DEF TInv, Fresh, EmitEntities, DInv
<1>2. /\ files' \in Seq(ToSet(files'))
      /\ ToSet(files') = UNION {ToSet(EntityFiles(e)) : e \in entities}
  BY EntitiesEmitted
<1>3. \A e \in entities : ToSet(EntityFiles(e)) \subseteq ToSet(files')
  BY <1>2
<1>4. ASSUME NEW file \in ToSet(files'), NEW use \in file.uses
      PROVE  Settled(use, ToSet(files'))
  <2>1. PICK e \in entities : file \in ToSet(EntityFiles(e))
    BY <1>2
  <2>2. Settled(use, ToSet(EntityFiles(e)))
    BY <2>1, EntityFilesAre
  <2> QED BY <1>3, <2>2, SettledMore
<1> QED BY <1>1, <1>2, <1>3, <1>4, DeclaresInv

(* A step that generates nothing. *)
LEMMA KeptDeclares ==
    ASSUME DInv, UNCHANGED <<schema, entities, files>>, at'.service = at.service,
           pc \notin {"entities", "failed"} \/ pc' = pc
    PROVE  DInv'
BY DeclaresInv DEF DInv

(* The files of a service, by what they declare, use and import.           *)
Service == schema.services[at.service].name
Parses ==
    \E r \in UNION {Reads(m) : m \in {n \in Methods : n.verb # "none"}} :
        r.from = "query" /\ r.kind = "int"
Spells(f) == IsMessage(f) \/ f.kind = "enum"

LEMMA UsecaseFileIs ==
    /\ UsecaseFile.package = "usecase"
    /\ \A m \in Methods : \E d \in UsecaseFile.declares : d.name = Ident(m.name, "Input")
    /\ \A name \in DOMAIN types : \E d \in UsecaseFile.declares : d.name = name
    /\ \E d \in UsecaseFile.declares : d.name = Ident(Service, "Usecase")
    /\ \A use : use \in UsecaseFile.uses <=>
          \/ \E m \in Structs : \E f \in ToSet(Fields(m)) : Spells(f) /\ use = TypeOf("usecase", f)
          \/ \E e \in Replies :
                use = Uses("dto", As(e, "DTO"))
    /\ UsecaseFile.imports = When(usesEntity, "entity") \cup When(Replies # {}, "dto")
<1> DEFINE declares ==
              {Declares(Ident(m.name, "Input"), <<Service, "input">>) : m \in Methods}
                \cup {Declares(Ident(m.name, "Output"), <<Service, "output">>) :
                         m \in {n \in Methods : ReturnsOutput(n)}}
                \cup {Declares(name, <<Service, types[name]>>) : name \in DOMAIN types}
                \cup {Declares(Ident(Service, "Usecase"), <<Service, "interface">>)}
           spelled == UNION {TypesOf("usecase", ToSet(Fields(m))) : m \in Structs}
           replies == {Uses("dto", As(e, "DTO")) : e \in Replies}
           uses == spelled \cup replies
           imports == When(usesEntity, "entity") \cup When(Replies # {}, "dto")
<1>1. UsecaseFile = File(<<"usecase", Ident(Service, "")>>, declares, uses, imports, {})
  BY DEF UsecaseFile, Service, As
<1>2. \A use : use \in uses <=>
          \/ \E m \in Structs : \E f \in ToSet(Fields(m)) : Spells(f) /\ use = TypeOf("usecase", f)
          \/ \E e \in Replies :
                use = Uses("dto", As(e, "DTO"))
  <2>1. \A m, use : use \in TypesOf("usecase", ToSet(Fields(m))) <=>
                      \E f \in ToSet(Fields(m)) : Spells(f) /\ use = TypeOf("usecase", f)
    BY DEF TypesOf, Spells
  <2>2. \A use : use \in spelled <=> \E m \in Structs : use \in TypesOf("usecase", ToSet(Fields(m)))
    OBVIOUS
  <2>3. \A use : use \in replies <=> \E e \in Replies : use = Uses("dto", As(e, "DTO"))
    OBVIOUS
  <2> HIDE DEF spelled, replies
  <2> QED BY <2>1, <2>2, <2>3
<1>3. /\ \A m \in Methods : \E d \in declares : d.name = Ident(m.name, "Input")
      /\ \A name \in DOMAIN types : \E d \in declares : d.name = name
      /\ \E d \in declares : d.name = Ident(Service, "Usecase")
  <2>1. \A name, by : Declares(name, by).name = name
    BY DEF Declares
  <2>2. /\ \A m \in Methods : Declares(Ident(m.name, "Input"), <<Service, "input">>) \in declares
        /\ \A name \in DOMAIN types : Declares(name, <<Service, types[name]>>) \in declares
        /\ Declares(Ident(Service, "Usecase"), <<Service, "interface">>) \in declares
    OBVIOUS
  <2> HIDE DEF declares
  <2> QED BY <2>1, <2>2
<1> HIDE DEF declares, uses, imports
<1>4. /\ UsecaseFile.package = "usecase" /\ UsecaseFile.declares = declares
      /\ UsecaseFile.uses = uses /\ UsecaseFile.imports = imports
  BY <1>1 DEF File
<1> QED BY <1>2, <1>3, <1>4 DEF imports

LEMMA HandlerFileIs ==
    /\ HandlerFile.package = "handler" /\ HandlerFile.path = <<"handler", Ident(Service, "")>>
    /\ HandlerFile.reads = UNION {Reads(m) : m \in {n \in Methods : n.verb # "none"}}
    /\ \E d \in HandlerFile.declares : d.name = Ident(Service, "Handler")
    /\ \A use : use \in HandlerFile.uses <=>
          \/ \E m \in Methods : \E f \in BodyFields(m) : Spells(f) /\ use = TypeOf("handler", f)
          \/ \E m \in Methods : m.verb # "none" /\ use = Uses("usecase", Ident(m.name, "Input"))
          \/ use = Uses("usecase", Ident(Service, "Usecase"))
          \/ \E e \in Replies :
                use = Uses("repository", As(e, "NotFound"))
          \/ Replies # {} /\ use = Uses("errors", Ident("Is", ""))
          \/ Parses /\ use = Uses("strconv", Ident("Atoi", ""))
    /\ HandlerFile.imports =
          When(\E m \in Methods : HasEntity(Fields(m.input)), "entity")
            \cup (IF Replies # {} THEN {"errors", "repository"} ELSE {})
            \cup When(Parses, "strconv") \cup {"usecase"}
<1> DEFINE routed == {m \in Methods : m.verb # "none"}
           reads == UNION {Reads(m) : m \in routed}
           declares ==
              {Declares(Ident(Service, "Handler"), <<Service, "handler">>)}
                \cup {Declares(Ident(m.name, "Body"), <<Service, "body">>) :
                         m \in {n \in Methods : BodyFields(n) # {}}}
           spelled == UNION {TypesOf("handler", BodyFields(m)) : m \in Methods}
           inputs == {Uses("usecase", Ident(m.name, "Input")) : m \in routed}
           replies == {Uses("repository", As(e, "NotFound")) : e \in Replies}
           errors == When(Replies # {}, Uses("errors", Ident("Is", "")))
           strconv == When(Parses, Uses("strconv", Ident("Atoi", "")))
           uses == spelled \cup inputs \cup {Uses("usecase", Ident(Service, "Usecase"))}
                     \cup replies \cup errors \cup strconv
           imports ==
              When(\E m \in Methods : HasEntity(Fields(m.input)), "entity")
                \cup (IF Replies # {} THEN {"errors", "repository"} ELSE {})
                \cup When(Parses, "strconv") \cup {"usecase"}
<1>1. HandlerFile = File(<<"handler", Ident(Service, "")>>, declares, uses, imports, reads)
  BY DEF HandlerFile, Service, Parses, As
<1>2. \A use : use \in uses <=>
          \/ \E m \in Methods : \E f \in BodyFields(m) : Spells(f) /\ use = TypeOf("handler", f)
          \/ \E m \in Methods : m.verb # "none" /\ use = Uses("usecase", Ident(m.name, "Input"))
          \/ use = Uses("usecase", Ident(Service, "Usecase"))
          \/ \E e \in Replies :
                use = Uses("repository", As(e, "NotFound"))
          \/ Replies # {} /\ use = Uses("errors", Ident("Is", ""))
          \/ Parses /\ use = Uses("strconv", Ident("Atoi", ""))
  <2>1. \A m, use : use \in TypesOf("handler", BodyFields(m)) <=>
                      \E f \in BodyFields(m) : Spells(f) /\ use = TypeOf("handler", f)
    BY DEF TypesOf, Spells
  <2>2. \A use : use \in spelled <=> \E m \in Methods : use \in TypesOf("handler", BodyFields(m))
    OBVIOUS
  <2>3. \A use : use \in inputs <=>
            \E m \in Methods : m.verb # "none" /\ use = Uses("usecase", Ident(m.name, "Input"))
    OBVIOUS
  <2>4. \A use : use \in replies <=> \E e \in Replies : use = Uses("repository", As(e, "NotFound"))
    OBVIOUS
  <2>5. \A use : use \in errors <=> Replies # {} /\ use = Uses("errors", Ident("Is", ""))
    BY WhenIs
  <2>6. \A use : use \in strconv <=> Parses /\ use = Uses("strconv", Ident("Atoi", ""))
    BY WhenIs
  <2> HIDE DEF spelled, inputs, replies, errors, strconv
  <2>7. \A use : use \in uses <=>
            \/ use \in spelled \/ use \in inputs \/ use = Uses("usecase", Ident(Service, "Usecase"))
            \/ use \in replies \/ use \in errors \/ use \in strconv
    OBVIOUS
  <2> HIDE DEF uses
  <2>8. \A use : use \in spelled <=>
            \E m \in Methods : \E f \in BodyFields(m) : Spells(f) /\ use = TypeOf("handler", f)
    BY <2>1, <2>2
  <2> QED BY <2>3, <2>4, <2>5, <2>6, <2>7, <2>8
<1>3. \E d \in declares : d.name = Ident(Service, "Handler")
  <2>1. Declares(Ident(Service, "Handler"), <<Service, "handler">>).name = Ident(Service, "Handler")
    BY DEF Declares
  <2>2. Declares(Ident(Service, "Handler"), <<Service, "handler">>) \in declares
    OBVIOUS
  <2> HIDE DEF declares
  <2> QED BY <2>1, <2>2
<1> HIDE DEF declares, uses, imports, reads
<1>4. /\ HandlerFile.package = "handler" /\ HandlerFile.declares = declares
      /\ HandlerFile.uses = uses /\ HandlerFile.imports = imports
      /\ HandlerFile.path = <<"handler", Ident(Service, "")>> /\ HandlerFile.reads = reads
  BY <1>1 DEF File
<1> QED BY <1>2, <1>3, <1>4 DEF imports, reads

(* When the files of a service are written, all its messages have types.   *)
LEMMA StructsAreEmitted ==
    ASSUME TInv, EInv, Built
    PROVE  /\ \A m \in Structs : Children(m) \subseteq Range(types)
           /\ \A x \in Range(types) : rename[x] \in DOMAIN types
<1>1. Closed(Range(types), Roots)
  BY BuiltEmits
<1>2. \A m \in Methods : Rooted(m) \subseteq Roots
  BY AllVisited DEF Roots
<1>3. \A m \in Structs : Children(m) \subseteq Range(types)
  BY <1>1, <1>2 DEF Structs, Closed, Rooted
<1>4. \A x \in Range(types) : rename[x] \in DOMAIN types
  BY DEF TInv, Typed, Range
<1> QED BY <1>3, <1>4

LEMMA TypeSettled ==
    ASSUME TInv, EInv, DInv, Built,
           NEW fs, ToSet(files) \subseteq fs, UsecaseFile \in fs,
           NEW m \in Structs, NEW f \in ToSet(Fields(m)), Spells(f), NEW package
    PROVE  Settled(TypeOf(package, f), fs)
<1>1. pc = "services"
  BY DEF Built
<1>2. CASE ~IsMessage(f)
  BY <1>2 DEF Spells, TypeOf, Settled, Uses
<1>3. CASE IsMessage(f) /\ f.msg \in entities
  <2>1. ToSet(EntityFiles(f.msg)) \subseteq fs
    BY <1>1, <1>3 DEF DInv
  <2>2. \A use : Settled(use, ToSet(EntityFiles(f.msg))) => Settled(use, fs)
    BY <2>1, SettledMore
  <2>3. Settled(Uses("entity", schema.messages[f.msg].name), fs)
    BY <2>2, EntityFilesAre
  <2> QED BY <1>3, <2>3 DEF TypeOf
<1>4. CASE IsMessage(f) /\ f.msg \notin entities
  <2>1. f.msg \in Children(m)
    BY <1>4 DEF Children, ToNonEntity
  <2>2. rename[f.msg] \in DOMAIN types
    BY <2>1, StructsAreEmitted
  <2>3. Settled(Uses("usecase", rename[f.msg]), fs)
    BY <2>2, UsecaseFileIs DEF Settled, Uses
  <2> QED BY <1>4, <2>3 DEF TypeOf
<1> QED BY <1>2, <1>3, <1>4

LEMMA ReplySettled ==
    ASSUME TInv, DInv, Built, NEW fs, ToSet(files) \subseteq fs, NEW e \in Replies
    PROVE  /\ e \in entities
           /\ Settled(Uses("dto", As(e, "DTO")), fs)
           /\ Settled(Uses("repository", As(e, "NotFound")), fs)
<1>1. e \in entities
  BY DEF Replies, ReturnsDTO
<1>2. ToSet(EntityFiles(e)) \subseteq fs
  BY <1>1 DEF DInv, Built
<1>3. \A use : Settled(use, ToSet(EntityFiles(e))) => Settled(use, fs)
  BY <1>2, SettledMore
<1> QED BY <1>1, <1>3, EntityFilesAre

LEMMA ServiceDeclares == TInv /\ EInv /\ DInv /\ EmitService => DInv'
<1> SUFFICES ASSUME TInv, EInv, DInv, EmitService PROVE DInv'
  OBVIOUS
<1> DEFINE new == <<UsecaseFile, HandlerFile>>
           fs == ToSet(files')
<1>1. /\ Built /\ schema \in Schemas /\ at \in Positions
      /\ files' = files \o new /\ at' = [at EXCEPT !.service = @ + 1, !.method = 1]
      /\ pc = "services" /\ UNCHANGED <<schema, pc, entities>>
  BY DEF EmitService, Built, TInv, Typed
<1>2. new \in Seq(ToSet(new)) /\ ToSet(new) = {UsecaseFile, HandlerFile}
  <2> DEFINE U == UsecaseFile
             H == HandlerFile
             w == <<U, H>>
  <2> HIDE DEF U, H
  <2>1. ToSet(w) = {U, H} /\ w \in Seq({U, H})
    BY DEF ToSet
  <2> QED BY <2>1 DEF U, H
<1> HIDE DEF new
<1>3. /\ fs = ToSet(files) \cup {UsecaseFile, HandlerFile}
      /\ files' \in Seq(fs)
  BY <1>1, <1>2, FilesJoin DEF DInv
<1> HIDE DEF fs
<1>4. UsecaseFile \in fs /\ HandlerFile \in fs /\ ToSet(files) \subseteq fs
  BY <1>3
<1>5. Served(Service, fs)
  BY <1>4, UsecaseFileIs, HandlerFileIs DEF Served, Settled, Uses
<1>6. \A m \in Methods : m.input \in Structs
  BY DEF Structs
<1>7. ASSUME NEW use \in UsecaseFile.uses PROVE Settled(use, fs)
  BY <1>1, <1>4, <1>7, UsecaseFileIs, TypeSettled, ReplySettled
<1>8. ASSUME NEW use \in HandlerFile.uses PROVE Settled(use, fs)
  <2>1. CASE \E m \in Methods : \E f \in BodyFields(m) : Spells(f) /\ use = TypeOf("handler", f)
    <3>1. PICK m \in Methods : \E f \in BodyFields(m) : Spells(f) /\ use = TypeOf("handler", f)
      BY <2>1
    <3>2. PICK f \in ToSet(Fields(m.input)) : Spells(f) /\ use = TypeOf("handler", f)
      BY <3>1 DEF BodyFields
    <3> QED BY <1>1, <1>4, <1>6, <3>2, TypeSettled
  <2>2. CASE \E m \in Methods : use = Uses("usecase", Ident(m.name, "Input"))
    <3>1. PICK m \in Methods : use = Uses("usecase", Ident(m.name, "Input"))
      BY <2>2
    <3>2. /\ UsecaseFile.package = "usecase"
          /\ \E d \in UsecaseFile.declares : d.name = Ident(m.name, "Input")
      BY UsecaseFileIs
    <3> QED BY <1>4, <3>1, <3>2, SettledBy
  <2>3. CASE use = Uses("usecase", Ident(Service, "Usecase"))
    BY <1>5, <2>3 DEF Served
  <2>4. CASE \E e \in Replies :
                use = Uses("repository", As(e, "NotFound"))
    BY <1>1, <1>4, <2>4, ReplySettled
  <2>5. CASE use = Uses("errors", Ident("Is", ""))
    BY <2>5 DEF Settled, Uses
  <2>6. CASE use = Uses("strconv", Ident("Atoi", ""))
    BY <2>6 DEF Settled, Uses
  <2> QED BY <1>8, <2>1, <2>2, <2>3, <2>4, <2>5, <2>6, HandlerFileIs
<1>9. ASSUME NEW file \in fs, NEW use \in file.uses PROVE Settled(use, fs)
  <2>1. CASE file \in ToSet(files)
    BY <1>4, <1>9, <2>1, SettledMore DEF DInv
  <2> QED BY <1>3, <1>7, <1>8, <1>9, <2>1
<1>10. ASSUME NEW k \in 1..(at'.service - 1), k \in DOMAIN schema.services
       PROVE  Served(schema.services[k].name, fs)
  <2>1. at'.service = at.service + 1 /\ at.service \in Nat
    BY <1>1 DEF Positions
  <2>2. CASE k = at.service
    BY <1>5, <2>2 DEF Service
  <2>3. CASE k # at.service
    <3>1. k \in 1..(at.service - 1)
      BY <2>1, <2>3
    <3> QED BY <1>4, <1>10, <3>1, SettledMore DEF DInv
  <2> QED BY <2>2, <2>3
<1>11. \A e \in entities : ToSet(EntityFiles(e)) \subseteq fs
  BY <1>1, <1>4 DEF DInv
<1>12. entities' \subseteq ToSet(schema.order)
  BY <1>1 DEF DInv
<1> QED BY <1>1, <1>3, <1>9, <1>10, <1>11, <1>12, DeclaresInv DEF fs

(* The registry and the wiring: what they use. *)
LEMMA ProjectEmitted ==
    ASSUME TInv, DInv, EmitProject
    PROVE  /\ files' \in Seq(ToSet(files')) /\ ToSet(files) \subseteq ToSet(files')
           /\ \A file \in ToSet(files') :
                 \/ file \in ToSet(files)
                 \/ /\ file.package \in {"entity", "di"} /\ file.declares = {}
                    /\ \A use \in file.uses :
                          \/ \E e \in entities : use = Uses("entity", schema.messages[e].name)
                          \/ \E s \in ToSet(schema.services) :
                                \/ use = Uses("handler", Ident(s.name, "Handler"))
                                \/ use = Uses("usecase", Ident(s.name, "Usecase"))
<1> DEFINE services == {s.name : s \in ToSet(schema.services)}
           named == {Uses("entity", schema.messages[e].name) : e \in entities}
           wired == {Uses("handler", Ident(s, "Handler")) : s \in services}
                      \cup {Uses("usecase", Ident(s, "Usecase")) : s \in services}
           registry == File(<<"entity", Ident("registry", "")>>, {}, named, {}, {})
           wiring == File(<<"di", Ident("handlers", "")>>, {}, wired, {"handler", "usecase"}, {})
           r == IF entities # {} THEN <<registry>> ELSE <<>>
           w == IF services # {} THEN <<wiring>> ELSE <<>>
           fs == ToSet(files')
<1>1. files' = files \o r \o w
  BY DEF EmitProject
<1>2. /\ registry.package = "entity" /\ registry.uses = named /\ registry.declares = {}
      /\ wiring.package = "di" /\ wiring.uses = wired /\ wiring.declares = {}
  BY DEF File
<1>3. /\ \A use \in named : \E e \in entities : use = Uses("entity", schema.messages[e].name)
      /\ \A use \in wired : \E s \in ToSet(schema.services) :
            \/ use = Uses("handler", Ident(s.name, "Handler"))
            \/ use = Uses("usecase", Ident(s.name, "Usecase"))
  OBVIOUS
<1> HIDE DEF registry, wiring, named, wired, services
<1>4. /\ r \in Seq(ToSet(r)) /\ w \in Seq(ToSet(w))
      /\ ToSet(r) \subseteq {registry} /\ ToSet(w) \subseteq {wiring}
  <2>1. \A x : <<x>> \in Seq({x}) /\ ToSet(<<x>>) = {x}
    BY DEF ToSet
  <2> QED BY <2>1, NoFiles
<1> HIDE DEF r, w
<1>5. files' \in Seq(fs) /\ fs = ToSet(files) \cup ToSet(r) \cup ToSet(w)
  <2> DEFINE s == files \o r
  <2>1. ToSet(s) = ToSet(files) \cup ToSet(r) /\ s \in Seq(ToSet(s))
    BY <1>4, FilesJoin DEF DInv
  <2> HIDE DEF s
  <2>2. ToSet(s \o w) = ToSet(s) \cup ToSet(w) /\ s \o w \in Seq(ToSet(s \o w))
    BY <1>4, <2>1, FilesJoin
  <2>3. files' = s \o w
    BY <1>1 DEF s
  <2> QED BY <2>1, <2>2, <2>3
<1> HIDE DEF fs
<1>6. ToSet(files) \subseteq fs /\ fs \subseteq ToSet(files) \cup {registry, wiring}
  BY <1>4, <1>5
<1> QED BY <1>2, <1>3, <1>5, <1>6 DEF fs

LEMMA ProjectDeclares == TInv /\ DInv /\ EmitProject => DInv'
<1> SUFFICES ASSUME TInv, DInv, EmitProject PROVE DInv'
  OBVIOUS
<1> DEFINE fs == ToSet(files')
<1>1. /\ schema \in Schemas /\ at \in Positions /\ at.service > Len(schema.services)
      /\ pc = "services" /\ UNCHANGED <<schema, at, entities>>
  BY DEF EmitProject, TInv, Typed
<1>2. /\ files' \in Seq(fs) /\ ToSet(files) \subseteq fs
      /\ \A file \in fs :
            \/ file \in ToSet(files)
            \/ \A use \in file.uses :
                  \/ \E e \in entities : use = Uses("entity", schema.messages[e].name)
                  \/ \E s \in ToSet(schema.services) :
                        \/ use = Uses("handler", Ident(s.name, "Handler"))
                        \/ use = Uses("usecase", Ident(s.name, "Usecase"))
  BY ProjectEmitted
<1> HIDE DEF fs
<1>3. \A s \in ToSet(schema.services) : Served(s.name, fs)
  <2> DEFINE ss == schema.services
             n == at.service
  <2>1. ss \in Seq(ToSet(ss)) /\ n > Len(ss)
    BY <1>1, MethodsTyped
  <2>2. n \in Nat
    BY <1>1 DEF Positions
  <2> HIDE DEF ss, n
  <2>3. \A k \in DOMAIN ss : k \in 1..(n - 1)
    BY <2>1, <2>2
  <2>4. \A s \in ToSet(schema.services) : \E k \in 1..(at.service - 1) :
            k \in DOMAIN schema.services /\ s = schema.services[k]
    BY <2>3 DEF ToSet, ss, n
  <2>5. \A s \in ToSet(schema.services) : Served(s.name, ToSet(files))
    BY <2>4 DEF DInv
  <2> QED BY <1>2, <2>5, SettledMore
<1>4. ASSUME NEW e \in entities
      PROVE  ToSet(EntityFiles(e)) \subseteq fs
             /\ Settled(Uses("entity", schema.messages[e].name), fs)
  <2>1. ToSet(EntityFiles(e)) \subseteq fs
    BY <1>1, <1>2 DEF DInv
  <2>2. \A u : Settled(u, ToSet(EntityFiles(e))) => Settled(u, fs)
    BY <2>1, SettledMore
  <2> QED BY <2>1, <2>2, EntityFilesAre
<1>5. ASSUME NEW file \in fs, NEW use \in file.uses PROVE Settled(use, fs)
  <2>1. CASE file \in ToSet(files)
    BY <1>2, <1>5, <2>1, SettledMore DEF DInv
  <2>2. CASE file \notin ToSet(files)
    BY <1>2, <1>3, <1>4, <1>5, <2>2 DEF Served
  <2> QED BY <2>1, <2>2
<1>6. \A k \in 1..(at'.service - 1) :
          k \in DOMAIN schema.services => Served(schema.services[k].name, fs)
  BY <1>1, <1>2, SettledMore DEF DInv
<1>7. entities' \subseteq ToSet(schema.order)
  BY <1>1 DEF DInv
<1> QED BY <1>1, <1>2, <1>4, <1>5, <1>6, <1>7, DeclaresInv DEF fs

LEMMA StepDeclares == TInv /\ EInv /\ DInv /\ [Next]_vars => DInv'
<1> SUFFICES ASSUME TInv, EInv, DInv, [Next]_vars PROVE DInv'
  OBVIOUS
<1>1. CASE BuildMethod
  <2>1. at'.service = at.service
    BY <1>1 DEF BuildMethod, TInv, Typed, Positions
  <2> QED BY <1>1, <2>1, KeptDeclares DEF BuildMethod
<1>2. CASE ResolveName
  BY <1>2, KeptDeclares DEF ResolveName
<1>3. CASE CollectTypes
  BY <1>3, KeptDeclares DEF CollectTypes
<1>4. CASE EnterSearch
  BY <1>4, KeptDeclares DEF EnterSearch
<1>5. CASE SearchField
  BY <1>5, KeptDeclares DEF SearchField, Calling
<1>6. CASE ReturnFalse
  BY <1>6, KeptDeclares DEF ReturnFalse
<1>7. CASE UNCHANGED vars
  BY <1>7, KeptDeclares DEF vars
<1> QED
  BY <1>1, <1>2, <1>3, <1>4, <1>5, <1>6, <1>7, ParseDeclares, EntitiesDeclare,
     ServiceDeclares, ProjectDeclares DEF Next

(* Whatever the files say, every name that a generated file takes from a      *)
(* package is declared in that package by a generated file: no layer of an    *)
(* entity, and no file of a service, refers to what another one leaves out.   *)
THEOREM GeneratedNamesAreDeclared == Spec => []EveryNameDeclared
<1>1. Init => TInv /\ IInv /\ EInv /\ DInv
  BY InitTyped, InitApart, InitEmits, InitDeclares
<1>2. (TInv /\ IInv /\ EInv /\ DInv) /\ [Next]_vars => (TInv /\ IInv /\ EInv /\ DInv)'
  BY StepTyped, StepKeepsApart, StepEmits, StepDeclares
<1>3. DInv => EveryNameDeclared
  <2> SUFFICES ASSUME DInv, NEW file \in ToSet(files), NEW use \in file.uses
               PROVE  \/ use.package \in {"strings", "errors", "strconv"}
                      \/ use.name = Ident("enum", "")
                      \/ use.name \in {d.name : d \in DeclaredIn(use.package)}
    BY DEF EveryNameDeclared
  <2>1. Settled(use, ToSet(files))
    BY DEF DInv
  <2>2. ASSUME NEW f \in ToSet(files), f.package = use.package, NEW d \in f.declares
        PROVE  d \in DeclaredIn(use.package)
    BY <2>2 DEF DeclaredIn, Generated
  <2> QED BY <2>1, <2>2 DEF Settled
<1> QED
  BY <1>1, <1>2, <1>3, PTL DEF Spec

----------------------------------------------------------------------------
(* The imports of a service's files are the packages the files mention.    *)

Imported(file) ==
    /\ file.imports \cup {"entity"} = Mentions(file) \cup {"entity"}
    /\ file.package = "usecase" => file.imports \subseteq Mentions(file)
    /\ EntitiesInSight => file.imports = Mentions(file)
MInv == \A file \in ToSet(files) : file.package \in {"usecase", "handler"} => Imported(file)

LEMMA HasEntityIs ==
    ASSUME NEW fs
    PROVE  HasEntity(fs) <=> \E f \in ToSet(fs) : IsMessage(f) /\ f.msg \in entities
BY DEF HasEntity, ToSet

LEMMA ReachChildren ==
    ASSUME schema \in Schemas, NEW from \in SUBSET Known
    PROVE  from \subseteq Reach(Children, from)
           /\ \A n \in Reach(Children, from) : Children(n) \subseteq Reach(Children, from)
<1> DEFINE R == Reach(Children, from)
<1>1. R = {x \in Known : \A S \in SUBSET Known :
                from \subseteq S /\ (\A n \in S : Children(n) \subseteq S) => x \in S}
  BY DEF Reach, Known
<1> HIDE DEF R
<1>2. from \subseteq R
  BY <1>1
<1>3. ASSUME NEW n \in R, NEW c \in Children(n) PROVE c \in R
  <2>1. n \in Known /\ c \in Known
    BY <1>1, ChildrenKnown
  <2>2. ASSUME NEW S \in SUBSET Known, from \subseteq S, \A k \in S : Children(k) \subseteq S
        PROVE  c \in S
    <3>1. n \in S
      BY <1>1, <2>2
    <3> QED BY <2>2, <3>1
  <2> QED BY <1>1, <2>1, <2>2
<1> QED BY <1>2, <1>3 DEF R

(* What a service emits is reached from one of its methods. *)
LEMMA EmittedReached ==
    ASSUME TInv, EInv, Built, NEW n \in Range(types)
    PROVE  \E m \in Methods :
              \/ n \in Reach(Children, Children(m.input))
              \/ ReturnsOutput(m) /\ n \in Reach(Children, {m.output})
<1> DEFINE In(m) == Reach(Children, Children(m.input))
           Out(m) == Reach(Children, {m.output})
           X == {x \in Known : \E m \in Methods : x \in In(m) \/ (ReturnsOutput(m) /\ x \in Out(m))}
<1>1. /\ VisitedMethods = Methods /\ schema \in Schemas
      /\ \A m \in Methods : m.input \in Known /\ m.output \in Known
  BY AllVisited
<1>2. ASSUME NEW m \in Methods
      PROVE  /\ Children(m.input) \subseteq In(m) /\ m.output \in Out(m)
             /\ \A x \in In(m) : Children(x) \subseteq In(m)
             /\ \A x \in Out(m) : Children(x) \subseteq Out(m)
             /\ Children(m.input) \subseteq Known /\ Children(m.output) \subseteq Known
  <2>1. Children(m.input) \in SUBSET Known /\ {m.output} \in SUBSET Known
    BY <1>1, ChildrenKnown
  <2>2. Children(m.output) \subseteq Known
    BY <1>1, ChildrenKnown
  <2> QED BY <1>1, <2>1, <2>2, ReachChildren
<1> HIDE DEF In, Out
<1>3. Roots \subseteq X
  BY <1>1, <1>2 DEF Roots, Rooted
<1>4. ASSUME NEW x \in X PROVE Children(x) \subseteq X
  <2>1. Children(x) \subseteq Known
    BY <1>1, ChildrenKnown
  <2> QED BY <1>2, <2>1
<1>5. X \in SUBSET Known /\ Closed(X, Roots)
  BY <1>3, <1>4 DEF Closed
<1>6. n \in X
  BY <1>5, BuiltEmits
<1> QED BY <1>6 DEF In, Out

LEMMA BuiltSearches ==
    ASSUME TInv, SInv, Built
    PROVE  usesEntity <=> \E m \in Methods : WithEntity(m)
<1>1. VisitedMethods = Methods /\ Asked(agenda, "search") = {} /\ usesEntity \in BOOLEAN
  BY AllVisited, NoSearch DEF Built, TInv, Typed
<1> QED BY <1>1 DEF SInv

(* AnyUsesEntity, by the structs the usecase file spells out. *)
LEMMA EntityIsSpelled ==
    ASSUME TInv, EInv, SInv, Built
    PROVE  /\ usesEntity => \E n \in Structs : HasEntity(Fields(n))
           /\ EntitiesInSight /\ (\E n \in Structs : HasEntity(Fields(n))) => usesEntity
<1>1. /\ schema \in Schemas /\ pc = "services"
      /\ \A m \in Methods : m.input \in Known /\ m.output \in Known
      /\ Range(types) \in SUBSET Known
  BY AllVisited, BuiltEmits DEF Built
<1>2. ASSUME usesEntity, \A n \in Structs : ~HasEntity(Fields(n)) PROVE FALSE
  <2>1. PICK m \in Methods : WithEntity(m)
    BY <1>2, BuiltSearches
  <2>2. m.input \in Structs /\ (ReturnsOutput(m) => m.output \in Structs)
    BY DEF Structs
  <2>3. ReturnsOutput(m) /\ ~Clean(m.output)
    BY <1>2, <2>1, <2>2 DEF WithEntity
  <2>4. Structs \in SUBSET Known
    BY <1>1 DEF Structs
  <2>5. \A n \in Structs : PlainChildren(n) \subseteq Structs
    <3>1. \A n : PlainChildren(n) \subseteq Children(n)
      BY DEF PlainChildren, Children
    <3> QED BY <3>1, StructsAreEmitted DEF Structs
  <2>6. Clean(m.output)
    BY <1>2, <2>2, <2>3, <2>4, <2>5 DEF Clean
  <2> QED BY <2>3, <2>6
<1>3. ASSUME EntitiesInSight, NEW n \in Structs, HasEntity(Fields(n)) PROVE usesEntity
  <2>1. schema.services[at.service] \in ToSet(schema.services)
    <3> DEFINE ss == schema.services
    <3>1. ss \in Seq(ToSet(ss)) /\ at.service \in Nat \ {0} /\ at.service <= Len(ss)
      BY <1>1, MethodsTyped DEF TInv, Typed, Positions, Built
    <3> HIDE DEF ss
    <3>2. ss[at.service] \in ToSet(ss)
      BY <3>1 DEF ToSet
    <3> QED BY <3>2 DEF ss
  <2>2. ASSUME NEW m \in Methods
        PROVE  /\ \A k \in Reach(Children, Children(m.input)) : ~HasEntity(Fields(k))
               /\ \A k \in Reach(Children, {m.output}) :
                     ReturnsOutput(m) /\ HasEntity(Fields(k)) => k \in Reach(PlainChildren, {m.output})
    BY <1>3, <2>1 DEF EntitiesInSight, Methods
  <2>3. \E m \in Methods : WithEntity(m)
    <3>1. CASE \E m \in Methods : n = m.input
      BY <1>3, <3>1 DEF WithEntity
    <3>2. CASE \E m \in Methods : ReturnsOutput(m) /\ n = m.output
      BY <1>3, <3>2, CleanDown DEF WithEntity
    <3>3. CASE n \in Range(types)
      <4>1. PICK m \in Methods : \/ n \in Reach(Children, Children(m.input))
                                 \/ ReturnsOutput(m) /\ n \in Reach(Children, {m.output})
        BY <3>3, EmittedReached
      <4>2. ReturnsOutput(m) /\ n \in Reach(PlainChildren, {m.output})
        BY <1>3, <2>2, <4>1
      <4>3. ~Clean(m.output)
        BY <1>1, <1>3, <4>2, CleanIsReach
      <4> QED BY <4>2, <4>3 DEF WithEntity
    <3> QED BY <3>1, <3>2, <3>3 DEF Structs
  <2> QED BY <2>3, BuiltSearches
<1> QED BY <1>2, <1>3

LEMMA TypesTaken ==
    ASSUME NEW package, NEW f, Spells(f)
    PROVE  /\ TypeOf(package, f).package \in {package, "entity", "usecase"}
           /\ package # "entity" => (TypeOf(package, f).package = "entity"
                                       <=> IsMessage(f) /\ f.msg \in entities)
BY DEF TypeOf, Uses

LEMMA UsecaseImports ==
    ASSUME TInv, EInv, SInv, Built
    PROVE  Imported(UsecaseFile)
<1> DEFINE file == UsecaseFile
           spelled == \E n \in Structs : HasEntity(Fields(n))
           replied == Replies # {}
<1>1. /\ file.package = "usecase"
      /\ \A x : x \in file.imports <=> (usesEntity /\ x = "entity") \/ (replied /\ x = "dto")
  <2>1. file.package = "usecase" /\ file.imports = When(usesEntity, "entity") \cup When(replied, "dto")
    BY UsecaseFileIs
  <2> HIDE DEF file, replied
  <2> QED BY <2>1, WhenIs
<1>2. \A use : use \in file.uses <=>
          \/ \E m \in Structs : \E f \in ToSet(Fields(m)) : Spells(f) /\ use = TypeOf("usecase", f)
          \/ \E e \in Replies : use = Uses("dto", As(e, "DTO"))
  BY UsecaseFileIs
<1> HIDE DEF file
<1>3. \A x : x \in Mentions(file) <=> x # "usecase" /\ \E use \in file.uses : use.package = x
  BY <1>1 DEF Mentions
<1>4. ASSUME NEW x \in Mentions(file)
      PROVE  (spelled /\ x = "entity") \/ (replied /\ x = "dto")
  <2>1. PICK use \in file.uses : use.package = x /\ x # "usecase"
    BY <1>3
  <2>2. CASE \E m \in Structs : \E f \in ToSet(Fields(m)) : Spells(f) /\ use = TypeOf("usecase", f)
    <3>0. PICK m \in Structs : \E f \in ToSet(Fields(m)) : Spells(f) /\ use = TypeOf("usecase", f)
      BY <2>2
    <3>1. PICK f \in ToSet(Fields(m)) : Spells(f) /\ use = TypeOf("usecase", f)
      BY <3>0
    <3>2. x = "entity" /\ IsMessage(f) /\ f.msg \in entities
      BY <2>1, <3>1, TypesTaken
    <3> QED BY <3>1, <3>2, HasEntityIs
  <2>3. CASE \E e \in Replies : use = Uses("dto", As(e, "DTO"))
    BY <2>1, <2>3 DEF Uses
  <2> QED BY <1>2, <2>1, <2>2, <2>3
<1>5. spelled => "entity" \in Mentions(file)
  <2> SUFFICES ASSUME spelled PROVE "entity" \in Mentions(file)
    OBVIOUS
  <2>0. PICK m \in Structs : HasEntity(Fields(m))
    OBVIOUS
  <2>1. PICK f \in ToSet(Fields(m)) : IsMessage(f) /\ f.msg \in entities
    BY <2>0, HasEntityIs
  <2>2. Spells(f) /\ TypeOf("usecase", f).package = "entity"
    BY <2>1, TypesTaken DEF Spells
  <2>3. TypeOf("usecase", f) \in file.uses
    BY <1>2, <2>1, <2>2
  <2> QED BY <1>3, <2>2, <2>3
<1>6. replied => "dto" \in Mentions(file)
  <2> SUFFICES ASSUME replied PROVE "dto" \in Mentions(file)
    OBVIOUS
  <2>1. PICK e \in Replies : TRUE
    OBVIOUS
  <2>2. Uses("dto", As(e, "DTO")) \in file.uses
    BY <1>2, <2>1
  <2>3. Uses("dto", As(e, "DTO")).package = "dto"
    BY DEF Uses
  <2> QED BY <1>3, <2>2, <2>3
<1>7. (usesEntity => spelled) /\ (EntitiesInSight /\ spelled => usesEntity)
  BY EntityIsSpelled
<1> HIDE DEF spelled, replied
<1>8. \A x : x \in Mentions(file) <=> (spelled /\ x = "entity") \/ (replied /\ x = "dto")
  BY <1>4, <1>5, <1>6
<1>9. file.imports \subseteq Mentions(file) /\ Mentions(file) \subseteq file.imports \cup {"entity"}
  BY <1>1, <1>7, <1>8
<1>10. EntitiesInSight => file.imports = Mentions(file)
  <2> SUFFICES ASSUME EntitiesInSight PROVE Mentions(file) \subseteq file.imports
    BY <1>9
  <2> QED BY <1>1, <1>7, <1>8
<1> QED BY <1>9, <1>10 DEF Imported, file

LEMMA HandlerImports ==
    ASSUME TInv, Built
    PROVE  Imported(HandlerFile)
<1> DEFINE file == HandlerFile
           given == \E m \in Methods : HasEntity(Fields(m.input))
           spelled == \E m \in Methods : \E f \in BodyFields(m) : IsMessage(f) /\ f.msg \in entities
           replied == Replies # {}
           errors == Uses("errors", Ident("Is", ""))
           atoi == Uses("strconv", Ident("Atoi", ""))
           Rest(x) == \/ x = "usecase" \/ (replied /\ x \in {"errors", "repository"})
                      \/ (Parses /\ x = "strconv")
<1>1. /\ file.package = "handler"
      /\ \A x : x \in file.imports <=> (given /\ x = "entity") \/ Rest(x)
  <2>1. /\ file.package = "handler"
        /\ file.imports = When(given, "entity")
              \cup (IF replied THEN {"errors", "repository"} ELSE {})
              \cup When(Parses, "strconv") \cup {"usecase"}
    BY HandlerFileIs
  <2> HIDE DEF file, given, replied
  <2>2. \A x : x \in (IF replied THEN {"errors", "repository"} ELSE {})
               <=> replied /\ x \in {"errors", "repository"}
    OBVIOUS
  <2>3. \A x, p, y : x \in When(p, y) <=> p /\ x = y
    BY WhenIs
  <2> QED BY <2>1, <2>2, <2>3
<1>2. \A use : use \in file.uses <=>
          \/ \E m \in Methods : \E f \in BodyFields(m) : Spells(f) /\ use = TypeOf("handler", f)
          \/ \E m \in Methods : m.verb # "none" /\ use = Uses("usecase", Ident(m.name, "Input"))
          \/ use = Uses("usecase", Ident(Service, "Usecase"))
          \/ \E e \in Replies : use = Uses("repository", As(e, "NotFound"))
          \/ replied /\ use = errors
          \/ Parses /\ use = atoi
  BY HandlerFileIs
<1>3. errors.package = "errors" /\ atoi.package = "strconv"
      /\ \A p, x : Uses(p, x).package = p
  BY DEF Uses
<1> HIDE DEF file, errors, atoi
<1>4. \A x : x \in Mentions(file) <=> x # "handler" /\ \E use \in file.uses : use.package = x
  BY <1>1 DEF Mentions
<1>5. ASSUME NEW x \in Mentions(file)
      PROVE  (spelled /\ x = "entity") \/ Rest(x)
  <2>1. PICK use \in file.uses : use.package = x /\ x # "handler"
    BY <1>4
  <2>2. CASE \E m \in Methods : \E f \in BodyFields(m) : Spells(f) /\ use = TypeOf("handler", f)
    <3>0. PICK m \in Methods : \E f \in BodyFields(m) : Spells(f) /\ use = TypeOf("handler", f)
      BY <2>2
    <3>1. PICK f \in BodyFields(m) : Spells(f) /\ use = TypeOf("handler", f)
      BY <3>0
    <3>2. x = "usecase" \/ (x = "entity" /\ IsMessage(f) /\ f.msg \in entities)
      BY <2>1, <3>1, TypesTaken
    <3> QED BY <3>1, <3>2
  <2>3. CASE \/ \E m \in Methods : use = Uses("usecase", Ident(m.name, "Input"))
             \/ use = Uses("usecase", Ident(Service, "Usecase"))
    BY <1>3, <2>1, <2>3
  <2>4. CASE \E e \in Replies : use = Uses("repository", As(e, "NotFound"))
    BY <1>3, <2>1, <2>4
  <2>5. CASE (replied /\ use = errors) \/ (Parses /\ use = atoi)
    BY <1>3, <2>1, <2>5
  <2> QED BY <1>2, <2>1, <2>2, <2>3, <2>4, <2>5
<1>6. spelled => "entity" \in Mentions(file)
  <2> SUFFICES ASSUME spelled PROVE "entity" \in Mentions(file)
    OBVIOUS
  <2>0. PICK m \in Methods : \E f \in BodyFields(m) : IsMessage(f) /\ f.msg \in entities
    OBVIOUS
  <2>1. PICK f \in BodyFields(m) : IsMessage(f) /\ f.msg \in entities
    BY <2>0
  <2>2. Spells(f) /\ TypeOf("handler", f).package = "entity"
    BY <2>1, TypesTaken DEF Spells
  <2>3. TypeOf("handler", f) \in file.uses
    BY <1>2, <2>1, <2>2
  <2> QED BY <1>4, <2>2, <2>3
<1>7. ASSUME NEW x, Rest(x) PROVE x \in Mentions(file)
  <2>1. CASE x = "usecase"
    <3>1. Uses("usecase", Ident(Service, "Usecase")) \in file.uses
      BY <1>2
    <3> QED BY <1>3, <1>4, <2>1, <3>1
  <2>2. CASE replied /\ x = "errors"
    BY <1>2, <1>3, <1>4, <2>2
  <2>3. CASE replied /\ x = "repository"
    <3>1. PICK e \in Replies : TRUE
      BY <2>3
    <3>2. Uses("repository", As(e, "NotFound")) \in file.uses
      BY <1>2, <3>1
    <3> QED BY <1>3, <1>4, <2>3, <3>2
  <2>4. CASE Parses /\ x = "strconv"
    BY <1>2, <1>3, <1>4, <2>4
  <2> QED BY <1>7, <2>1, <2>2, <2>3, <2>4
<1>8. spelled => given
  BY HasEntityIs DEF BodyFields
<1>9. EntitiesInSight /\ given => spelled
  <2> SUFFICES ASSUME EntitiesInSight, NEW m \in Methods, HasEntity(Fields(m.input)) PROVE spelled
    OBVIOUS
  <2>1. schema.services[at.service] \in ToSet(schema.services)
    <3> DEFINE ss == schema.services
    <3>1. ss \in Seq(ToSet(ss)) /\ at.service \in Nat \ {0} /\ at.service <= Len(ss)
      BY MethodsTyped DEF TInv, Typed, Positions, Built
    <3> HIDE DEF ss
    <3>2. ss[at.service] \in ToSet(ss)
      BY <3>1 DEF ToSet
    <3> QED BY <3>2 DEF ss
  <2>2. \E f \in BodyFields(m) : IsMessage(f) /\ f.msg \in entities
    BY <2>1 DEF EntitiesInSight, Methods
  <2> QED BY <2>2
<1> HIDE DEF spelled, given, Rest
<1>10. \A x : x \in Mentions(file) <=> (spelled /\ x = "entity") \/ Rest(x)
  BY <1>5, <1>6, <1>7
<1>11. file.imports \cup {"entity"} = Mentions(file) \cup {"entity"}
  BY <1>1, <1>10
<1>12. EntitiesInSight => file.imports = Mentions(file)
  <2> SUFFICES ASSUME EntitiesInSight PROVE \A x : x \in file.imports <=> x \in Mentions(file)
    OBVIOUS
  <2> QED BY <1>1, <1>8, <1>9, <1>10
<1> QED BY <1>1, <1>11, <1>12 DEF Imported, file

LEMMA ImportedKept ==
    ASSUME schema' = schema, entities' = entities
    PROVE  \A file : Imported(file)' <=> Imported(file)
<1>1. EntitiesInSight' <=> EntitiesInSight
  BY DEF EntitiesInSight, HasEntity, BodyFields, FromPath, Reach, Children, PlainChildren,
         Fields, ToNonEntity, IsMessage, ReturnsOutput, ReturnsDTO
<1> QED BY <1>1 DEF Imported, Mentions

LEMMA StepImports == TInv /\ EInv /\ SInv /\ DInv /\ MInv /\ [Next]_vars => MInv'
<1> SUFFICES ASSUME TInv, EInv, SInv, DInv, MInv, [Next]_vars PROVE MInv'
  OBVIOUS
<1>1. CASE ParseEntity
  <2>1. files' = <<>>
    BY <1>1 DEF ParseEntity, TInv, Fresh
  <2> QED BY <2>1, NoFiles DEF MInv, ToSet
<1>2. ASSUME UNCHANGED <<schema, entities>>,
             \A file \in ToSet(files') :
                \/ file \in ToSet(files)
                \/ file.package \notin {"usecase", "handler"}
                \/ Imported(file)
      PROVE  MInv'
  <2>1. \A file \in ToSet(files') : file.package \in {"usecase", "handler"} => Imported(file)
    BY <1>2 DEF MInv
  <2>2. \A file : Imported(file)' <=> Imported(file)
    BY <1>2, ImportedKept
  <2>3. \A file \in ToSet(files') : file.package \in {"usecase", "handler"} => Imported(file)'
    BY <2>1, <2>2
  <2> QED BY <2>3 DEF MInv, ToSet
<1>3. CASE UNCHANGED <<schema, entities, files>>
  BY <1>2, <1>3
<1>4. CASE EmitService
  <2>1. Built /\ files' = files \o <<UsecaseFile, HandlerFile>> /\ UNCHANGED <<schema, entities>>
    BY <1>4 DEF EmitService, Built
  <2> DEFINE U == UsecaseFile
             H == HandlerFile
             new == <<U, H>>
  <2>2. Imported(U) /\ Imported(H)
    BY <2>1, UsecaseImports, HandlerImports
  <2>3. files' = files \o new
    BY <2>1
  <2> HIDE DEF U, H
  <2>4. ToSet(new) = {U, H} /\ new \in Seq({U, H})
    BY DEF ToSet
  <2>5. new \in Seq(ToSet(new))
    BY <2>4
  <2> HIDE DEF new
  <2>6. ToSet(files') = ToSet(files) \cup {U, H}
    BY <2>3, <2>4, <2>5, FilesJoin DEF DInv
  <2> QED BY <1>2, <2>1, <2>2, <2>6
<1>5. CASE EmitEntities
  <2>1. /\ UNCHANGED <<schema, entities>>
        /\ \A file \in ToSet(files') : \E e \in entities : file \in ToSet(EntityFiles(e))
    BY <1>5, EntitiesEmitted DEF EmitEntities
  <2>2. \A file \in ToSet(files') : file.package \notin {"usecase", "handler"}
    BY <2>1, EntityFilesAre
  <2> QED BY <1>2, <2>1, <2>2
<1>6. CASE EmitProject
  <2>1. UNCHANGED <<schema, entities>>
    BY <1>6 DEF EmitProject
  <2>2. \A file \in ToSet(files') : file \in ToSet(files) \/ file.package \in {"entity", "di"}
    BY <1>6, ProjectEmitted
  <2> QED BY <1>2, <2>1, <2>2
<1>7. CASE BuildMethod \/ ResolveName \/ CollectTypes \/ EnterSearch \/ SearchField \/ ReturnFalse
  BY <1>3, <1>7 DEF BuildMethod, ResolveName, CollectTypes, EnterSearch, SearchField, ReturnFalse
<1> QED BY <1>1, <1>3, <1>4, <1>5, <1>6, <1>7 DEF Next, vars

(* The files of a service import the packages they mention: exactly these,    *)
(* where the schema puts entities in sight of AnyUsesEntity (main.go:665-735); *)
(* elsewhere only the import of entity can be wrong, and a usecase file has    *)
(* it only if it mentions an entity.                                           *)
THEOREM ImportsFollowUse == Spec => []ImportsAreMentions
<1>1. Init => TInv /\ IInv /\ EInv /\ SInv /\ DInv /\ MInv
  <2>1. Init => MInv
    BY NoFiles DEF Init, MInv
  <2> QED BY <2>1, InitTyped, InitApart, InitEmits, InitSearch, InitDeclares
<1>2. (TInv /\ IInv /\ EInv /\ SInv /\ DInv /\ MInv) /\ [Next]_vars
      => (TInv /\ IInv /\ EInv /\ SInv /\ DInv /\ MInv)'
  BY StepTyped, StepKeepsApart, StepEmits, StepSearch, StepDeclares, StepImports
<1>3. MInv => ImportsAreMentions
  BY DEF MInv, ImportsAreMentions, Imported, Generated
<1> QED
  BY <1>1, <1>2, <1>3, PTL DEF Spec

----------------------------------------------------------------------------
(* The handlers: how a request is put together from path, body and query.  *)

Routed(s) == {m \in ToSet(s.methods) : m.verb # "none"}
Answers(file, s) ==
    /\ file.path = <<"handler", Ident(s.name, "")>>
    /\ file.reads = UNION {Reads(m) : m \in Routed(s)}

RInv ==
    /\ \A file \in ToSet(files) :
          file.package = "handler" => \E s \in ToSet(schema.services) : Answers(file, s)
    /\ \A k \in 1..(at.service - 1) : k \in DOMAIN schema.services =>
          \E file \in ToSet(files) : file.package = "handler" /\ Answers(file, schema.services[k])
    /\ pc = "done" => at.service > Len(schema.services)

Read(m, f, from, kind) == [rpc |-> m.name, field |-> f.name, from |-> from, kind |-> kind]
Parsed(m, f) == f.shape = "one" /\ f.kind \in {"string", "bool", "int", "uint"}
ReadFrom(m, f, r) ==
    \/ FromPath(m, f) /\ r = Read(m, f, "path", "string")
    \/ m.verb = "body" /\ ~FromPath(m, f) /\ r = Read(m, f, "body", f.kind)
    \/ /\ m.verb = "query" /\ ~FromPath(m, f) /\ Parsed(m, f)
       /\ r = Read(m, f, "query", IF f.kind = "uint" THEN "int" ELSE f.kind)

LEMMA ReadsAre ==
    ASSUME NEW m
    PROVE  \A r : r \in Reads(m) <=> \E f \in ToSet(Fields(m.input)) : ReadFrom(m, f, r)
<1> DEFINE F == ToSet(Fields(m.input))
           query(f) == IF f.kind = "uint" THEN "int" ELSE f.kind
           path == {g \in F : FromPath(m, g)}
           body == {g \in F : m.verb = "body" /\ ~FromPath(m, g)}
           asked == {g \in F : m.verb = "query" /\ ~FromPath(m, g) /\ Parsed(m, g)}
           A == {Read(m, f, "path", "string") : f \in path}
           B == {Read(m, f, "body", f.kind) : f \in body}
           C == {Read(m, f, "query", query(f)) : f \in asked}
<1>1. Reads(m) = A \cup B \cup C
  <2>1. \A f : /\ m.verb = "query" /\ ~FromPath(m, f) /\ f.shape = "one"
               /\ f.kind \in {"string", "bool", "int", "uint"}
           <=> m.verb = "query" /\ ~FromPath(m, f) /\ Parsed(m, f)
    BY DEF Parsed
  <2> QED BY <2>1 DEF Reads, Read, BodyFields, Parsed
<1>2. \A r : r \in A <=> \E f \in F : FromPath(m, f) /\ r = Read(m, f, "path", "string")
  OBVIOUS
<1>3. \A r : r \in B <=>
          \E f \in F : m.verb = "body" /\ ~FromPath(m, f) /\ r = Read(m, f, "body", f.kind)
  OBVIOUS
<1>4. \A r : r \in C <=>
          \E f \in F : m.verb = "query" /\ ~FromPath(m, f) /\ Parsed(m, f) /\ r = Read(m, f, "query", query(f))
  OBVIOUS
<1> HIDE DEF A, B, C
<1> QED BY <1>1, <1>2, <1>3, <1>4 DEF ReadFrom

(* What the handler of a service reads for one field of one rpc.           *)
LEMMA FieldRead ==
    ASSUME schema \in Schemas, NEW s \in ToSet(schema.services), NEW m \in ToSet(s.methods),
           NEW f \in ToSet(Fields(m.input)), NEW reads,
           \A r : r \in reads <=>
              /\ \E n \in Routed(s) : r \in Reads(n)
              /\ r.rpc = m.name /\ r.field = f.name
    PROVE  \A r : r \in reads <=> m.verb # "none" /\ ReadFrom(m, f, r)
<1>1. /\ \A n \in ToSet(s.methods) : m.name = n.name => m = n
      /\ m.input \in Known
  BY SchemasAssumption DEF Known
<1>2. \A g \in ToSet(Fields(m.input)) : f.name = g.name => f = g
  BY <1>1, SchemasAssumption DEF Known, Fields
<1>3. \A n, g, r : ReadFrom(n, g, r) => r.rpc = n.name /\ r.field = g.name
  BY DEF ReadFrom, Read
<1>4. ASSUME NEW r \in reads PROVE m.verb # "none" /\ ReadFrom(m, f, r)
  <2>1. PICK n \in Routed(s) : r \in Reads(n)
    OBVIOUS
  <2>2. PICK g \in ToSet(Fields(n.input)) : ReadFrom(n, g, r)
    BY <2>1, ReadsAre
  <2>3. n = m
    BY <1>1, <1>3, <2>2 DEF Routed
  <2>4. g = f
    BY <1>2, <1>3, <2>2, <2>3
  <2> QED BY <2>2, <2>3, <2>4 DEF Routed
<1>5. ASSUME NEW r, m.verb # "none", ReadFrom(m, f, r) PROVE r \in reads
  <2>1. r \in Reads(m) /\ m \in Routed(s)
    BY <1>5, ReadsAre DEF Routed
  <2> QED BY <1>3, <1>5, <2>1
<1> QED BY <1>4, <1>5

LEMMA OneRead ==
    ASSUME NEW reads, NEW x, \A r : r \in reads <=> r = x
    PROVE  Cardinality(reads) = 1
<1>1. reads = {x}
  OBVIOUS
<1> QED BY <1>1, FS_Singleton

(* Every field of a request is read once and with its type, but for those   *)
(* that RequestsRead excepts.                                              *)
LEMMA FieldFilled ==
    ASSUME schema \in Schemas, NEW s \in ToSet(schema.services), NEW m \in ToSet(s.methods),
           NEW f \in ToSet(Fields(m.input)), NEW reads,
           \A r : r \in reads <=> m.verb # "none" /\ ReadFrom(m, f, r)
    PROVE  \/ Cardinality(reads) = 1 /\ \A r \in reads : r.kind = f.kind
           \/ m.verb = "none" /\ reads = {}
           \/ m.verb # "body" /\ (f.shape # "one" \/ f.kind \in {"uint", "enum", "message"})
           \/ f.name \in m.params /\ (f.shape # "one" \/ f.kind # "string")
<1>1. m.verb \in {"body", "query", "none"} /\ m.input \in Known
  BY SchemasAssumption DEF Known
<1>2. f.kind \in {"string", "bool", "int", "uint", "enum", "message"}
  BY <1>1, SchemasAssumption DEF Known, Fields
<1>3. \A from, kind : Read(m, f, from, kind).kind = kind
  BY DEF Read
<1>4. CASE m.verb = "none"
  BY <1>4
<1>5. CASE m.verb # "none" /\ FromPath(m, f)
  <2>1. \A r : r \in reads <=> r = Read(m, f, "path", "string")
    BY <1>5 DEF ReadFrom
  <2>2. Cardinality(reads) = 1
    BY <2>1, OneRead
  <2>3. \A r \in reads : r.kind = "string"
    BY <1>3, <2>1
  <2>4. CASE f.kind = "string"
    BY <2>2, <2>3, <2>4
  <2>5. CASE f.kind # "string"
    BY <1>5, <2>5 DEF FromPath
  <2> QED BY <2>4, <2>5
<1>6. CASE m.verb = "body" /\ ~FromPath(m, f)
  <2>1. \A r : r \in reads <=> r = Read(m, f, "body", f.kind)
    BY <1>6 DEF ReadFrom
  <2>2. Cardinality(reads) = 1
    BY <2>1, OneRead
  <2> QED BY <1>3, <2>1, <2>2
<1>7. CASE m.verb = "query" /\ ~FromPath(m, f)
  <2>1. CASE f.shape # "one" \/ f.kind \in {"uint", "enum", "message"}
    BY <1>7, <2>1
  <2>2. CASE f.shape = "one" /\ f.kind \notin {"uint", "enum", "message"}
    <3>1. Parsed(m, f) /\ f.kind # "uint"
      BY <1>2, <2>2 DEF Parsed
    <3> DEFINE x == Read(m, f, "query", f.kind)
    <3>2. \A r : r \in reads <=> r = x
      BY <1>7, <3>1 DEF ReadFrom
    <3>3. x.kind = f.kind
      BY <1>3
    <3> HIDE DEF x
    <3>4. reads = {x}
      BY <3>2
    <3>5. Cardinality(reads) = 1
      BY <3>4, FS_Singleton
    <3> QED BY <3>2, <3>3, <3>5
  <2> QED BY <2>1, <2>2
<1> QED BY <1>1, <1>4, <1>5, <1>6, <1>7

LEMMA HandlerAnswers ==
    /\ HandlerFile.package = "handler"
    /\ Answers(HandlerFile, schema.services[at.service])
    /\ UsecaseFile.package = "usecase"
<1>1. HandlerFile.path = <<"handler", Ident(schema.services[at.service].name, "")>>
  BY HandlerFileIs DEF Service
<1>2. HandlerFile.reads = UNION {Reads(m) : m \in Routed(schema.services[at.service])}
  <2>1. Routed(schema.services[at.service]) = {n \in Methods : n.verb # "none"}
    BY DEF Routed, Methods
  <2> QED BY <2>1, HandlerFileIs
<1> QED BY <1>1, <1>2, HandlerFileIs, UsecaseFileIs DEF Answers

LEMMA AnswersKept ==
    ASSUME schema' = schema
    PROVE  \A file, s : Answers(file, s)' <=> Answers(file, s)
<1>1. \A m : Reads(m)' = Reads(m)
  BY DEF Reads, BodyFields, FromPath, Fields
<1>2. \A s : Routed(s)' = Routed(s)
  BY DEF Routed
<1> QED BY <1>1, <1>2 DEF Answers

(* The parts of RInv, where the values of the variables are given.         *)
LEMMA AnswersInv ==
    ASSUME schema' = schema,
           \A file \in ToSet(files') :
              file.package = "handler" => \E s \in ToSet(schema.services) : Answers(file, s),
           \A k \in 1..(at'.service - 1) : k \in DOMAIN schema.services =>
              \E file \in ToSet(files') :
                 file.package = "handler" /\ Answers(file, schema.services[k]),
           pc' = "done" => at'.service > Len(schema.services)
    PROVE  RInv'
<1>1. \A file, s : Answers(file, s)' <=> Answers(file, s)
  BY AnswersKept
<1>2. (\A file \in ToSet(files) :
          file.package = "handler" => \E s \in ToSet(schema.services) : Answers(file, s))'
  BY <1>1 DEF ToSet
<1>3. (\A k \in 1..(at.service - 1) : k \in DOMAIN schema.services =>
          \E file \in ToSet(files) : file.package = "handler" /\ Answers(file, schema.services[k]))'
  BY <1>1 DEF ToSet
<1>4. (pc = "done" => at.service > Len(schema.services))'
  OBVIOUS
<1> QED BY <1>2, <1>3, <1>4 DEF RInv

LEMMA StepAnswers == TInv /\ DInv /\ RInv /\ [Next]_vars => RInv'
<1> SUFFICES ASSUME TInv, DInv, RInv, [Next]_vars PROVE RInv'
  OBVIOUS
<1>1. ASSUME UNCHANGED <<schema, files>>, at'.service = at.service, pc' # "done" \/ pc' = pc
      PROVE  RInv'
  BY <1>1, AnswersInv DEF RInv
<1>2. CASE ParseEntity
  <2>1. at'.service = at.service
    BY <1>2 DEF ParseEntity, TInv, Typed, Positions
  <2> QED BY <1>1, <1>2, <2>1 DEF ParseEntity
<1>3. CASE BuildMethod
  <2>1. at'.service = at.service
    BY <1>3 DEF BuildMethod, TInv, Typed, Positions
  <2> QED BY <1>1, <1>3, <2>1 DEF BuildMethod
<1>4. CASE ResolveName \/ CollectTypes \/ EnterSearch \/ SearchField \/ ReturnFalse \/ UNCHANGED vars
  BY <1>1, <1>4 DEF ResolveName, CollectTypes, EnterSearch, SearchField, ReturnFalse, vars
<1>5. CASE EmitEntities
  <2>1. /\ UNCHANGED <<schema, at>> /\ pc' = "services"
        /\ \A file \in ToSet(files') : \E e \in entities : file \in ToSet(EntityFiles(e))
    BY <1>5, EntitiesEmitted DEF EmitEntities
  <2>2. \A file \in ToSet(files') : file.package # "handler"
    BY <2>1, EntityFilesAre
  <2>3. 1..(at'.service - 1) = {}
    BY <1>5, <2>1 DEF EmitEntities, TInv, Fresh
  <2> QED BY <2>1, <2>2, <2>3, AnswersInv
<1>6. CASE EmitService
  <2>1. /\ Built /\ files' = files \o <<UsecaseFile, HandlerFile>>
        /\ UNCHANGED <<schema, pc>> /\ pc = "services"
        /\ at'.service = at.service + 1 /\ at.service \in Nat \ {0}
        /\ at.service <= Len(schema.services)
    BY <1>6 DEF EmitService, Built, TInv, Typed, Positions
  <2> DEFINE U == UsecaseFile
             H == HandlerFile
             new == <<U, H>>
             ss == schema.services
             n == at.service
  <2>2. U.package = "usecase" /\ H.package = "handler" /\ Answers(H, ss[n])
    BY HandlerAnswers
  <2>3. files' = files \o new
    BY <2>1
  <2> HIDE DEF U, H
  <2>4. ToSet(new) = {U, H} /\ new \in Seq({U, H})
    BY DEF ToSet
  <2>5. new \in Seq(ToSet(new))
    BY <2>4
  <2> HIDE DEF new
  <2>6. ToSet(files') = ToSet(files) \cup {U, H}
    BY <2>3, <2>4, <2>5, FilesJoin DEF DInv
  <2>7. ss \in Seq(ToSet(ss))
    BY MethodsTyped DEF TInv, Typed
  <2>8. n \in Nat \ {0} /\ n <= Len(ss)
    BY <2>1
  <2>9. ss[n] \in ToSet(ss)
    <3> HIDE DEF ss, n
    <3> QED BY <2>7, <2>8 DEF ToSet
  <2>10. \A file \in ToSet(files') :
            file.package = "handler" => \E s \in ToSet(ss) : Answers(file, s)
    BY <2>2, <2>6, <2>9 DEF RInv
  <2>11. ASSUME NEW k \in 1..(at'.service - 1), k \in DOMAIN ss
         PROVE  \E file \in ToSet(files') : file.package = "handler" /\ Answers(file, ss[k])
    <3>1. CASE k = n
      BY <2>2, <2>6, <3>1
    <3>2. CASE k # n
      <4>1. k \in 1..(at.service - 1)
        BY <2>1, <2>11, <3>2
      <4> QED BY <2>6, <2>11, <4>1 DEF RInv
    <3> QED BY <3>1, <3>2
  <2> QED BY <2>1, <2>10, <2>11, AnswersInv
<1>7. CASE EmitProject
  <2>1. UNCHANGED <<schema, at>> /\ at.service > Len(schema.services)
    BY <1>7 DEF EmitProject
  <2>2. /\ ToSet(files) \subseteq ToSet(files')
        /\ \A file \in ToSet(files') : file \in ToSet(files) \/ file.package \in {"entity", "di"}
    BY <1>7, ProjectEmitted
  <2> QED BY <2>1, <2>2, AnswersInv DEF RInv
<1> QED BY <1>2, <1>3, <1>4, <1>5, <1>6, <1>7 DEF Next

(* protoc keeps the services of a package apart; the plugin leaves packages  *)
(* out, and names what belongs to a service after it, without "Service".     *)
ServicesApart ==
    \A k, l \in DOMAIN schema.services :
        schema.services[k].name = schema.services[l].name => k = l

(* What a handler that answers a service reads is what its routed rpcs read. *)
LEMMA AnswersAreReads ==
    ASSUME NEW g, NEW s, Answers(g, s)
    PROVE  \A r : r \in g.reads <=> \E n \in Routed(s) : r \in Reads(n)
<1>1. g.reads = UNION {Reads(n) : n \in Routed(s)}
  BY DEF Answers
<1> QED BY <1>1

(* Where services have different names, the handler generated for a service    *)
(* fills every field of a request once, from the path, the body or the query,   *)
(* and with the field's type, apart from the lists, messages, enums and numbers *)
(* that a path or a query does not give (main.go:645-672, 813-840).              *)
THEOREM RequestsAreFilled == Spec => [](ServicesApart => RequestsRead)
<1>1. Init => TInv /\ IInv /\ EInv /\ DInv /\ RInv
  <2>1. ASSUME Init PROVE RInv
    <3>1. files = <<>> /\ pc = "entities" /\ 1..(at.service - 1) = {}
      BY <2>1 DEF Init
    <3> QED BY <3>1, NoFiles DEF RInv
  <2> QED BY <2>1, InitTyped, InitApart, InitEmits, InitDeclares
<1>2. (TInv /\ IInv /\ EInv /\ DInv /\ RInv) /\ [Next]_vars => (TInv /\ IInv /\ EInv /\ DInv /\ RInv)'
  BY StepTyped, StepKeepsApart, StepEmits, StepDeclares, StepAnswers
<1>3. TInv /\ RInv => (ServicesApart => RequestsRead)
  <2> SUFFICES ASSUME TInv, RInv, ServicesApart, pc = "done",
                      NEW s \in ToSet(schema.services), NEW m \in ToSet(s.methods),
                      NEW f \in ToSet(Fields(m.input))
               PROVE  LET reads == {r \in ReadBy(s) : r.rpc = m.name /\ r.field = f.name}
                      IN  \/ Cardinality(reads) = 1 /\ \A r \in reads : r.kind = f.kind
                          \/ m.verb = "none" /\ reads = {}
                          \/ m.verb # "body" /\ (f.shape # "one" \/ f.kind \in {"uint", "enum", "message"})
                          \/ f.name \in m.params /\ (f.shape # "one" \/ f.kind # "string")
    BY DEF RequestsRead
  <2> DEFINE reads == {r \in ReadBy(s) : r.rpc = m.name /\ r.field = f.name}
             path == <<"handler", Ident(s.name, "")>>
             own == {g \in Generated("handler") : g.path = path}
  <2>1. schema \in Schemas
    BY DEF TInv, Typed
  <2>2. \A g \in own : Answers(g, s)
    <3>1. \A v : path = <<"handler", Ident(v.name, "")>> => v.name = s.name
      BY DEF Ident
    <3>2. \A u, v \in ToSet(schema.services) : u.name = v.name => u = v
      BY DEF ServicesApart, ToSet
    <3> HIDE DEF path
    <3> QED BY <3>1, <3>2 DEF RInv, Generated, Answers
  <2>3. \E g \in own : Answers(g, s)
    <3> DEFINE ss == schema.services
               n == at.service
    <3>1. ss \in Seq(ToSet(ss)) /\ n > Len(ss) /\ n \in Nat
      BY <2>1, MethodsTyped DEF RInv, TInv, Typed, Positions
    <3>2. PICK k \in DOMAIN ss : s = ss[k]
      <4> HIDE DEF n
      <4>1. s \in ToSet(ss)
        OBVIOUS
      <4> HIDE DEF ss
      <4> QED BY <3>1, <4>1 DEF ToSet
    <3>3. k \in 1..(n - 1)
      <4> HIDE DEF ss, n
      <4> QED BY <3>1
    <3>4. PICK g \in ToSet(files) : g.package = "handler" /\ Answers(g, s)
      BY <3>2, <3>3 DEF RInv
    <3> QED BY <3>4 DEF Generated, Answers
  <2>4. \A r : r \in ReadBy(s) <=> \E n \in Routed(s) : r \in Reads(n)
    <3>1. \A r : r \in ReadBy(s) <=> \E g \in own : r \in g.reads
      <4>1. ReadBy(s) = UNION {g.reads : g \in own}
        BY DEF ReadBy
      <4> HIDE DEF own
      <4> QED BY <4>1
    <3> HIDE DEF own
    <3>2. \A g \in own : \A r : r \in g.reads <=> \E n \in Routed(s) : r \in Reads(n)
      <4>1. ASSUME NEW g \in own
            PROVE  \A r : r \in g.reads <=> \E n \in Routed(s) : r \in Reads(n)
        BY <2>2, AnswersAreReads
      <4> QED BY <4>1
    <3> QED BY <2>3, <3>1, <3>2
  <2>5. \A r : r \in reads <=> m.verb # "none" /\ ReadFrom(m, f, r)
    <3>1. \A r : r \in reads <=>
              /\ \E n \in Routed(s) : r \in Reads(n)
              /\ r.rpc = m.name /\ r.field = f.name
      BY <2>4
    <3> HIDE DEF reads
    <3> QED BY <2>1, <3>1, FieldRead
  <2> HIDE DEF reads
  <2>6. \/ Cardinality(reads) = 1 /\ \A r \in reads : r.kind = f.kind
        \/ m.verb = "none" /\ reads = {}
        \/ m.verb # "body" /\ (f.shape # "one" \/ f.kind \in {"uint", "enum", "message"})
        \/ f.name \in m.params /\ (f.shape # "one" \/ f.kind # "string")
    BY <2>1, <2>5, FieldFilled
  <2> QED BY <2>6 DEF reads
<1> QED
  BY <1>1, <1>2, <1>3, PTL DEF Spec

----------------------------------------------------------------------------
(* The names resolve gives: a message's own, with underscores added.       *)

Widens(name, given) ==
    given.stem = name.stem /\ given.suffix = name.suffix /\ name.bars <= given.bars
Named(a) == \A i \in 1..Len(a) : Widens(schema.messages[a[i].msg].name, a[i].name)
WInv ==
    /\ \A m \in DOMAIN rename : Widens(schema.messages[m].name, rename[m])
    /\ Named(agenda)

LEMMA NamedBoth ==
    ASSUME NEW w \in Seq(Tasks), NEW r \in Seq(Tasks), Named(w), Named(r)
    PROVE  Named(w \o r)
<1> DEFINE s == w \o r
<1>1. /\ s \in Seq(Tasks) /\ Len(s) = Len(w) + Len(r) /\ Len(w) \in Nat /\ Len(r) \in Nat
      /\ \A i \in 1..Len(w) : s[i] = w[i]
      /\ \A i \in 1..Len(r) : s[Len(w) + i] = r[i]
  OBVIOUS
<1> HIDE DEF s
<1>2. ASSUME NEW i \in 1..Len(s) PROVE Widens(schema.messages[s[i].msg].name, s[i].name)
  <2>1. CASE i \in 1..Len(w)
    BY <1>1, <2>1 DEF Named
  <2>2. CASE i \notin 1..Len(w)
    <3>1. i - Len(w) \in 1..Len(r) /\ i = Len(w) + (i - Len(w))
      BY <1>1, <2>2
    <3>2. s[i] = r[i - Len(w)]
      BY <1>1, <3>1
    <3> QED BY <3>1, <3>2 DEF Named
  <2> QED BY <2>1, <2>2
<1> QED BY <1>2 DEF Named, s

LEMMA NamedTail ==
    ASSUME NEW s \in Seq(Tasks), s # <<>>, Named(s)
    PROVE  Named(Tail(s)) /\ Tail(s) \in Seq(Tasks)
<1> DEFINE r == Tail(s)
<1>1. /\ r \in Seq(Tasks) /\ Len(s) \in Nat \ {0} /\ Len(r) = Len(s) - 1
      /\ \A i \in 1..Len(r) : r[i] = s[i + 1] /\ i + 1 \in 1..Len(s)
  OBVIOUS
<1> HIDE DEF r
<1>2. Named(r)
  BY <1>1 DEF Named
<1> QED BY <1>1, <1>2 DEF r

(* A message's own name is a name it may get. *)
LEMMA OwnName ==
    ASSUME schema \in Schemas, NEW m \in Known
    PROVE  Widens(schema.messages[m].name, schema.messages[m].name)
<1>1. schema.messages[m].name.bars \in Nat
  BY FieldsTyped DEF Names
<1> QED BY <1>1 DEF Widens

LEMMA NamedWork ==
    ASSUME schema \in Schemas, NEW w, NEW fs, Works(w, fs)
    PROVE  w \in Seq(Tasks) /\ Named(w)
<1>1. /\ w \in Seq(Tasks)
      /\ \A i \in 1..Len(w) : w[i].name = schema.messages[w[i].msg].name
  BY DEF Works, Fits
<1>2. \A i \in 1..Len(w) : w[i].msg \in Known
  <2>1. \A i \in 1..Len(w) : w[i] \in Tasks
    BY <1>1
  <2> QED BY <2>1 DEF Tasks
<1> QED BY <1>1, <1>2, OwnName DEF Named

LEMMA MethodNamed ==
    ASSUME schema \in Schemas, NEW m, m.input \in Known, m.output \in Known
    PROVE  Named(MethodAgenda(m))
<1>1. PICK w, v :
          /\ MethodAgenda(m) = w \o v
          /\ Works(w, Fields(m.input))
          /\ ~ReturnsOutput(m) => v = <<>>
          /\ ReturnsOutput(m) => \E u : Works(u, Fields(m.output)) /\ v = u \o <<Search(m.output)>>
  BY MethodWorks
<1>2. v \in Seq(Tasks) /\ Named(v)
  <2>1. CASE ~ReturnsOutput(m)
    BY <1>1, <2>1 DEF Named
  <2>2. CASE ReturnsOutput(m)
    <3>1. PICK u : Works(u, Fields(m.output)) /\ v = u \o <<Search(m.output)>>
      BY <1>1, <2>2
    <3> DEFINE z == <<Search(m.output)>>
    <3>2. z \in Seq(Tasks) /\ Named(z)
      BY TasksTyped, OwnName DEF Named
    <3>3. v = u \o z
      BY <3>1
    <3> HIDE DEF z
    <3>4. u \in Seq(Tasks) /\ Named(u)
      BY <3>1, NamedWork
    <3> QED BY <3>2, <3>3, <3>4, NamedBoth
  <2> QED BY <2>1, <2>2
<1>3. w \in Seq(Tasks) /\ Named(w)
  BY <1>1, NamedWork
<1> QED BY <1>1, <1>2, <1>3, NamedBoth

(* The parts of WInv, where the values of the variables are given.         *)
LEMMA WidensInv ==
    ASSUME schema' = schema,
           \A m \in DOMAIN rename' : Widens(schema.messages[m].name, rename'[m]),
           Named(agenda')
    PROVE  WInv'
BY DEF WInv, Named, Widens

LEMMA StepWidens == TInv /\ WInv /\ [Next]_vars => WInv'
<1> SUFFICES ASSUME TInv, WInv, [Next]_vars PROVE WInv'
  OBVIOUS
<1>0. agenda \in Seq(Tasks) /\ schema \in Schemas /\ Named(agenda)
  BY DEF TInv, Typed, WInv
<1>a. ASSUME UNCHANGED <<schema, rename, agenda>>
      PROVE  WInv'
  BY <1>0, <1>a, WidensInv DEF WInv
<1>1. ASSUME UNCHANGED <<schema, rename>>, agenda # <<>>, agenda' = Tail(agenda)
      PROVE  WInv'
  BY <1>0, <1>1, NamedTail, WidensInv DEF WInv
<1>2. CASE ParseEntity \/ EmitEntities \/ EnterSearch \/ EmitProject \/ UNCHANGED vars
  <2>1. UNCHANGED <<schema, rename, agenda>>
    BY <1>2 DEF ParseEntity, EmitEntities, EnterSearch, EmitProject, vars
  <2> QED BY <1>a, <2>1
<1>3. CASE SearchField \/ ReturnFalse
  <2>1. UNCHANGED <<schema, rename>> /\ agenda # <<>>
    BY <1>3 DEF SearchField, ReturnFalse, Calling
  <2>2. agenda' = agenda \/ agenda' = Tail(agenda)
    BY <1>3 DEF SearchField, ReturnFalse
  <2>3. CASE agenda' = agenda
    BY <1>a, <2>1, <2>3
  <2>4. CASE agenda' = Tail(agenda)
    BY <1>1, <2>1, <2>4
  <2> QED BY <2>2, <2>3, <2>4
<1>4. CASE EmitService
  <2>1. rename' = <<>> /\ UNCHANGED <<schema, agenda>>
    BY <1>4 DEF EmitService
  <2>2. DOMAIN rename' = {}
    BY <2>1
  <2> QED BY <1>0, <2>1, <2>2, WidensInv
<1>5. CASE BuildMethod
  <2>1. agenda' = MethodAgenda(Method) /\ UNCHANGED <<schema, rename>>
    BY <1>5 DEF BuildMethod
  <2>2. Named(MethodAgenda(Method))
    BY <1>0, <1>5, VisitsOne, MethodNamed
  <2> QED BY <2>1, <2>2, WidensInv DEF WInv
<1>6. CASE ResolveName
  <2> DEFINE t == Head(agenda)
             u == [t EXCEPT !.name.bars = @ + 1]
             r == Tail(agenda)
  <2>1. Calling("resolve") /\ schema' = schema
    BY <1>6 DEF ResolveName
  <2>2. agenda # <<>> /\ t = agenda[1] /\ t \in Tasks
    BY <2>1, HeadIs
  <2>3. Widens(schema.messages[t.msg].name, t.name)
    BY <1>0, <2>2 DEF Named
  <2>4. Named(r) /\ r \in Seq(Tasks)
    BY <1>0, <2>2, NamedTail
  <2>5. CASE agenda' = r /\ rename' = rename
    BY <1>1, <2>1, <2>2, <2>5
  <2>6. CASE agenda' = <<u>> \o r /\ rename' = rename
    <3>1. u \in Tasks /\ u.msg = t.msg /\ u.name = [t.name EXCEPT !.bars = @ + 1]
      BY <2>2, RetryTyped
    <3>2. t.name \in Names /\ t.msg \in Known
      BY <2>2 DEF Tasks
    <3>3. Widens(schema.messages[u.msg].name, u.name)
      <4> HIDE DEF t, u
      <4>1. /\ u.name.stem = t.name.stem /\ u.name.suffix = t.name.suffix
            /\ u.name.bars = t.name.bars + 1 /\ t.name.bars \in Nat
        BY <3>1, <3>2 DEF Names
      <4>2. schema.messages[t.msg].name.bars \in Nat
        BY <1>0, <3>2, FieldsTyped DEF Names
      <4> QED BY <2>3, <3>1, <4>1, <4>2 DEF Widens
    <3> DEFINE z == <<u>>
    <3> HIDE DEF u
    <3>4. z \in Seq(Tasks) /\ Named(z)
      BY <3>1, <3>3 DEF Named
    <3>5. agenda' = z \o r
      BY <2>6
    <3> HIDE DEF z, r
    <3>6. Named(agenda')
      BY <2>4, <3>4, <3>5, NamedBoth
    <3> QED BY <2>1, <2>6, <3>6, WidensInv DEF WInv
  <2>7. CASE agenda' = r /\ rename' = With(rename, t.msg, t.name)
    <3> HIDE DEF t, r
    <3>1. \A m \in DOMAIN rename' :
              rename'[m] = IF m = t.msg THEN t.name ELSE rename[m]
      BY <2>7 DEF With
    <3>2. DOMAIN rename' = DOMAIN rename \cup {t.msg}
      BY <2>7 DEF With
    <3>3. \A m \in DOMAIN rename' : Widens(schema.messages[m].name, rename'[m])
      BY <2>3, <3>1, <3>2 DEF WInv
    <3> QED BY <2>1, <2>4, <2>7, <3>3, WidensInv
  <2> QED BY <1>6, <2>5, <2>6, <2>7 DEF ResolveName
<1>7. CASE CollectTypes
  <2> DEFINE m == Head(agenda).msg
             w == ResolveAll(Fields(m)) \o CollectAll(Fields(m))
             r == Tail(agenda)
  <2>1. Calling("collect") /\ UNCHANGED <<schema, rename>>
    BY <1>7 DEF CollectTypes
  <2>2. agenda # <<>> /\ m \in Known
    BY <2>1, HeadIs
  <2>3. Named(r) /\ r \in Seq(Tasks)
    BY <1>0, <2>2, NamedTail
  <2>4. CASE agenda' = r
    BY <1>1, <2>1, <2>2, <2>4
  <2>5. CASE agenda' = w \o r
    <3>1. Works(w, Fields(m))
      BY <1>0, <2>2, FieldSeqs, ResponseWorks
    <3> HIDE DEF w, r, m
    <3>2. Named(agenda')
      BY <1>0, <2>3, <2>5, <3>1, NamedWork, NamedBoth
    <3> QED BY <2>1, <3>2, WidensInv DEF WInv
  <2> QED BY <1>7, <2>4, <2>5 DEF CollectTypes
<1> QED BY <1>2, <1>3, <1>4, <1>5, <1>6, <1>7 DEF Next

----------------------------------------------------------------------------
(* What is declared twice.                                                 *)

(* The names that neither protoc nor the plugin keeps apart: those of the   *)
(* services, of the entities, which may come from several proto packages,   *)
(* and that of a service's interface, which a message might have.           *)
Apart ==
    /\ ServicesApart
    /\ \A m, n \in Known :
          /\ schema.messages[m].entity /\ schema.messages[n].entity
          /\ schema.messages[m].name = schema.messages[n].name
          => m = n
    /\ \A m \in Known : \A s \in ToSet(schema.services) :
          schema.messages[m].name # Ident(s.name, "Usecase")

Distinct(ds, es) == \A d \in ds, e \in es : d.name = e.name /\ d.by[1] = e.by[1] => d = e
OfEntity(d, m) == d = Declares(schema.messages[m].name, <<"entity", m>>)
OfService(file, k) ==
    k \in DOMAIN schema.services /\ \A d \in file.declares : d.by[1] = schema.services[k].name

UInv ==
    /\ \A m \in entities : schema.messages[m].entity
    /\ \A file \in ToSet(files) :
          /\ file.package = "entity" =>
                \A d \in file.declares : \E m \in entities : OfEntity(d, m)
          /\ file.package \in {"usecase", "handler"} =>
                \E k \in 1..(at.service - 1) : OfService(file, k)
    /\ Apart => \A f, g \in ToSet(files) :
          f.package = g.package /\ f.package \in {"usecase", "handler"}
              => Distinct(f.declares, g.declares)

LEMMA UsecaseDeclares ==
    \A d : d \in UsecaseFile.declares =>
        \/ \E m \in Methods : d = Declares(Ident(m.name, "Input"), <<Service, "input">>)
        \/ \E m \in Methods : d = Declares(Ident(m.name, "Output"), <<Service, "output">>)
        \/ \E x \in DOMAIN types : d = Declares(x, <<Service, types[x]>>)
        \/ d = Declares(Ident(Service, "Usecase"), <<Service, "interface">>)
<1> DEFINE inputs == {Declares(Ident(m.name, "Input"), <<Service, "input">>) : m \in Methods}
           outputs == {Declares(Ident(m.name, "Output"), <<Service, "output">>) :
                         m \in {n \in Methods : ReturnsOutput(n)}}
           typed == {Declares(x, <<Service, types[x]>>) : x \in DOMAIN types}
           self == Declares(Ident(Service, "Usecase"), <<Service, "interface">>)
           declares == inputs \cup outputs \cup typed \cup {self}
           uses == (UNION {TypesOf("usecase", ToSet(Fields(m))) : m \in Structs})
                     \cup {Uses("dto", [schema.messages[e].name EXCEPT !.suffix = "DTO"]) : e \in Replies}
           imports == When(usesEntity, "entity") \cup When(Replies # {}, "dto")
<1>1. UsecaseFile = File(<<"usecase", Ident(Service, "")>>, declares, uses, imports, {})
  BY DEF UsecaseFile, Service
<1> HIDE DEF uses, imports
<1>2. /\ \A d \in inputs : \E m \in Methods : d = Declares(Ident(m.name, "Input"), <<Service, "input">>)
      /\ \A d \in outputs : \E m \in Methods : d = Declares(Ident(m.name, "Output"), <<Service, "output">>)
      /\ \A d \in typed : \E x \in DOMAIN types : d = Declares(x, <<Service, types[x]>>)
  OBVIOUS
<1> HIDE DEF inputs, outputs, typed
<1>3. \A d \in declares : d \in inputs \/ d \in outputs \/ d \in typed \/ d = self
  OBVIOUS
<1> HIDE DEF declares
<1>4. UsecaseFile.declares = declares
  BY <1>1 DEF File
<1> QED BY <1>2, <1>3, <1>4

LEMMA HandlerDeclares ==
    \A d : d \in HandlerFile.declares =>
        \/ d = Declares(Ident(Service, "Handler"), <<Service, "handler">>)
        \/ \E m \in Methods : d = Declares(Ident(m.name, "Body"), <<Service, "body">>)
<1> DEFINE bodies == {Declares(Ident(m.name, "Body"), <<Service, "body">>) :
                        m \in {n \in Methods : BodyFields(n) # {}}}
           self == Declares(Ident(Service, "Handler"), <<Service, "handler">>)
<1>1. HandlerFile.declares = {self} \cup bodies
  BY DEF HandlerFile, File, Service
<1>2. \A d \in bodies : \E m \in Methods : d = Declares(Ident(m.name, "Body"), <<Service, "body">>)
  OBVIOUS
<1> HIDE DEF bodies
<1> QED BY <1>1, <1>2

(* A type of the usecase file has a name that no request, no response and,  *)
(* where names are apart, no interface has.                                 *)
LEMMA TypeNames ==
    ASSUME TInv, IInv, WInv, Built, NEW x \in DOMAIN types
    PROVE  /\ \A m \in Methods : x # Ident(m.name, "Input") /\ x # Ident(m.name, "Output")
           /\ Apart => x # Ident(Service, "Usecase")
<1>1. PICK m \in DOMAIN rename : rename[m] = x
  BY DEF TInv, Typed
<1>2. m \in Known /\ schema \in Schemas /\ Widens(schema.messages[m].name, x)
  BY <1>1 DEF TInv, Typed, WInv
<1>3. x \in Range(rename) /\ rename # <<>>
  <2>1. DOMAIN rename # {}
    BY <1>1
  <2>2. rename # <<>>
    BY <2>1
  <2> QED BY <1>1, <2>2 DEF Range
<1>4. x \notin Reserved
  BY <1>3 DEF IInv, NamesApart
<1>5. ASSUME NEW n \in Methods
      PROVE  Ident(n.name, "Input") \in Reserved /\ Ident(n.name, "Output") \in Reserved
  <2>1. n \in ToSet(schema.services[at.service].methods)
    BY DEF Methods
  <2>2. "Input" \in {"Input", "Output"} /\ "Output" \in {"Input", "Output"}
    OBVIOUS
  <2> QED BY <2>1, <2>2 DEF Reserved
<1>6. ASSUME Apart, x = Ident(Service, "Usecase") PROVE FALSE
  <2>1. schema.messages[m].name \in Names
    BY <1>2, FieldsTyped
  <2> DEFINE n == schema.messages[m].name
  <2>2. n.stem = x.stem /\ n.suffix = x.suffix /\ n.bars <= x.bars
    BY <1>2 DEF Widens
  <2>3. x.stem = Service /\ x.suffix = "Usecase" /\ x.bars = 0
    BY <1>6 DEF Ident
  <2> HIDE DEF n
  <2>4. n.bars = 0 /\ n = [stem |-> n.stem, suffix |-> n.suffix, bars |-> n.bars]
    BY <2>1, <2>2, <2>3 DEF Names, n
  <2>5. n = Ident(Service, "Usecase")
    BY <2>2, <2>3, <2>4 DEF Ident
  <2>6. schema.services[at.service] \in ToSet(schema.services)
    <3> DEFINE ss == schema.services
    <3>1. ss \in Seq(ToSet(ss)) /\ at.service \in Nat \ {0} /\ at.service <= Len(ss)
      BY MethodsTyped DEF TInv, Typed, Positions, Built
    <3> HIDE DEF ss
    <3>2. ss[at.service] \in ToSet(ss)
      BY <3>1 DEF ToSet
    <3> QED BY <3>2 DEF ss
  <2> QED BY <1>2, <1>6, <2>5, <2>6 DEF Apart, Service, n
<1> QED BY <1>4, <1>5, <1>6

LEMMA UsecaseDistinct ==
    ASSUME TInv, IInv, WInv, Built
    PROVE  /\ \A d \in UsecaseFile.declares : d.by[1] = Service
           /\ Apart => Distinct(UsecaseFile.declares, UsecaseFile.declares)
<1> DEFINE Input(d) == \E m \in Methods : d = Declares(Ident(m.name, "Input"), <<Service, "input">>)
           Output(d) == \E m \in Methods : d = Declares(Ident(m.name, "Output"), <<Service, "output">>)
           Type(d) == \E x \in DOMAIN types : d = Declares(x, <<Service, types[x]>>)
           Self(d) == d = Declares(Ident(Service, "Usecase"), <<Service, "interface">>)
<1>1. \A d \in UsecaseFile.declares : Input(d) \/ Output(d) \/ Type(d) \/ Self(d)
  BY UsecaseDeclares
<1>2. \A name, y : Declares(name, <<Service, y>>).name = name /\ Declares(name, <<Service, y>>).by[1] = Service
  BY DEF Declares
<1>a. ASSUME NEW d, Input(d)
      PROVE  d.by[1] = Service /\ \E m \in Methods : d.name = Ident(m.name, "Input")
  <2>1. PICK m \in Methods : d = Declares(Ident(m.name, "Input"), <<Service, "input">>)
    BY <1>a
  <2> QED BY <1>2, <2>1
<1>b. ASSUME NEW d, Output(d)
      PROVE  d.by[1] = Service /\ \E m \in Methods : d.name = Ident(m.name, "Output")
  <2>1. PICK m \in Methods : d = Declares(Ident(m.name, "Output"), <<Service, "output">>)
    BY <1>b
  <2> QED BY <1>2, <2>1
<1>c. ASSUME NEW d, Type(d)
      PROVE  d.by[1] = Service /\ d.name \in DOMAIN types /\ d = Declares(d.name, <<Service, types[d.name]>>)
  <2>1. PICK x \in DOMAIN types : d = Declares(x, <<Service, types[x]>>)
    BY <1>c
  <2>2. d.name = x /\ d.by[1] = Service
    BY <1>2, <2>1
  <2> QED BY <2>1, <2>2
<1>d. ASSUME NEW d, Self(d)
      PROVE  d.by[1] = Service /\ d.name = Ident(Service, "Usecase")
  BY <1>2, <1>d
<1>e. ASSUME NEW d, NEW e, Input(d), Input(e), d.name = e.name PROVE d = e
  <2>1. PICK m \in Methods : d = Declares(Ident(m.name, "Input"), <<Service, "input">>)
    BY <1>e
  <2>2. PICK n \in Methods : e = Declares(Ident(n.name, "Input"), <<Service, "input">>)
    BY <1>e
  <2>3. Ident(m.name, "Input") = Ident(n.name, "Input")
    BY <1>2, <1>e, <2>1, <2>2
  <2> QED BY <2>1, <2>2, <2>3
<1>f. ASSUME NEW d, NEW e, Output(d), Output(e), d.name = e.name PROVE d = e
  <2>1. PICK m \in Methods : d = Declares(Ident(m.name, "Output"), <<Service, "output">>)
    BY <1>f
  <2>2. PICK n \in Methods : e = Declares(Ident(n.name, "Output"), <<Service, "output">>)
    BY <1>f
  <2>3. Ident(m.name, "Output") = Ident(n.name, "Output")
    BY <1>2, <1>f, <2>1, <2>2
  <2> QED BY <2>1, <2>2, <2>3
<1>g. ASSUME NEW d, NEW e, Type(d), Type(e), d.name = e.name PROVE d = e
  BY <1>c, <1>g
<1>h. ASSUME NEW d, NEW e, Self(d), Self(e) PROVE d = e
  BY <1>h
<1> HIDE DEF Input, Output, Type, Self
<1>3. \A d \in UsecaseFile.declares : d.by[1] = Service
  BY <1>1, <1>a, <1>b, <1>c, <1>d
<1>6. ASSUME Apart, NEW d \in UsecaseFile.declares, NEW e \in UsecaseFile.declares,
             d.name = e.name
      PROVE  d = e
  <2>1. \A a, b : /\ Ident(a, "Input") # Ident(b, "Output")
                  /\ Ident(a, "Input") # Ident(b, "Usecase")
                  /\ Ident(a, "Output") # Ident(b, "Usecase")
    BY DEF Ident
  <2>2. \A x \in DOMAIN types :
            /\ \A m \in Methods : x # Ident(m.name, "Input") /\ x # Ident(m.name, "Output")
            /\ x # Ident(Service, "Usecase")
    BY <1>6, TypeNames
  <2>3. ASSUME NEW a, NEW b, a.name = b.name
        PROVE  /\ ~(Input(a) /\ Output(b)) /\ ~(Input(a) /\ Self(b)) /\ ~(Output(a) /\ Self(b))
               /\ ~(Type(a) /\ Input(b)) /\ ~(Type(a) /\ Output(b)) /\ ~(Type(a) /\ Self(b))
    <3>1. ~(Input(a) /\ Output(b)) /\ ~(Input(a) /\ Self(b)) /\ ~(Output(a) /\ Self(b))
      BY <1>a, <1>b, <1>d, <2>1, <2>3
    <3>2. ~(Type(a) /\ Input(b)) /\ ~(Type(a) /\ Output(b)) /\ ~(Type(a) /\ Self(b))
      BY <1>a, <1>b, <1>c, <1>d, <2>2, <2>3
    <3> QED BY <3>1, <3>2
  <2>4. Input(d) \/ Output(d) \/ Type(d) \/ Self(d)
    BY <1>1
  <2>5. Input(e) \/ Output(e) \/ Type(e) \/ Self(e)
    BY <1>1
  <2>6. /\ ~(Input(d) /\ Output(e)) /\ ~(Input(d) /\ Self(e)) /\ ~(Output(d) /\ Self(e))
        /\ ~(Type(d) /\ Input(e)) /\ ~(Type(d) /\ Output(e)) /\ ~(Type(d) /\ Self(e))
    BY <1>6, <2>3
  <2>7. /\ ~(Input(e) /\ Output(d)) /\ ~(Input(e) /\ Self(d)) /\ ~(Output(e) /\ Self(d))
        /\ ~(Type(e) /\ Input(d)) /\ ~(Type(e) /\ Output(d)) /\ ~(Type(e) /\ Self(d))
    BY <1>6, <2>3
  <2> QED BY <1>e, <1>f, <1>g, <1>h, <1>6, <2>4, <2>5, <2>6, <2>7
<1> QED BY <1>3, <1>6 DEF Distinct

LEMMA HandlerDistinct ==
    /\ \A d \in HandlerFile.declares : d.by[1] = Service
    /\ Distinct(HandlerFile.declares, HandlerFile.declares)
<1>1. \A name, by : Declares(name, by).name = name /\ Declares(name, by).by = by
  BY DEF Declares
<1>2. \A y : <<Service, y>>[1] = Service
  OBVIOUS
<1>3. \A a : Ident(a, "Body") # Ident(Service, "Handler")
  BY DEF Ident
<1>4. \A d \in HandlerFile.declares : d.by[1] = Service
  BY <1>1, <1>2, HandlerDeclares
<1>5. \A d, e \in HandlerFile.declares : d.name = e.name => d = e
  BY <1>1, <1>3, HandlerDeclares
<1> QED BY <1>4, <1>5 DEF Distinct

(* The parts of UInv, where the values of the variables are given.         *)
LEMMA DistinctInv ==
    ASSUME schema' = schema,
           \A m \in entities' : schema.messages[m].entity,
           \A file \in ToSet(files') :
              /\ file.package = "entity" =>
                    \A d \in file.declares : \E m \in entities' : OfEntity(d, m)
              /\ file.package \in {"usecase", "handler"} =>
                    \E k \in 1..(at'.service - 1) : OfService(file, k),
           Apart => \A f, g \in ToSet(files') :
              f.package = g.package /\ f.package \in {"usecase", "handler"}
                  => Distinct(f.declares, g.declares)
    PROVE  UInv'
<1>1. /\ Apart' <=> Apart
      /\ \A d, m : OfEntity(d, m)' <=> OfEntity(d, m)
      /\ \A file, k : OfService(file, k)' <=> OfService(file, k)
  BY DEF Apart, ServicesApart, Known, OfEntity, OfService
<1>2. (\A m \in entities : schema.messages[m].entity)'
  OBVIOUS
<1>3. (\A file \in ToSet(files) :
          /\ file.package = "entity" =>
                \A d \in file.declares : \E m \in entities : OfEntity(d, m)
          /\ file.package \in {"usecase", "handler"} =>
                \E k \in 1..(at.service - 1) : OfService(file, k))'
  BY <1>1 DEF ToSet
<1>4. (Apart => \A f, g \in ToSet(files) :
          f.package = g.package /\ f.package \in {"usecase", "handler"}
              => Distinct(f.declares, g.declares))'
  BY <1>1 DEF ToSet, Distinct
<1> QED BY <1>2, <1>3, <1>4 DEF UInv

LEMMA ServiceDistinct == TInv /\ IInv /\ DInv /\ WInv /\ UInv /\ EmitService => UInv'
<1> SUFFICES ASSUME TInv, IInv, DInv, WInv, UInv, EmitService PROVE UInv'
  OBVIOUS
<1>1. /\ Built /\ files' = files \o <<UsecaseFile, HandlerFile>>
      /\ UNCHANGED <<schema, entities>>
      /\ at'.service = at.service + 1 /\ at.service \in Nat \ {0}
      /\ at.service <= Len(schema.services)
  BY DEF EmitService, Built, TInv, Typed, Positions
<1> DEFINE U == UsecaseFile
           H == HandlerFile
           new == <<U, H>>
           fs == ToSet(files)
<1>2. /\ U.package = "usecase" /\ H.package = "handler"
      /\ \A d \in U.declares : d.by[1] = Service
      /\ \A d \in H.declares : d.by[1] = Service
      /\ Apart => Distinct(U.declares, U.declares)
      /\ Distinct(H.declares, H.declares)
  BY <1>1, UsecaseFileIs, HandlerFileIs, UsecaseDistinct, HandlerDistinct
<1>3. files' = files \o new
  BY <1>1
<1> HIDE DEF U, H
<1>4. ToSet(new) = {U, H} /\ new \in Seq({U, H})
  BY DEF ToSet
<1>5. new \in Seq(ToSet(new))
  BY <1>4
<1> HIDE DEF new
<1>6. ToSet(files') = fs \cup {U, H}
  BY <1>3, <1>4, <1>5, FilesJoin DEF DInv
<1>7. at.service \in DOMAIN schema.services
  <2> DEFINE ss == schema.services
  <2>1. ss \in Seq(ToSet(ss)) /\ at.service \in Nat \ {0} /\ at.service <= Len(ss)
    BY <1>1, MethodsTyped DEF TInv, Typed
  <2> HIDE DEF ss
  <2>2. at.service \in DOMAIN ss
    BY <2>1
  <2> QED BY <2>2 DEF ss
<1>8. OfService(U, at.service) /\ OfService(H, at.service)
  BY <1>2, <1>7 DEF OfService, Service
<1>9. ASSUME NEW file \in ToSet(files')
      PROVE  /\ file.package = "entity" =>
                    \A d \in file.declares : \E m \in entities : OfEntity(d, m)
             /\ file.package \in {"usecase", "handler"} =>
                    \E k \in 1..(at'.service - 1) : OfService(file, k)
  <2>1. CASE file \in fs
    <3>1. \A k \in 1..(at.service - 1) : k \in 1..(at'.service - 1)
      BY <1>1
    <3> QED BY <2>1, <3>1 DEF UInv
  <2>2. CASE file \in {U, H}
    <3>1. at.service \in 1..(at'.service - 1)
      BY <1>1
    <3> QED BY <1>2, <1>8, <2>2, <3>1
  <2> QED BY <1>6, <2>1, <2>2
<1>10. ASSUME Apart, NEW f \in ToSet(files'), NEW g \in ToSet(files'),
              f.package = g.package, f.package \in {"usecase", "handler"}
       PROVE  Distinct(f.declares, g.declares)
  <2>1. ASSUME NEW h \in fs, h.package \in {"usecase", "handler"}, NEW d \in h.declares
        PROVE  d.by[1] # Service
    <3>1. PICK k \in 1..(at.service - 1) : OfService(h, k)
      BY <2>1 DEF UInv
    <3>2. k # at.service /\ k \in DOMAIN schema.services
      BY <1>1, <3>1 DEF OfService
    <3>3. schema.services[k].name # schema.services[at.service].name
      BY <1>7, <1>10, <3>2 DEF Apart, ServicesApart
    <3> QED BY <2>1, <3>1, <3>3 DEF OfService, Service
  <2>2. CASE f \in fs /\ g \in fs
    BY <1>10, <2>2 DEF UInv
  <2>3. CASE f \in fs /\ g \in {U, H}
    <3>1. \A e \in g.declares : e.by[1] = Service
      BY <1>2, <2>3
    <3>2. \A d \in f.declares : d.by[1] # Service
      BY <1>10, <2>1, <2>3
    <3> QED BY <3>1, <3>2 DEF Distinct
  <2>4. CASE f \in {U, H} /\ g \in fs
    <3>1. \A d \in f.declares : d.by[1] = Service
      BY <1>2, <2>4
    <3>2. \A e \in g.declares : e.by[1] # Service
      BY <1>10, <2>1, <2>4
    <3> QED BY <3>1, <3>2 DEF Distinct
  <2>5. CASE f \in {U, H} /\ g \in {U, H}
    <3>1. f = g
      BY <1>2, <1>10, <2>5
    <3> QED BY <1>2, <1>10, <2>5, <3>1
  <2> QED BY <1>6, <2>2, <2>3, <2>4, <2>5
<1>11. \A m \in entities' : schema.messages[m].entity
  BY <1>1 DEF UInv
<1> QED BY <1>1, <1>9, <1>10, <1>11, DistinctInv

LEMMA StepDistinct == TInv /\ IInv /\ DInv /\ WInv /\ UInv /\ [Next]_vars => UInv'
<1> SUFFICES ASSUME TInv, IInv, DInv, WInv, UInv, [Next]_vars PROVE UInv'
  OBVIOUS
<1>1. ASSUME UNCHANGED <<schema, entities, files>>, at'.service = at.service
      PROVE  UInv'
  BY <1>1, DistinctInv DEF UInv
<1>2. CASE ParseEntity
  <2> DEFINE m == schema.order[at.message]
  <2>1. schema' = schema /\ files' = <<>>
    BY <1>2 DEF ParseEntity, TInv, Fresh
  <2>2. \/ entities' = entities
        \/ entities' = entities \cup {m} /\ schema.messages[m].entity
    BY <1>2 DEF ParseEntity
  <2>3. \A n \in entities' : schema.messages[n].entity
    BY <2>2 DEF UInv
  <2>4. ToSet(files') = {}
    BY <2>1, NoFiles
  <2> QED BY <2>1, <2>3, <2>4, DistinctInv
<1>3. CASE EmitEntities
  <2>1. /\ UNCHANGED <<schema, entities>>
        /\ \A file \in ToSet(files') : \E e \in entities : file \in ToSet(EntityFiles(e))
    BY <1>3, EntitiesEmitted DEF EmitEntities
  <2>2. \A file \in ToSet(files') :
            /\ file.package \notin {"usecase", "handler"}
            /\ file.package = "entity" =>
                  \A d \in file.declares : \E m \in entities : OfEntity(d, m)
    BY <2>1, EntityFilesAre DEF OfEntity
  <2>3. \A m \in entities' : schema.messages[m].entity
    BY <2>1 DEF UInv
  <2> QED BY <2>1, <2>2, <2>3, DistinctInv
<1>4. CASE EmitProject
  <2>1. UNCHANGED <<schema, entities, at>>
    BY <1>4 DEF EmitProject
  <2>2. \A file \in ToSet(files') :
            \/ file \in ToSet(files)
            \/ file.package \in {"entity", "di"} /\ file.declares = {}
    BY <1>4, ProjectEmitted, Zenon
  <2>3. \A file \in ToSet(files') :
            /\ file.package = "entity" =>
                  \A d \in file.declares : \E m \in entities' : OfEntity(d, m)
            /\ file.package \in {"usecase", "handler"} =>
                  \E k \in 1..(at'.service - 1) : OfService(file, k)
    BY <2>1, <2>2 DEF UInv
  <2>4. Apart => \A f, g \in ToSet(files') :
            f.package = g.package /\ f.package \in {"usecase", "handler"}
                => Distinct(f.declares, g.declares)
    BY <2>2 DEF UInv
  <2>5. \A m \in entities' : schema.messages[m].entity
    BY <2>1 DEF UInv
  <2> QED BY <2>1, <2>3, <2>4, <2>5, DistinctInv
<1>5. CASE BuildMethod
  <2>1. at'.service = at.service
    BY <1>5 DEF BuildMethod, TInv, Typed, Positions
  <2> QED BY <1>1, <1>5, <2>1 DEF BuildMethod
<1>6. CASE ResolveName \/ CollectTypes \/ EnterSearch \/ SearchField \/ ReturnFalse \/ UNCHANGED vars
  BY <1>1, <1>6 DEF ResolveName, CollectTypes, EnterSearch, SearchField, ReturnFalse, vars
<1> QED BY <1>2, <1>3, <1>4, <1>5, <1>6, ServiceDistinct DEF Next

(* Where services, and entities, have different names and no message is named  *)
(* as the interface of a service, no name is declared twice for a service, be  *)
(* it an Input, an Output, the interface or the type of a message under the    *)
(* name resolve gave it, and no two entities declare one (main.go:576-615).    *)
THEOREM DeclaredOnce == Spec => [](Apart => DeclaredTwiceApart)
<1>1. Init => TInv /\ IInv /\ EInv /\ DInv /\ WInv /\ UInv
  <2>1. ASSUME Init PROVE WInv /\ UInv
    <3>1. files = <<>> /\ entities = {} /\ DOMAIN rename = {} /\ agenda = <<>>
      BY <2>1 DEF Init
    <3>2. Named(agenda)
      BY <3>1 DEF Named
    <3> QED BY <3>1, <3>2, NoFiles DEF WInv, UInv
  <2> QED BY <2>1, InitTyped, InitApart, InitEmits, InitDeclares
<1>2. (TInv /\ IInv /\ EInv /\ DInv /\ WInv /\ UInv) /\ [Next]_vars
      => (TInv /\ IInv /\ EInv /\ DInv /\ WInv /\ UInv)'
  BY StepTyped, StepKeepsApart, StepEmits, StepDeclares, StepWidens, StepDistinct
<1>3. TInv /\ UInv => (Apart => DeclaredTwiceApart)
  <2> SUFFICES ASSUME TInv, UInv, Apart, NEW package \in {"entity", "usecase", "handler"},
                      NEW f \in ToSet(files), f.package = package, NEW d \in f.declares,
                      NEW g \in ToSet(files), g.package = package, NEW e \in g.declares,
                      d.name = e.name, d.by[1] = e.by[1]
               PROVE  d = e
    BY DEF DeclaredTwiceApart, DeclaredIn, Generated
  <2>1. CASE package \in {"usecase", "handler"}
    BY <2>1 DEF UInv, Distinct
  <2>2. CASE package = "entity"
    <3>1. PICK m \in entities : OfEntity(d, m)
      BY <2>2 DEF UInv
    <3>2. PICK n \in entities : OfEntity(e, n)
      BY <2>2 DEF UInv
    <3>3. schema.messages[m].name = schema.messages[n].name
      BY <3>1, <3>2 DEF OfEntity, Declares
    <3>4. m \in Known /\ n \in Known /\ schema.messages[m].entity /\ schema.messages[n].entity
      BY DEF TInv, Typed, UInv
    <3>5. m = n
      BY <3>3, <3>4 DEF Apart
    <3> QED BY <3>1, <3>2, <3>5 DEF OfEntity
  <2> QED BY <2>1, <2>2
<1> QED
  BY <1>1, <1>2, <1>3, PTL DEF Spec
=============================================================================
