------------------------- MODULE UserPagingTheorems -------------------------
(***************************************************************************)
(* For any users, limits and writers: paging answers every user who stays   *)
(* exactly once.                                                            *)
(***************************************************************************)
EXTENDS UserPaging, FiniteSetTheorems, TLAPS

BehindCursor == \A k \in DOMAIN pages : \A x \in pages[k] : x <= cursor

IInv == TypeOK /\ BehindCursor /\ OnceInOrder /\ NonePassedOver /\ LimitObeyed /\ Complete

-----------------------------------------------------------------------------
(* Each stack reads a limit of the contract as it was written. *)
LEMMA ModSmall ==
    ASSUME NEW x \in Nat, NEW m \in Nat \ {0}, x < m
    PROVE  x % m = x
OBVIOUS

LEMMA LimitAsWritten ==
    ASSUME PagingAssumption, NEW st \in Stacks, NEW q \in Int, 0 <= q, q < Half
    PROVE  Limit(st, q) = q
<1>1. q < Wide /\ Half \in Nat \ {0} /\ Wide \in Nat /\ q # Absent /\ q # Text
  BY DEF PagingAssumption
<1>2. Atoi(q) = q
  BY <1>1 DEF Atoi
<1>3. (q + Half) % (2 * Half) = q + Half
  <2>1. q + Half \in Nat /\ 2 * Half \in Nat \ {0} /\ q + Half < 2 * Half
    BY <1>1
  <2> DEFINE x == q + Half
             m == 2 * Half
  <2>2. x % m = x
    <3> HIDE DEF x, m
    <3> QED BY <2>1, ModSmall DEF x, m
  <2> QED BY <2>2
<1>4. LimitGo(q) = q
  BY <1>1, <1>2, <1>3 DEF LimitGo, Int32
<1>5. LimitPython(q) = q /\ LimitTs(q) = q
  BY <1>1 DEF LimitPython, LimitTs
<1>6. st \in {"go", "python", "ts"}
  BY DEF PagingAssumption
<1> QED
  BY <1>4, <1>5, <1>6 DEF Limit

(* A page is the front part of what lies behind the cursor: what its last row *)
(* has passed is in it; and all of it if it is shorter than the limit.        *)
LEMMA PageFacts ==
    ASSUME NEW rows \in SUBSET Nat, NEW n, NEW c \in Nat, NEW P \in SelectByCursor(rows, n, c)
    PROVE  /\ P \subseteq rows /\ \A x \in P : x > c
           /\ \A i \in rows, p \in P : i > c /\ i <= p => i \in P
           /\ n # All => Cardinality(P) <= n \/ Cardinality(P) = n
           /\ (n # All => Cardinality(P) # n) => P = After(rows, c)
<1>1. P \in SUBSET After(rows, c) /\ First(P, After(rows, c))
  BY DEF SelectByCursor
<1>2. \A i \in rows, p \in P : i > c /\ i <= p => i \in P
  BY <1>1 DEF First, After
<1> QED
  BY <1>1, <1>2 DEF SelectByCursor, After
LEMMA AppendFacts ==
    ASSUME NEW S, NEW s \in Seq(S), NEW x \in S
    PROVE  /\ Append(s, x) \in Seq(S)
           /\ \A k \in DOMAIN s : Append(s, x)[k] = s[k] /\ k < Len(s) + 1
           /\ Append(s, x)[Len(s) + 1] = x
           /\ DOMAIN Append(s, x) = DOMAIN s \cup {Len(s) + 1}
           /\ DOMAIN s = 1..Len(s) /\ Len(s) \in Nat
OBVIOUS

(* The ids answered are behind the cursor. *)
LEMMA SeenFacts ==
    ASSUME PagingAssumption, IInv
    PROVE  /\ Seen \subseteq Ids /\ Ids \subseteq Nat \ {0} /\ cursor \in Nat
           /\ \A x \in Seen : x <= cursor
<1>1. \A k \in DOMAIN pages : pages[k] \subseteq Ids
  BY DEF IInv, TypeOK
<1>2. Seen \subseteq Ids /\ Ids \subseteq Nat \ {0}
  BY <1>1 DEF Seen, PagingAssumption
<1>3. cursor \in Nat
  BY <1>2 DEF IInv, TypeOK
<1> QED
  BY <1>2, <1>3 DEF IInv, BehindCursor, Seen

-----------------------------------------------------------------------------
LEMMA NextPageKeeps ==
    ASSUME PagingAssumption, IInv, NextPage
    PROVE  IInv'
<1> DEFINE n == Limit(stack, limit)
           c == cursor
           m == Len(pages) + 1
<1>1. PICK P \in SelectByCursor(present, n, c) :
          /\ pages' = Append(pages, P)
          /\ \/ P = {} /\ cursor' = cursor
             \/ \E i \in P : cursor' = i /\ \A j \in P : j <= i
          /\ ended' \in {P = {}, Stops(P)}
  BY DEF NextPage
<1>2. UNCHANGED <<present, stack, limit, stayed>> /\ ended = FALSE
  BY DEF NextPage, IInv, TypeOK
<1>3. /\ Seen \subseteq Ids /\ Ids \subseteq Nat \ {0} /\ c \in Nat
      /\ \A x \in Seen : x <= c
  BY SeenFacts
<1>4. present \in SUBSET Nat /\ present \subseteq Ids /\ stayed \subseteq present
  BY <1>3 DEF IInv, TypeOK
<1>5. /\ P \subseteq present /\ \A x \in P : x > c
      /\ \A i \in present, p \in P : i > c /\ i <= p => i \in P
      /\ n # All => Cardinality(P) <= n \/ Cardinality(P) = n
      /\ (n # All => Cardinality(P) # n) => P = After(present, c)
  <2> HIDE DEF n
  <2> QED BY <1>3, <1>4, <1>1, PageFacts
<1>6. P \in SUBSET Ids /\ pages \in Seq(SUBSET Ids)
  BY <1>4, <1>5 DEF IInv, TypeOK
<1>7. /\ pages' \in Seq(SUBSET Ids)
      /\ \A k \in DOMAIN pages : pages'[k] = pages[k] /\ k < m
      /\ pages'[m] = P
      /\ DOMAIN pages' = DOMAIN pages \cup {m}
      /\ DOMAIN pages = 1..Len(pages) /\ Len(pages) \in Nat
  <2> HIDE DEF m
  <2> QED BY <1>1, <1>6, AppendFacts DEF m
<1>8. Seen' = Seen \cup P
  <2>1. Seen' = UNION {pages'[k] : k \in DOMAIN pages \cup {m}}
    BY <1>7 DEF Seen
  <2> QED BY <1>7, <2>1 DEF Seen
<1>9. /\ cursor' \in Nat /\ c <= cursor' /\ \A x \in P : x <= cursor'
      /\ cursor' = c \/ cursor' \in P
  BY <1>1, <1>3, <1>5, <1>6
<1> HIDE DEF n, m
<1>10. TypeOK'
  <2>1. cursor' \in {0} \cup Seen'
    BY <1>8, <1>9 DEF IInv, TypeOK
  <2>2. ended' \in BOOLEAN
    BY <1>1 DEF Stops
  <2> QED BY <1>2, <1>7, <2>1, <2>2 DEF IInv, TypeOK
<1>11. BehindCursor'
  <2> SUFFICES ASSUME NEW k \in DOMAIN pages', NEW x \in pages'[k] PROVE x <= cursor'
    BY DEF BehindCursor
  <2>1. CASE k = m
    BY <1>7, <1>9, <2>1
  <2>2. CASE k # m
    <3>1. x \in Seen /\ x <= c /\ x \in Nat
      BY <1>3, <1>7, <2>2 DEF Seen
    <3> QED BY <1>3, <1>9, <3>1
  <2> QED BY <2>1, <2>2
<1>12. OnceInOrder'
  <2> SUFFICES ASSUME NEW j \in DOMAIN pages', NEW k \in DOMAIN pages', j < k,
                      NEW x \in pages'[j], NEW y \in pages'[k]
               PROVE  x < y
    BY DEF OnceInOrder
  <2>1. j # m
    BY <1>7 DEF m
  <2>2. j \in DOMAIN pages /\ x \in pages[j]
    BY <1>7, <2>1
  <2>3. CASE k = m
    <3>1. y \in P /\ y > c /\ y \in Nat
      BY <1>5, <1>6, <1>7, <1>3, <2>3
    <3>2. x \in Seen /\ x <= c /\ x \in Nat
      BY <1>3, <2>2 DEF Seen
    <3> QED BY <1>3, <3>1, <3>2
  <2>4. CASE k # m
    BY <1>7, <2>2, <2>4 DEF IInv, OnceInOrder
  <2> QED BY <2>3, <2>4
<1>13. NonePassedOver'
  <2> SUFFICES ASSUME NEW i \in stayed, i <= cursor' PROVE i \in Seen'
    BY <1>2 DEF NonePassedOver
  <2>1. i \in present /\ i \in Nat
    BY <1>4
  <2>2. CASE i <= c
    BY <1>8, <2>2 DEF IInv, NonePassedOver
  <2>3. CASE ~(i <= c)
    <3>1. i > c /\ cursor' \in P
      BY <1>3, <1>9, <2>1, <2>3
    <3> QED BY <1>5, <1>8, <2>1, <3>1
  <2> QED BY <2>2, <2>3
<1>14. limit \in Int /\ 0 <= limit /\ limit < Half => n = limit /\ n # All
  BY LimitAsWritten DEF n, IInv, TypeOK, PagingAssumption
<1>15. LimitObeyed'
  <2> SUFFICES ASSUME limit \in Int, 0 <= limit, limit < Half, NEW k \in DOMAIN pages'
               PROVE  Cardinality(pages'[k]) <= limit
    BY <1>2 DEF LimitObeyed
  <2>1. CASE k = m
    BY <1>5, <1>7, <1>14, <2>1
  <2>2. CASE k # m
    BY <1>7, <2>2 DEF IInv, LimitObeyed
  <2> QED BY <2>1, <2>2
<1>16. Complete'
  <2> SUFFICES ASSUME ended', limit \in Int, 1 <= limit, limit < Half
               PROVE  stayed \subseteq Seen'
    BY <1>2 DEF Complete
  <2>1. n = limit /\ n # All
    BY <1>14
  <2>2. Stops(P)
    BY <1>1 DEF Stops
  <2>3. Cardinality(P) # n
    BY <2>1, <2>2, FS_EmptySet DEF Stops
  <2>4. P = After(present, c)
    BY <1>5, <2>3
  <2>5. ASSUME NEW i \in stayed PROVE i \in Seen'
    <3>1. i \in present /\ i \in Nat
      BY <1>4
    <3>2. CASE i <= c
      BY <1>8, <3>2 DEF IInv, NonePassedOver
    <3>3. CASE ~(i <= c)
      <4>1. i > c
        BY <1>3, <3>1, <3>3
      <4> QED BY <1>8, <2>4, <3>1, <4>1 DEF After
    <3> QED BY <3>2, <3>3
  <2> QED BY <2>5
<1> QED
  BY <1>10, <1>11, <1>12, <1>13, <1>15, <1>16 DEF IInv

-----------------------------------------------------------------------------
(* The inductive invariant, for any table, limits, stacks and writers. *)
LEMMA Invariance == Spec => []IInv
<1> USE PagingAssumption
<1>1. Init => IInv
  <2> SUFFICES ASSUME Init PROVE IInv
    OBVIOUS
  <2>1. Seen = {} /\ DOMAIN pages = {}
    BY DEF Init, Seen
  <2>2. TypeOK
    <3>1. <<>> \in Seq(SUBSET Ids)
      OBVIOUS
    <3>2. pages \in Seq(SUBSET Ids)
      BY <3>1 DEF Init
    <3> QED BY <2>1, <3>2 DEF Init, TypeOK
  <2>3. NonePassedOver
    <3>1. \A i \in stayed : i \in Nat \ {0}
      BY DEF Init, PagingAssumption
    <3> QED BY <3>1 DEF Init, NonePassedOver
  <2> QED BY <2>1, <2>2, <2>3 DEF Init, IInv, BehindCursor, OnceInOrder, LimitObeyed, Complete
<1>2. IInv /\ [Next]_vars => IInv'
  <2> SUFFICES ASSUME IInv, [Next]_vars PROVE IInv'
    OBVIOUS
  <2>1. CASE UNCHANGED vars
    BY <2>1 DEF vars, IInv, TypeOK, BehindCursor, OnceInOrder, NonePassedOver, LimitObeyed,
                Complete, Seen
  <2>2. CASE Refusal
    <3>1. UNCHANGED <<present, stack, limit, cursor, pages, stayed>> /\ ended' = TRUE
      BY <2>2 DEF Refusal
    <3>2. ~(limit \in Int /\ 0 <= limit /\ limit < Half)
      BY <2>2, LimitAsWritten DEF Refusal, IInv, TypeOK, PagingAssumption
    <3>3. Complete'
      BY <3>1, <3>2 DEF Complete
    <3> QED BY <3>1, <3>3 DEF IInv, TypeOK, BehindCursor, OnceInOrder, NonePassedOver,
                              LimitObeyed, Seen
  <2>3. CASE NextPage
    BY <2>3, NextPageKeeps
  <2>4. CASE ~ended /\ Writes
    <3>1. /\ UNCHANGED <<stack, limit, cursor, pages, ended>> /\ ~ended
          /\ stayed' \subseteq stayed /\ stayed' \subseteq present' /\ present' \subseteq Ids
      BY <2>4 DEF Writes, Insert, Remove, IInv, TypeOK
    <3>2. NonePassedOver'
      BY <3>1 DEF IInv, NonePassedOver, Seen
    <3> QED BY <3>1, <3>2 DEF IInv, TypeOK, BehindCursor, OnceInOrder, LimitObeyed, Complete, Seen
  <2> QED BY <2>1, <2>2, <2>3, <2>4 DEF Next
<1> QED
  BY <1>1, <1>2, PTL DEF Spec

(* Nobody is answered twice, none before one of a smaller id, and no page is    *)
(* longer than it was asked for, whatever is inserted and deleted between the    *)
(* pages (SelectByCursor of the repositories).                                  *)
THEOREM PagesAreOrdered == Spec => []Inv
<1>1. IInv => Inv
  BY DEF IInv, Inv
<1> QED
  BY <1>1, Invariance, PTL

(* A user who was there all the time is not passed over by the cursor, even if   *)
(* the users next to it come and go (WHERE id > after ORDER BY id LIMIT n).      *)
THEOREM NobodyPassedOver == Spec => []NonePassedOver
<1>1. IInv => NonePassedOver
  BY DEF IInv
<1> QED
  BY <1>1, Invariance, PTL

(* Go, Python and TypeScript obey the limits user.proto has, and a client that  *)
(* stops has been answered everybody who was there all the time.                *)
THEOREM PagingIsComplete == Spec => []Complete
<1>1. IInv => Complete
  BY DEF IInv
<1> QED
  BY <1>1, Invariance, PTL
=============================================================================
