------------------------- MODULE UserServingTheorems -------------------------
(***************************************************************************)
(* What the statements of UsersTable return and preserve, and what the     *)
(* answers and refusals of UserServing leave behind: the lemmas the proofs *)
(* about the stacks rest on.                                               *)
(***************************************************************************)
EXTENDS UserServing, FiniteSetTheorems, WellFoundedInduction, TLAPS

-----------------------------------------------------------------------------
(* Least and greatest elements, by which First and Last are chosen.        *)

(* The order of the naturals is well founded, with the relation unnamed.   *)
LEMMA LessIsWellFounded ==
    \E R : /\ IsWellFoundedOn(R, Nat)
           /\ \A x, y \in Nat : <<y, x>> \in R <=> y < x
<1>1. \A x, y \in Nat : <<y, x>> \in OpToRel(<, Nat) <=> y < x
  BY DEF OpToRel
<1> QED BY <1>1, NatLessThanWellFounded, Zenon

(* A nonempty set of naturals has a least element.                         *)
LEMMA LeastNat ==
    ASSUME NEW T, T \subseteq Nat, T # {}
    PROVE  \E m \in T : \A k \in T : m <= k
<1>1. PICK R : /\ IsWellFoundedOn(R, Nat)
               /\ \A x, y \in Nat : <<y, x>> \in R <=> y < x
  BY LessIsWellFounded
<1>2. PICK m \in T : \A y \in T : ~ (<<y, m>> \in R)
  BY <1>1, WFMin
<1>3. \A y \in T : ~ (y < m)
  BY <1>1, <1>2
<1>4. \A y \in T : m <= y
  BY <1>3
<1> QED BY <1>4

(* A nonempty set of naturals with an upper bound has a greatest element.  *)
LEMMA GreatestNat ==
    ASSUME NEW n \in Nat, NEW T, T \subseteq 0..n, T # {}
    PROVE  \E m \in T : \A k \in T : k <= m
<1> DEFINE D == {n - k : k \in T}
<1>0. \A k \in T : k \in Nat /\ n - k \in Nat
  OBVIOUS
<1>1. D \subseteq Nat /\ D # {}
  BY <1>0
<1>2. PICK d \in D : \A e \in D : d <= e
  BY <1>1, LeastNat
<1>3. PICK m \in T : d = n - m
  OBVIOUS
<1>4. ASSUME NEW k \in T PROVE k <= m
  <2>1. n - k \in D
    OBVIOUS
  <2>2. n - m <= n - k
    BY <2>1, <1>2, <1>3
  <2> QED BY <2>2, <1>0
<1> QED BY <1>4

(* First and Last pick an element of a nonempty set of indices.            *)
LEMMA FirstLastType ==
    ASSUME NEW n \in Nat, NEW T, T \subseteq 1..n, T # {}
    PROVE  /\ First(T) \in T
           /\ Last(T) \in T
<1>0. T \subseteq Nat /\ T \subseteq 0..n
  OBVIOUS
<1>1. \E k \in T : \A j \in T : k <= j
  BY <1>0, LeastNat
<1>2. \E k \in T : \A j \in T : j <= k
  BY <1>0, GreatestNat
<1>3. First(T) \in T
  BY <1>1 DEF First
<1>4. Last(T) \in T
  BY <1>2 DEF Last
<1> QED BY <1>3, <1>4

-----------------------------------------------------------------------------
(* Types.                                                                  *)

(* The factory builds a user, the user it names.                           *)
LEMMA NewUserType ==
    ASSUME NEW p \in Param, WellFormed(p), NEW i \in Ids, NEW at \in Times
    PROVE  NewUser(i, p, at) \in User
BY DEF WellFormed, NewUser, User

(* A row is a user without its key.                                        *)
LEMMA RowOfType == ASSUME NEW u \in User PROVE RowOf(u) \in Row
BY DEF RowOf, User, Row

(* A write leaves a table of rows.                                         *)
LEMMA WrittenType ==
    ASSUME NEW t \in Table, NEW us \in Seq(User), NEW n \in 0..Len(us)
    PROVE  Written(t, us, n) \in Table
<1> SUFFICES ASSUME NEW i \in Ids, Writes(us, n, i) # {}
             PROVE  RowOf(us[Last(Writes(us, n, i))]) \in Row
  BY DEF Written, Table
<1>1. Writes(us, n, i) \subseteq 1..n
  BY DEF Writes
<1>2. Last(Writes(us, n, i)) \in 1..Len(us)
  BY <1>1, FirstLastType
<1> QED BY <1>2, RowOfType

LEMMA InsertedType ==
    ASSUME NEW t \in Table, NEW us \in Seq(User)
    PROVE  Inserted(t, us) \in Table
<1>1. Len(us) \in 0..Len(us)
  OBVIOUS
<1> QED BY <1>1, WrittenType DEF Inserted

(* So does a removal.                                                      *)
LEMMA RemovedType ==
    ASSUME NEW t \in Table, NEW S
    PROVE  Removed(t, S) \in Table
BY DEF Removed, Table

(* A user under a present key is a row; under an absent one, it is not.    *)
LEMMA PresentRow ==
    ASSUME NEW t \in Table, NEW i \in Present(t)
    PROVE  i \in Ids /\ t[i] \in Row /\ t[i] # NoRow
BY DEF Present, Table

(* Removing users keeps e-mails unique.                                    *)
LEMMA RemovedUnique ==
    ASSUME NEW t \in Table, EmailsUnique(t), NEW S
    PROVE  EmailsUnique(Removed(t, S))
<1>1. \A i \in Present(Removed(t, S)) : i \in Present(t) /\ Removed(t, S)[i] = t[i]
  BY DEF Present, Removed
<1> QED BY <1>1 DEF EmailsUnique

(* Only a key that is written comes into the table.                        *)
LEMMA InsertedPresent ==
    ASSUME NEW t, NEW us \in Seq(User), NEW i \in Present(Inserted(t, us))
    PROVE  i \in Ids /\ (i \in Present(t) \/ \E k \in DOMAIN us : us[k].id = i)
<1>1. i \in Ids /\ Inserted(t, us)[i] # NoRow
  BY DEF Present
<1>2. CASE Writes(us, Len(us), i) = {}
  BY <1>1, <1>2 DEF Inserted, Written, Present
<1>3. CASE Writes(us, Len(us), i) # {}
  BY <1>1, <1>3 DEF Writes
<1> QED BY <1>2, <1>3, <1>1

(* A user written once is what is read back under its key.                 *)
LEMMA WrittenOnce ==
    ASSUME NEW t \in Table, NEW us \in Seq(User), DistinctIds(us),
           NEW k \in DOMAIN us
    PROVE  us[k].id \in Ids /\ Inserted(t, us)[us[k].id] = RowOf(us[k])
<1> DEFINE i == us[k].id
           W == Writes(us, Len(us), i)
<1>1. us[k] \in User /\ i \in Ids /\ k \in 1..Len(us)
  <2>1. us[k] \in User /\ k \in 1..Len(us)
    OBVIOUS
  <2> QED BY <2>1 DEF User
<1>2. W = {k} /\ W # {} /\ W \subseteq 1..Len(us) /\ Len(us) \in Nat
  <2>1. DOMAIN us = 1..Len(us) /\ Len(us) \in Nat
    OBVIOUS
  <2>2. \A j \in 1..Len(us) : us[j].id = i <=> j = k
    BY <1>1, <2>1 DEF DistinctIds
  <2>3. W = {k}
    BY <1>1, <2>2 DEF Writes
  <2> QED BY <1>1, <2>1, <2>3
<1>3. Last(W) = k
  <2> HIDE DEF W
  <2> QED BY <1>2, FirstLastType
<1>4. Inserted(t, us)[i] = RowOf(us[Last(W)])
  BY <1>1, <1>2 DEF Inserted, Written
<1> QED BY <1>1, <1>3, <1>4

(* A key that is not written keeps its row.                                *)
LEMMA NotWritten ==
    ASSUME NEW t \in Table, NEW us \in Seq(User), NEW i \in Ids,
           \A k \in DOMAIN us : us[k].id # i
    PROVE  Inserted(t, us)[i] = t[i]
<1>1. Writes(us, Len(us), i) = {}
  BY DEF Writes
<1> QED BY <1>1 DEF Inserted, Written

(* An insert of new, distinct keys fails for an e-mail only.               *)
LEMMA ClashIsEmail ==
    ASSUME NEW t \in Table, EmailsUnique(t), NEW us \in Seq(User),
           DistinctIds(us), \A k \in DOMAIN us : t[us[k].id] = NoRow,
           ~ InsertOk(t, us)
    PROVE  \/ \E k \in DOMAIN us, i \in Present(t) : t[i].email = us[k].email
           \/ \E j, k \in DOMAIN us : j # k /\ us[j].email = us[k].email
<1> DEFINE after == Inserted(t, us)
<1>1. PICK i \in Present(after), j \in Present(after) :
            after[i].email = after[j].email /\ i # j
  BY DEF InsertOk, EmailsUnique
<1> HIDE DEF after
<1>2. ASSUME NEW x \in Present(after)
      PROVE  \/ x \in Present(t) /\ after[x] = t[x]
             \/ \E k \in DOMAIN us : us[k].id = x /\ after[x].email = us[k].email
  <2>1. x \in Ids /\ after[x] # NoRow
    BY DEF Present
  <2>2. CASE \E k \in DOMAIN us : us[k].id = x
    <3>1. PICK k \in DOMAIN us : us[k].id = x
      BY <2>2
    <3>2. after[x] = RowOf(us[k])
      BY <3>1, WrittenOnce DEF after
    <3> QED BY <3>1, <3>2 DEF RowOf
  <2>3. CASE \A k \in DOMAIN us : us[k].id # x
    BY <2>1, <2>3, NotWritten DEF after, Present
  <2> QED BY <2>2, <2>3
<1>3. ~ (i \in Present(t) /\ after[i] = t[i] /\ j \in Present(t) /\ after[j] = t[j])
  BY <1>1 DEF EmailsUnique
<1> QED BY <1>1, <1>2, <1>3

-----------------------------------------------------------------------------
(* Requests and what they build.                                          *)

(* A request being served is one a client may send.                        *)
LEMMA ServedRequest ==
    ASSUME TypeOK, NEW c \in Clients, req[c] # NoRequest
    PROVE  /\ req[c] \in Requests
           /\ req[c] \in Request
           /\ req[c].users \in Seq(Param)
           /\ req[c].ids \in Seq(Ids)
<1>1. req[c] \in Requests
  BY DEF TypeOK
<1> QED BY <1>1, RequestAssumption DEF Request

(* A request about one user names it.                                      *)
LEMMA ServedUser ==
    ASSUME TypeOK, NEW c \in Clients,
           Serving(c, "Create") \/ Serving(c, "Update")
    PROVE  /\ req[c].users[1] \in Param
           /\ Len(req[c].users) = 1
           /\ Serving(c, "Update") => req[c].users[1].id \in Ids
<1>1. req[c] \in Requests /\ req[c].users \in Seq(Param)
  BY ServedRequest DEF Serving
<1>2. Len(req[c].users) = 1
  BY <1>1, RequestAssumption DEF Serving
<1> QED BY <1>1, <1>2, RequestAssumption DEF Serving

(* The users a bulk request builds.                                        *)
LEMMA BuiltType ==
    ASSUME NEW ps \in Seq(Param), \A p \in Range(ps) : WellFormed(p),
           NEW ids \in [1..Len(ps) -> Ids], NEW at \in [1..Len(ps) -> Times]
    PROVE  LET us == [k \in 1..Len(ps) |-> NewUser(ids[k], ps[k], at[k])] IN
           us \in Seq(User) /\ Len(us) = Len(ps) /\ DOMAIN us = 1..Len(ps)
<1> DEFINE us == [k \in 1..Len(ps) |-> NewUser(ids[k], ps[k], at[k])]
<1>1. ASSUME NEW k \in 1..Len(ps) PROVE NewUser(ids[k], ps[k], at[k]) \in User
  <2>1. ps[k] \in Param /\ WellFormed(ps[k])
    BY DEF Range
  <2> QED BY <2>1, NewUserType
<1>2. us \in [1..Len(ps) -> User]
  BY <1>1
<1>3. Len(ps) \in Nat
  OBVIOUS
<1> HIDE DEF us
<1>4. us \in Seq(User) /\ Len(us) = Len(ps) /\ DOMAIN us = 1..Len(ps)
  BY <1>2, <1>3
<1> QED BY <1>4 DEF us

(* What a handler builds of the users it is sent, each under a key and a   *)
(* time of its own.                                                        *)
Built(ps, ids, at) == [k \in 1..Len(ps) |-> NewUser(ids[k], ps[k], at[k])]

(* What the users us so built are.                                         *)
BuiltOf(us, ps, ids, at) ==
    /\ us \in Seq(User) /\ Len(us) = Len(ps) /\ DOMAIN us = 1..Len(ps)
    /\ \A k \in 1..Len(ps) :
        /\ ps[k] \in Range(ps) /\ WellFormed(ps[k])
        /\ us[k] = NewUser(us[k].id, ps[k], us[k].at)
        /\ us[k].id = ids[k] /\ us[k].at = at[k]
        /\ us[k].email = ps[k].email.addr

LEMMA BuiltUsers ==
    ASSUME NEW ps \in Seq(Param), \A p \in Range(ps) : WellFormed(p),
           NEW ids \in [1..Len(ps) -> Ids], NEW at \in [1..Len(ps) -> Times]
    PROVE  BuiltOf(Built(ps, ids, at), ps, ids, at)
<1> DEFINE us == Built(ps, ids, at)
<1>1. us \in Seq(User) /\ Len(us) = Len(ps) /\ DOMAIN us = 1..Len(ps)
  BY BuiltType DEF Built
<1>2. ASSUME NEW k \in 1..Len(ps)
      PROVE  /\ ps[k] \in Range(ps) /\ WellFormed(ps[k])
             /\ us[k] = NewUser(us[k].id, ps[k], us[k].at)
             /\ us[k].id = ids[k] /\ us[k].at = at[k]
             /\ us[k].email = ps[k].email.addr
  <2>1. ps[k] \in Range(ps)
    BY DEF Range
  <2>2. us[k] = NewUser(ids[k], ps[k], at[k])
    BY DEF Built
  <2> HIDE DEF us
  <2> QED BY <2>1, <2>2 DEF NewUser
<1> HIDE DEF us
<1>3. BuiltOf(us, ps, ids, at)
  BY <1>1, <1>2 DEF BuiltOf
<1> QED BY <1>3 DEF us

(* us is what the request on c builds of the users it was sent...          *)
Builds(c, us) ==
    /\ us \in Seq(User)
    /\ Len(us) = Len(req[c].users)
    /\ \A k \in DOMAIN us :
        /\ WellFormed(req[c].users[k])
        /\ us[k] = NewUser(us[k].id, req[c].users[k], us[k].at)

(* ... under new keys (creates) ...                                        *)
BuildsNew(c, us) ==
    /\ Builds(c, us)
    /\ DistinctIds(us)
    /\ \A k \in DOMAIN us : us[k].id \in Fresh

(* ... or under those it names, with the times it brings (upserts).        *)
BuildsNamed(c, us) ==
    /\ Builds(c, us)
    /\ \A k \in DOMAIN us :
        /\ us[k].id = req[c].users[k].id
        /\ req[c].users[k].at \in Times => us[k].at = req[c].users[k].at

(* The keys and times under which the users us were built.                 *)
LEMMA BuiltUnder ==
    ASSUME NEW c, req[c].users \in Seq(Param), NEW us, Builds(c, us)
    PROVE  \E ids \in [DOMAIN req[c].users -> Ids],
              at \in [DOMAIN req[c].users -> Times] :
              /\ ids = [k \in DOMAIN req[c].users |-> us[k].id]
              /\ us = [k \in DOMAIN req[c].users |->
                            NewUser(ids[k], req[c].users[k], at[k])]
<1> DEFINE ps == req[c].users
           ids == [k \in DOMAIN ps |-> us[k].id]
           at == [k \in DOMAIN ps |-> us[k].at]
<1>1. /\ us \in Seq(User) /\ DOMAIN us = DOMAIN ps
      /\ \A k \in DOMAIN us : us[k] = NewUser(us[k].id, ps[k], us[k].at)
  BY DEF Builds
<1>2. \A k \in DOMAIN ps : us[k].id \in Ids /\ us[k].at \in Times
  <2>1. \A k \in DOMAIN ps : us[k] \in User
    BY <1>1
  <2> QED BY <2>1 DEF User
<1>3. ids \in [DOMAIN ps -> Ids] /\ at \in [DOMAIN ps -> Times]
  BY <1>2
<1>4. us = [k \in DOMAIN ps |-> NewUser(ids[k], ps[k], at[k])]
  <2>1. us = [k \in DOMAIN ps |-> us[k]]
    BY <1>1
  <2> QED BY <1>1, <2>1
<1> QED BY <1>3, <1>4

LEMMA CreateBuilds ==
    ASSUME NEW c, req[c].users \in Seq(Param),
           \A p \in Range(req[c].users) : WellFormed(p),
           NEW ids \in FreshKeys(Len(req[c].users)),
           NEW at \in [1..Len(req[c].users) -> Times]
    PROVE  BuildsNew(c, Built(req[c].users, ids, at))
<1>1. PICK ps \in Seq(Param) : ps = req[c].users
  OBVIOUS
<1>2. PICK us : us = Built(ps, ids, at)
  OBVIOUS
<1>3. /\ ids \in [1..Len(ps) -> Fresh] /\ ids \in [1..Len(ps) -> Ids]
      /\ IsInjective(ids)
  BY <1>1 DEF FreshKeys, Fresh
<1>4. BuiltOf(us, ps, ids, at)
  <2>1. at \in [1..Len(ps) -> Times] /\ \A p \in Range(ps) : WellFormed(p)
    BY <1>1
  <2> QED BY <1>2, <1>3, <2>1, BuiltUsers
<1>5. DistinctIds(us) /\ \A k \in DOMAIN us : us[k].id \in Fresh
  BY <1>3, <1>4 DEF BuiltOf, DistinctIds, IsInjective
<1>6. Builds(c, us)
  BY <1>1, <1>4 DEF BuiltOf, Builds
<1> QED BY <1>1, <1>2, <1>5, <1>6 DEF BuildsNew

LEMMA NamedBuilds ==
    ASSUME NEW c, req[c].users \in Seq(Param),
           \A p \in Range(req[c].users) : WellFormed(p) /\ p.id \in Ids,
           NEW now \in [1..Len(req[c].users) -> Times]
    PROVE  BuildsNamed(c, [k \in 1..Len(req[c].users) |->
              NewUser(req[c].users[k].id, req[c].users[k],
                      AtOr(req[c].users[k], now[k]))])
<1>1. PICK ps \in Seq(Param) : ps = req[c].users
  OBVIOUS
<1>2. PICK ids \in [1..Len(ps) -> Ids], at \in [1..Len(ps) -> Times] :
          /\ ids = [k \in 1..Len(ps) |-> ps[k].id]
          /\ at = [k \in 1..Len(ps) |-> AtOr(ps[k], now[k])]
  <2>1. ASSUME NEW k \in 1..Len(ps)
        PROVE  ps[k].id \in Ids /\ AtOr(ps[k], now[k]) \in Times
    <3>1. ps[k] \in Param /\ ps[k] \in Range(ps)
      BY <1>1 DEF Range
    <3>2. now[k] \in Times
      BY <1>1
    <3> QED BY <1>1, <3>1, <3>2 DEF AtOr, Param
  <2> QED BY <2>1
<1>3. PICK us : us = Built(ps, ids, at)
  OBVIOUS
<1>4. us = [k \in 1..Len(ps) |-> NewUser(ps[k].id, ps[k], AtOr(ps[k], now[k]))]
  BY <1>2, <1>3 DEF Built
<1>5. BuiltOf(us, ps, ids, at)
  <2>1. ids \in [1..Len(ps) -> Ids] /\ at \in [1..Len(ps) -> Times]
    BY <1>2
  <2>2. \A p \in Range(ps) : WellFormed(p)
    BY <1>1
  <2> QED BY <1>3, <2>1, <2>2, BuiltUsers
<1>6. \A k \in DOMAIN us :
        us[k].id = ps[k].id /\ (ps[k].at \in Times => us[k].at = ps[k].at)
  BY <1>2, <1>5 DEF BuiltOf, AtOr
<1>7. Builds(c, us)
  BY <1>1, <1>5 DEF BuiltOf, Builds
<1> QED BY <1>1, <1>4, <1>6, <1>7 DEF BuildsNamed

(* As many rows as ids are gone exactly when the ids were distinct and all *)
(* there.                                                                  *)
LEMMA CountedRows ==
    ASSUME NEW S, NEW ids \in Seq(S), NEW P
    PROVE  Cardinality(Range(ids) \cap P) = Len(ids)
             <=> Range(ids) \subseteq P /\ IsInjective(ids)
<1> DEFINE R == Range(ids)
           n == Len(ids)
<1>1. n \in Nat /\ DOMAIN ids = 1..n /\ ids \in Surjection(1..n, R)
  BY DEF Range, Surjection
<1>2. IsFiniteSet(1..n) /\ Cardinality(1..n) = n
  BY <1>1, FS_Interval
<1> HIDE DEF R, n
<1>3. /\ IsFiniteSet(R)
      /\ Cardinality(R) <= n
      /\ Cardinality(R) = n <=> ids \in Injection(1..n, R)
  BY <1>1, <1>2, FS_Surjection
<1>4. /\ Cardinality(R \cap P) <= Cardinality(R)
      /\ Cardinality(R) = Cardinality(R \cap P) => R = R \cap P
      /\ Cardinality(R) \in Nat /\ Cardinality(R \cap P) \in Nat
  <2>1. R \cap P \in SUBSET R
    OBVIOUS
  <2>2. IsFiniteSet(R \cap P)
    BY <1>3, <2>1, FS_Subset
  <2> QED BY <1>3, <2>1, <2>2, FS_Subset, FS_CardinalityType
<1>5. ids \in Injection(1..n, R) <=> IsInjective(ids)
  BY <1>1 DEF Injection, Surjection
<1>6. Cardinality(R \cap P) = n <=> R \subseteq P /\ IsInjective(ids)
  <2>1. ASSUME Cardinality(R \cap P) = n PROVE R \subseteq P /\ IsInjective(ids)
    <3>1. Cardinality(R) = n /\ Cardinality(R) = Cardinality(R \cap P)
      BY <1>1, <1>3, <1>4, <2>1
    <3> QED BY <1>3, <1>4, <1>5, <3>1
  <2>2. ASSUME R \subseteq P, IsInjective(ids) PROVE Cardinality(R \cap P) = n
    <3>1. R \cap P = R
      BY <2>2
    <3> QED BY <1>3, <1>5, <2>2, <3>1
  <2> QED BY <2>1, <2>2
<1> QED BY <1>6 DEF R, n

-----------------------------------------------------------------------------
(* Answers, refusals and drafts.                                           *)

(* An answer of the right type keeps everything but the table well typed.  *)
LEMMA AnswerType ==
    ASSUME TypeOK, NEW c \in Clients, NEW st \in Statuses, NEW us \in Seq(User),
           Answer(c, st, us)
    PROVE  /\ req' \in [Clients -> Requests \cup {NoRequest}]
           /\ draft' \in [Clients -> Seq(User)]
           /\ reply' \in [Clients -> Replies]
BY DEF TypeOK, Answer, Replies

LEMMA RefuseType ==
    ASSUME TypeOK, NEW c \in Clients, NEW st \in Statuses, Refuse(c, st)
    PROVE  TypeOK'
<1>1. <<>> \in Seq(User)
  OBVIOUS
<1> QED BY <1>1, AnswerType DEF TypeOK, Refuse

(* So does what ends a request that took effect.                           *)
LEMMA LandedType ==
    ASSUME TypeOK, NEW c \in Clients, NEW st \in Statuses, NEW us \in Seq(User),
           NEW lost \in Statuses, Landed(c, st, us, lost)
    PROVE  /\ req' \in [Clients -> Requests \cup {NoRequest}]
           /\ draft' \in [Clients -> Seq(User)]
           /\ reply' \in [Clients -> Replies]
<1>1. <<>> \in Seq(User)
  OBVIOUS
<1> QED BY <1>1, AnswerType DEF Landed

LEMMA LandedNoneType ==
    ASSUME TypeOK, NEW c \in Clients, NEW st \in Statuses, NEW lost \in Statuses,
           Landed(c, st, <<>>, lost)
    PROVE  /\ req' \in [Clients -> Requests \cup {NoRequest}]
           /\ draft' \in [Clients -> Seq(User)]
           /\ reply' \in [Clients -> Replies]
<1>1. <<>> \in Seq(User)
  OBVIOUS
<1> QED BY <1>1, LandedType

(* What a handler remembers is a user.                                     *)
LEMMA DraftUser ==
    ASSUME TypeOK, NEW c \in Clients, draft[c] # <<>>
    PROVE  /\ draft[c] \in Seq(User)
           /\ draft[c][1] \in User
           /\ draft[c][1].id \in Ids
<1>1. draft[c] \in Seq(User)
  BY DEF TypeOK
<1>2. draft[c][1] \in User
  BY <1>1
<1> QED BY <1>1, <1>2 DEF User

LEMMA InitTypeOK == Init => TypeOK
BY DEF Init, TypeOK, Table, Replies, NoReply, Statuses

LEMMA SubmitType ==
    ASSUME TypeOK, NEW c \in Clients, NEW r \in Requests, Submit(c, r)
    PROVE  TypeOK'
<1>1. NoReply \in Replies
  BY DEF NoReply, Replies, Statuses
<1> QED BY <1>1 DEF TypeOK, Submit

LEMMA InitUnique == Init => UniqueEmails
BY DEF Init, UniqueEmails, EmailsUnique, Present

LEMMA InitDrafts == Init => DraftsOK /\ KeysApart
BY DEF Init, DraftsOK, KeysApart, Serving, NoRequest

(* The request on c ends, answered or not.                                 *)
Ends(c) ==
    /\ req' = [req EXCEPT ![c] = NoRequest]
    /\ draft' = [draft EXCEPT ![c] = <<>>]

(* Ending one request leaves the others' drafts alone.                     *)
LEMMA EndsDrafts ==
    ASSUME TypeOK, NEW c \in Clients, Ends(c),
           NEW d \in Clients, draft'[d] # <<>>
    PROVE  d # c /\ draft'[d] = draft[d] /\ req'[d] = req[d]
BY DEF Ends, TypeOK

LEMMA RefuseEnds ==
    ASSUME NEW c \in Clients, NEW st, Refuse(c, st)
    PROVE  Ends(c)
BY DEF Refuse, Answer, Ends

LEMMA LandedEnds ==
    ASSUME NEW c \in Clients, NEW st, NEW us, NEW lost, Landed(c, st, us, lost)
    PROVE  Ends(c)
BY DEF Landed, Answer, Ends

(* A draft is one user, that of a create or one its request names.         *)
DraftsNamed ==
    \A c \in Clients : draft[c] # <<>> =>
        /\ Len(draft[c]) = 1
        /\ req[c] # NoRequest
        /\ ~ Serving(c, "Create") => draft[c][1].id \in Named(req[c])

(* The key of an update in flight is named in its request.                 *)
LEMMA NamedKey ==
    ASSUME TypeOK, NEW c \in Clients, Serving(c, "Update")
    PROVE  req[c].users[1].id \in Named(req[c])
<1>1. req[c].users \in Seq(Param) /\ Len(req[c].users) = 1
  BY ServedUser, ServedRequest DEF Serving
<1>2. req[c].users[1] \in Range(req[c].users)
  BY <1>1 DEF Range
<1> QED BY <1>2 DEF Named

LEMMA DraftsOKNamed == TypeOK /\ DraftsOK => DraftsNamed
BY NamedKey DEF DraftsOK, DraftsNamed, Serving

(* The key of a create in flight is secret.                                *)
LEMMA SecretKey ==
    ASSUME TypeOK, DraftsNamed, NEW c \in Clients, Serving(c, "Create"), draft[c] # <<>>
    PROVE  draft[c][1].id \in Secret
<1>1. draft[c] \in Seq(User) /\ Len(draft[c]) = 1
  BY DraftUser DEF DraftsNamed
<1>2. draft[c][1] \in Range(draft[c])
  BY <1>1 DEF Range
<1> QED BY <1>2 DEF Secret, Serving

(* A fresh key is in no draft.                                             *)
LEMMA FreshKey ==
    ASSUME TypeOK, DraftsNamed, NEW i \in Fresh, NEW d \in Clients
    PROVE  /\ i \in Ids /\ i \notin Present(users)
           /\ i \notin Named(req[d])
           /\ draft[d] # <<>> => draft[d][1].id # i
<1>1. i \in Ids /\ i \notin Present(users) /\ i \notin Secret /\ i \notin Named(req[d])
  BY DEF Fresh, Mentioned
<1>2. ASSUME draft[d] # <<>> PROVE draft[d][1].id # i
  <2>1. CASE Serving(d, "Create")
    BY <1>1, <1>2, <2>1, SecretKey
  <2>2. CASE ~ Serving(d, "Create")
    BY <1>1, <1>2, <2>2 DEF DraftsNamed
  <2> QED BY <2>1, <2>2
<1> QED BY <1>1, <1>2

(* A request that arrives names no secret key.                             *)
LEMMA SubmitKeys ==
    ASSUME TypeOK, DraftsNamed, KeysApart,
           NEW e \in Clients, NEW r \in Requests, Submit(e, r)
    PROVE  KeysApart'
<1> SUFFICES ASSUME NEW c \in Clients, Serving(c, "Create")', draft'[c] # <<>>
             PROVE  /\ draft'[c][1].id \notin Present(users')
                    /\ \A d \in Clients \ {c} :
                        /\ draft'[c][1].id \notin Named(req'[d])
                        /\ draft'[d] # <<>> => draft'[d][1].id # draft'[c][1].id
  BY DEF KeysApart
<1>1. draft' = draft /\ users' = users /\ req[e] = NoRequest
  BY DEF Submit
<1>2. e # c /\ Serving(c, "Create")
  BY <1>1 DEF DraftsNamed, Serving, Submit, TypeOK
<1>3. draft[c][1].id \in Secret
  BY <1>1, <1>2, SecretKey
<1>4. draft[c][1].id \notin Named(r)
  BY <1>3 DEF Submit
<1> QED BY <1>1, <1>2, <1>4 DEF KeysApart, Submit, TypeOK

(* Where a step of request e may put a key: into the table only one that   *)
(* is there, that e names or inserts, or a new one; into its draft only a  *)
(* new one, or one e names.                                                *)
KeysMove(e) ==
    /\ \A d \in Clients \ {e} : draft'[d] = draft[d] /\ req'[d] = req[d]
    /\ req'[e] \in {req[e], NoRequest}
    /\ \A i \in Present(users') :
        \/ i \in Present(users)
        \/ i \in Named(req[e])
        \/ i \in Fresh
        \/ Serving(e, "Create") /\ draft[e] # <<>> /\ i = draft[e][1].id
    /\ draft'[e] # <<>> =>
        \/ draft'[e][1].id \in Fresh /\ users' = users
        \/ ~ Serving(e, "Create")' /\ draft'[e][1].id \in Named(req[e])

(* Such a step keeps the keys of creates in flight apart.                  *)
LEMMA KeysMoveApart ==
    ASSUME TypeOK, DraftsNamed, KeysApart, NEW e \in Clients, KeysMove(e)
    PROVE  KeysApart'
<1> SUFFICES ASSUME NEW c \in Clients, Serving(c, "Create")', draft'[c] # <<>>
             PROVE  /\ draft'[c][1].id \notin Present(users')
                    /\ \A d \in Clients \ {c} :
                        /\ draft'[c][1].id \notin Named(req'[d])
                        /\ draft'[d] # <<>> => draft'[d][1].id # draft'[c][1].id
  BY DEF KeysApart
<1>1. CASE c = e
  <2>1. draft'[c][1].id \in Fresh /\ users' = users
    BY <1>1 DEF KeysMove
  <2> QED BY <1>1, <2>1, FreshKey DEF KeysMove
<1>2. CASE c # e
  <2> DEFINE key == draft[c][1].id
  <2>1. draft'[c] = draft[c] /\ req'[c] = req[c]
    BY <1>2 DEF KeysMove
  <2>2. Serving(c, "Create") /\ draft[c] # <<>>
    BY <2>1 DEF Serving
  <2>3. key \in Ids /\ key \notin Fresh
    BY <2>2, DraftUser, FreshKey
  <2>4. /\ key \notin Present(users) /\ key \notin Named(req[e])
        /\ draft[e] # <<>> => draft[e][1].id # key
    BY <1>2, <2>2 DEF KeysApart
  <2>5. key \notin Present(users')
    BY <2>3, <2>4 DEF KeysMove
  <2>6. key \notin Named(req'[e])
    <3>1. Named(NoRequest) = {}
      BY DEF Named, NoRequest, Range
    <3> QED BY <2>4, <3>1 DEF KeysMove
  <2>7. draft'[e] # <<>> => draft'[e][1].id # key
    BY <2>3, <2>4 DEF KeysMove
  <2>8. ASSUME NEW d \in Clients \ {c, e}
        PROVE  /\ key \notin Named(req'[d])
               /\ draft'[d] # <<>> => draft'[d][1].id # key
    BY <1>2, <2>2 DEF KeysApart, KeysMove
  <2> QED BY <2>1, <2>5, <2>6, <2>7, <2>8
<1> QED BY <1>1, <1>2
=============================================================================
