-------------------------- MODULE UserApiTsTheorems --------------------------
(***************************************************************************)
(* Theorems about the two TypeScript stacks, along the lines of those      *)
(* about Go: types, uniqueness of e-mails, that every step of a handler is *)
(* one step of the contract of UserStore or none, with all its promises,   *)
(* and what becomes of a created_at.                                       *)
(***************************************************************************)
EXTENDS UserApiTsHistory, UserServingTheorems

-----------------------------------------------------------------------------
(* What each statement does, said once for all the proofs below.           *)

LEMMA BulkCreateBuilds ==
    ASSUME TypeOK, NEW c \in Clients, BulkCreate(c), ~ Refuse(c, 400)
    PROVE  \E us \in Seq(User) : BuildsNew(c, us) /\ InsertAll(c, us)
<1> DEFINE ps == req[c].users
<1>1. ps \in Seq(Param)
  BY ServedRequest DEF BulkCreate, Serving
<1>2. PICK ids \in FreshKeys(Len(ps)), now \in Times :
          InsertAll(c, [k \in 1..Len(ps) |-> NewUser(ids[k], ps[k], now)])
  BY DEF BulkCreate, InsertAll
<1>3. PICK at \in [1..Len(ps) -> Times] : at = [k \in 1..Len(ps) |-> now]
  OBVIOUS
<1>4. \A p \in Range(ps) : WellFormed(p)
  BY DEF BulkCreate
<1>5. BuildsNew(c, Built(ps, ids, at))
  BY <1>1, <1>4, CreateBuilds
<1>6. Built(ps, ids, at) = [k \in 1..Len(ps) |-> NewUser(ids[k], ps[k], now)]
  BY <1>3 DEF Built
<1> QED BY <1>2, <1>5, <1>6 DEF BuildsNew, Builds

LEMMA UpsertBuilds ==
    ASSUME TypeOK, NEW c \in Clients, Upsert(c) \/ BulkUpsert(c), ~ Refuse(c, 400)
    PROVE  \E us \in Seq(User) :
              /\ BuildsNamed(c, us)
              /\ UpsertOk(us)
              /\ users' = Upserted(us, Len(us))
              /\ Landed(c, 200, us, 400)
<1> DEFINE ps == req[c].users
           us(now) == [k \in 1..Len(ps) |->
                            NewUser(ps[k].id, ps[k], AtOr(ps[k], now))]
<1>1. ps \in Seq(Param)
  BY ServedRequest DEF Upsert, BulkUpsert, Serving
<1>2. /\ \A p \in Range(ps) : WellFormed(p) /\ p.id \in Ids
      /\ \E now \in Times : UpsertAll(c, ps, now)
  <2>1. CASE Upsert(c)
    <3>1. req[c] \in Requests /\ req[c].op = "Upsert"
      BY <2>1, ServedRequest DEF Upsert, Serving
    <3>2. Len(ps) = 1
      BY <3>1, RequestAssumption
    <3>3. \A p \in Range(ps) : p = ps[1]
      BY <1>1, <3>2 DEF Range
    <3> QED BY <2>1, <3>3 DEF Upsert, Acceptable
  <2>2. CASE BulkUpsert(c)
    BY <2>2 DEF BulkUpsert, Acceptable
  <2> QED BY <2>1, <2>2
<1>3. PICK now \in Times :
          /\ UpsertOk(us(now))
          /\ users' = Upserted(us(now), Len(us(now)))
          /\ Landed(c, 200, us(now), 400)
  BY <1>2, Zenon DEF UpsertAll
<1>4. PICK at \in [1..Len(ps) -> Times] : at = [k \in 1..Len(ps) |-> now]
  OBVIOUS
<1>5. us(now) = [k \in 1..Len(ps) |-> NewUser(ps[k].id, ps[k], AtOr(ps[k], at[k]))]
  BY <1>4
<1>6. BuildsNamed(c, us(now))
  <2>1. BuildsNamed(c, [k \in 1..Len(ps) |->
                            NewUser(ps[k].id, ps[k], AtOr(ps[k], at[k]))])
    BY <1>1, <1>2, NamedBuilds
  <2> QED BY <1>5, <2>1
<1>7. us(now) \in Seq(User)
  BY <1>6 DEF BuildsNamed, Builds
<1> HIDE DEF us
<1> QED BY <1>3, <1>6, <1>7

(* The statements of an upsert leave a table of rows.                      *)
LEMMA UpsertedType ==
    ASSUME users \in Table, NEW us \in Seq(User)
    PROVE  Upserted(us, Len(us)) \in Table
<1>1. Len(us) \in 0..Len(us)
  OBVIOUS
<1> QED BY <1>1, WrittenType DEF Upserted

(* What an upsert writes under a key is the last user it has of that key.  *)
LEMMA UpsertedRow ==
    ASSUME NEW us \in Seq(User), NEW i \in Ids, Writes(us, Len(us), i) # {}
    PROVE  LET W == Writes(us, Len(us), i) IN
           Last(W) \in W /\ Upserted(us, Len(us))[i] = RowOf(us[Last(W)])
<1> DEFINE W == Writes(us, Len(us), i)
<1>1. W \subseteq 1..Len(us) /\ Len(us) \in Nat
  BY DEF Writes
<1>2. Last(W) \in W
  <2> HIDE DEF W
  <2> QED BY <1>1, FirstLastType DEF W
<1> QED BY <1>2 DEF Upserted, Written

-----------------------------------------------------------------------------
(* Type correctness.                                                       *)

LEMMA CreateSelectType ==
    ASSUME TypeOK, NEW c \in Clients, CreateSelect(c)
    PROVE  TypeOK'
<1> DEFINE p == req[c].users[1]
<1>1. p \in Param
  BY ServedUser DEF CreateSelect
<1>2. CASE Refuse(c, 400)
  BY <1>2, RefuseType DEF Statuses
<1>3. CASE /\ WellFormed(p)
           /\ \E i \in Fresh, now \in Times :
                draft' = [draft EXCEPT ![c] = <<NewUser(i, p, now)>>]
           /\ UNCHANGED <<users, req, reply>>
  <2>1. PICK i \in Fresh, now \in Times :
            draft' = [draft EXCEPT ![c] = <<NewUser(i, p, now)>>]
    BY <1>3
  <2>2. i \in Ids
    BY DEF Fresh
  <2>3. NewUser(i, p, now) \in User
    BY <1>1, <1>3, <2>2, NewUserType
  <2> QED BY <1>3, <2>1, <2>3 DEF TypeOK
<1> QED BY <1>2, <1>3 DEF CreateSelect

LEMMA InsertAllType ==
    ASSUME TypeOK, NEW c \in Clients, NEW us \in Seq(User), InsertAll(c, us)
    PROVE  TypeOK'
<1>1. CASE Refuse(c, 409)
  BY <1>1, RefuseType DEF Statuses
<1>2. CASE users' = Inserted(users, us) /\ Landed(c, 201, us, 400)
  <2>1. users' \in Table
    BY <1>2, InsertedType DEF TypeOK
  <2> QED BY <1>2, <2>1, LandedType DEF TypeOK, Statuses
<1> QED BY <1>1, <1>2 DEF InsertAll

LEMMA CreateType ==
    ASSUME TypeOK, NEW c \in Clients, CreateInsert(c) \/ BulkCreate(c)
    PROVE  TypeOK'
<1>1. CASE Refuse(c, 400)
  BY <1>1, RefuseType DEF Statuses
<1>2. CASE CreateInsert(c)
  BY <1>2, DraftUser, InsertAllType DEF CreateInsert, InsertAll
<1>3. CASE BulkCreate(c)
  BY <1>1, <1>3, BulkCreateBuilds, InsertAllType
<1> QED BY <1>2, <1>3

LEMMA UpsertType ==
    ASSUME TypeOK, NEW c \in Clients, Upsert(c) \/ BulkUpsert(c)
    PROVE  TypeOK'
<1>1. CASE Refuse(c, 400)
  BY <1>1, RefuseType DEF Statuses
<1>2. ASSUME NEW us \in Seq(User), users' = Upserted(us, Len(us)),
             Landed(c, 200, us, 400)
      PROVE  TypeOK'
  <2>1. users' \in Table
    BY <1>2, UpsertedType DEF TypeOK
  <2> QED BY <1>2, <2>1, LandedType DEF TypeOK, Statuses
<1> QED BY <1>1, <1>2, UpsertBuilds

LEMMA UpdateSelectType ==
    ASSUME TypeOK, NEW c \in Clients, UpdateSelect(c)
    PROVE  TypeOK'
<1> DEFINE p == req[c].users[1]
<1>1. p \in Param /\ p.id \in Ids
  BY ServedUser DEF UpdateSelect
<1>2. CASE \E st \in {400, 404} : Refuse(c, st)
  BY <1>2, RefuseType DEF Statuses
<1>3. CASE /\ users[p.id] # NoRow
           /\ WellFormed(p)
           /\ draft' = [draft EXCEPT ![c] = <<NewUser(p.id, p, users[p.id].at)>>]
           /\ UNCHANGED <<users, req, reply>>
  <2>1. users[p.id].at \in Times
    BY <1>1, <1>3 DEF TypeOK, Table, Row
  <2>2. NewUser(p.id, p, users[p.id].at) \in User
    BY <1>1, <1>3, <2>1, NewUserType
  <2> QED BY <1>3, <2>2 DEF TypeOK
<1> QED BY <1>2, <1>3 DEF UpdateSelect

LEMMA UpdateWriteType ==
    ASSUME TypeOK, NEW c \in Clients, UpdateWrite(c)
    PROVE  TypeOK'
<1> DEFINE u == draft[c][1]
<1>1. draft[c] \in Seq(User) /\ u \in User /\ u.id \in Ids
  BY DraftUser DEF UpdateWrite
<1>2. CASE \E st \in {400, 404} : Refuse(c, st)
  BY <1>2, RefuseType DEF Statuses
<1>3. CASE users' = [users EXCEPT ![u.id] = RowOf(u)] /\ Landed(c, 200, draft[c], 400)
  <2>1. users' \in Table
    BY <1>1, <1>3, RowOfType DEF TypeOK, Table
  <2> QED BY <1>1, <1>3, <2>1, LandedType DEF TypeOK, Statuses
<1> QED BY <1>2, <1>3 DEF UpdateWrite

LEMMA DeleteType ==
    ASSUME TypeOK, NEW c \in Clients, Delete(c) \/ BulkDelete(c) \/ DeleteAll(c)
    PROVE  TypeOK'
<1>1. CASE \E st \in {400, 404} : Refuse(c, st)
  BY <1>1, RefuseType DEF Statuses
<1>2. ASSUME NEW S, users' = Removed(users, S), Landed(c, 204, <<>>, 400)
      PROVE  TypeOK'
  <2>1. users' \in Table
    BY <1>2, RemovedType DEF TypeOK
  <2>2. 204 \in Statuses /\ 400 \in Statuses
    BY DEF Statuses
  <2>3. /\ req' \in [Clients -> Requests \cup {NoRequest}]
        /\ draft' \in [Clients -> Seq(User)]
        /\ reply' \in [Clients -> Replies]
    BY <1>2, <2>2, LandedNoneType
  <2> QED BY <2>1, <2>3 DEF TypeOK
<1>3. CASE Delete(c)
  BY <1>1, <1>2, <1>3 DEF Delete
<1>4. CASE BulkDelete(c)
  BY <1>1, <1>2, <1>4, MissAssumption DEF BulkDelete
<1>5. CASE DeleteAll(c)
  BY <1>2, <1>5 DEF DeleteAll
<1> QED BY <1>3, <1>4, <1>5

LEMMA NextTypeOK == TypeOK /\ [Next]_vars => TypeOK'
<1> SUFFICES ASSUME TypeOK, [Next]_vars PROVE TypeOK'
  OBVIOUS
<1>1. ASSUME NEW c \in Clients, NEW r \in Requests, Submit(c, r) PROVE TypeOK'
  BY <1>1, SubmitType
<1>2. ASSUME NEW c \in Clients, Handle(c) PROVE TypeOK'
  <2>1. CASE Fail(c)
    BY <2>1, RefuseType DEF Fail, Statuses
  <2> QED BY <1>2, <2>1, CreateSelectType, CreateType,
             UpsertType, UpdateSelectType, UpdateWriteType, DeleteType DEF Handle
<1>3. CASE Crash
  BY <1>3 DEF Crash, TypeOK, NoReply, Replies, Statuses
<1>4. CASE UNCHANGED vars
  BY <1>4 DEF vars, TypeOK
<1> QED BY <1>1, <1>2, <1>3, <1>4 DEF Next

(* Every state of the stacks is well typed: the rows are rows, and no    *)
(* reply carries anything but users.                                       *)
THEOREM TypeCorrect == Spec => []TypeOK
BY InitTypeOK, NextTypeOK, PTL DEF Spec

-----------------------------------------------------------------------------
(* Uniqueness of e-mails.                                                  *)

(* An upsert that the database accepts keeps e-mails unique, one without   *)
(* users because it changes nothing.                                       *)
LEMMA UpsertUnique ==
    ASSUME UniqueEmails, users \in Table, NEW us \in Seq(User), UpsertOk(us)
    PROVE  EmailsUnique(Upserted(us, Len(us)))
<1>1. CASE Len(us) = 0
  <2>1. \A i \in Ids : Writes(us, Len(us), i) = {}
    BY <1>1 DEF Writes
  <2>2. Upserted(us, Len(us)) = users
    BY <2>1 DEF Upserted, Written, Table
  <2> QED BY <2>2 DEF UniqueEmails
<1>2. CASE Len(us) # 0
  <2>1. Len(us) \in DOMAIN us
    BY <1>2
  <2> QED BY <2>1 DEF UpsertOk
<1> QED BY <1>1, <1>2

LEMMA NextUnique == TypeOK /\ UniqueEmails /\ [Next]_vars => UniqueEmails'
<1> SUFFICES ASSUME TypeOK, UniqueEmails, [Next]_vars PROVE UniqueEmails'
  OBVIOUS
<1> USE DEF UniqueEmails
<1>1. CASE UNCHANGED users
  BY <1>1
<1>2. ASSUME NEW S, users' = Removed(users, S) PROVE EmailsUnique(users')
  BY <1>2, RemovedUnique DEF TypeOK
<1>3. ASSUME NEW c \in Clients, Handle(c) PROVE EmailsUnique(users')
  <2>1. CASE CreateSelect(c)
    BY <1>1, <2>1 DEF CreateSelect, Refuse
  <2>2. CASE CreateInsert(c)
    BY <1>1, <2>2 DEF CreateInsert, InsertAll, Refuse, InsertOk
  <2>3. CASE BulkCreate(c)
    BY <1>1, <2>3, BulkCreateBuilds DEF InsertAll, Refuse, InsertOk
  <2>4. CASE Upsert(c) \/ BulkUpsert(c)
    <3>1. CASE Refuse(c, 400)
      BY <1>1, <3>1 DEF Refuse
    <3>2. CASE \E us \in Seq(User) : UpsertOk(us) /\ users' = Upserted(us, Len(us))
      BY <3>2, UpsertUnique DEF TypeOK
    <3> QED BY <2>4, <3>1, <3>2, UpsertBuilds
  <2>5. CASE UpdateSelect(c)
    BY <1>1, <2>5 DEF UpdateSelect, Refuse
  <2>6. CASE UpdateWrite(c)
    BY <1>1, <2>6 DEF UpdateWrite, Refuse
  <2>7. CASE Delete(c)
    BY <1>1, <1>2, <2>7 DEF Delete, Refuse
  <2>8. CASE BulkDelete(c)
    BY <1>1, <1>2, <2>8 DEF BulkDelete, Refuse
  <2>9. CASE DeleteAll(c)
    BY <1>2, <2>9 DEF DeleteAll
  <2>10. CASE Fail(c)
    BY <1>1, <2>10 DEF Fail, Refuse
  <2> QED BY <1>3, <2>1, <2>2, <2>3, <2>4, <2>5, <2>6, <2>7, <2>8, <2>9, <2>10
          DEF Handle
<1> QED BY <1>1, <1>3 DEF Next, Submit, Crash, vars

(* No two users ever hold the same e-mail, whichever requests race.        *)
THEOREM EmailsStayUnique == Spec => []UniqueEmails
BY TypeCorrect, InitUnique, NextUnique, PTL DEF Spec

-----------------------------------------------------------------------------
(* What a handler keeps across its statements.                             *)

(* Every step of a handler ends its request, or is the first of two.       *)
LEMMA HandleCases ==
    ASSUME NEW c \in Clients, Handle(c)
    PROVE  Ends(c) \/ CreateSelect(c) \/ UpdateSelect(c)
<1>1. CASE \E st : Refuse(c, st)
  BY <1>1, RefuseEnds
<1>2. CASE \E st, us : Landed(c, st, us, 400)
  BY <1>2, LandedEnds
<1>3. CASE Upsert(c) \/ BulkUpsert(c)
  BY <1>1, <1>2, <1>3, Zenon DEF Upsert, BulkUpsert, UpsertAll
<1>4. CASE CreateInsert(c) \/ BulkCreate(c)
  BY <1>1, <1>2, <1>4, Zenon DEF CreateInsert, BulkCreate, InsertAll
<1>5. CASE UpdateWrite(c)
  BY <1>1, <1>2, <1>5, Zenon DEF UpdateWrite
<1>6. CASE Delete(c) \/ BulkDelete(c) \/ DeleteAll(c)
  BY <1>1, <1>2, <1>6, Zenon DEF Delete, BulkDelete, DeleteAll
<1>7. CASE Fail(c)
  BY <1>1, <1>7 DEF Fail
<1> QED BY <1>3, <1>4, <1>5, <1>6, <1>7 DEF Handle

LEMMA NextDrafts == TypeOK /\ DraftsOK /\ [Next]_vars => DraftsOK'
<1> SUFFICES ASSUME TypeOK, DraftsOK, [Next]_vars,
                    NEW d \in Clients, draft'[d] # <<>>
             PROVE  /\ Serving(d, "Create")' \/ Serving(d, "Update")'
                    /\ Len(draft'[d]) = 1
                    /\ LET p == req'[d].users[1]
                           u == draft'[d][1] IN
                       /\ WellFormed(p)
                       /\ u = NewUser(u.id, p, u.at)
                       /\ Serving(d, "Update")' => u.id = p.id
  BY DEF DraftsOK
<1>1. CASE draft'[d] = draft[d] /\ req'[d] = req[d]
  BY <1>1 DEF DraftsOK, Serving
<1>2. ASSUME NEW c \in Clients, NEW r \in Requests, Submit(c, r)
      PROVE  draft'[d] = draft[d] /\ req'[d] = req[d]
  <2>1. draft[d] # <<>>
    BY <1>2 DEF Submit
  <2>2. req[d] # NoRequest
    BY <2>1 DEF DraftsOK, Serving
  <2> QED BY <1>2, <2>2 DEF Submit, TypeOK
<1>3. ASSUME NEW c \in Clients, Ends(c)
      PROVE  draft'[d] = draft[d] /\ req'[d] = req[d]
  BY <1>3, EndsDrafts
<1>4. ASSUME NEW c \in Clients, CreateSelect(c), d # c
      PROVE  draft'[d] = draft[d] /\ req'[d] = req[d]
  BY <1>3, <1>4, RefuseEnds DEF CreateSelect, TypeOK
<1>5. ASSUME NEW c \in Clients, UpdateSelect(c), d # c
      PROVE  draft'[d] = draft[d] /\ req'[d] = req[d]
  BY <1>3, <1>5, RefuseEnds DEF UpdateSelect, TypeOK
<1>6. CASE CreateSelect(d)
  <2> DEFINE p == req[d].users[1]
  <2>1. PICK i \in Fresh, now \in Times :
            /\ WellFormed(p)
            /\ draft' = [draft EXCEPT ![d] = <<NewUser(i, p, now)>>]
            /\ req' = req
    BY <1>6, EndsDrafts, RefuseEnds DEF CreateSelect
  <2>2. draft'[d] = <<NewUser(i, p, now)>>
    BY <2>1 DEF TypeOK
  <2> QED BY <1>6, <2>1, <2>2 DEF CreateSelect, Serving, NewUser
<1>7. CASE UpdateSelect(d)
  <2> DEFINE p == req[d].users[1]
  <2>1. /\ WellFormed(p)
        /\ draft' = [draft EXCEPT ![d] = <<NewUser(p.id, p, users[p.id].at)>>]
        /\ req' = req
    BY <1>7, EndsDrafts, RefuseEnds DEF UpdateSelect
  <2>2. draft'[d] = <<NewUser(p.id, p, users[p.id].at)>>
    BY <2>1 DEF TypeOK
  <2> QED BY <1>7, <2>1, <2>2 DEF UpdateSelect, Serving, NewUser
<1>8. CASE Crash
  BY <1>8 DEF Crash
<1>9. CASE UNCHANGED vars
  BY <1>1, <1>9 DEF vars
<1> QED BY <1>1, <1>2, <1>3, <1>4, <1>5, <1>6, <1>7, <1>8, <1>9, HandleCases
        DEF Next

LEMMA NewKeys ==
    ASSUME TypeOK, DraftsOK, NEW e \in Clients, Handle(e),
           NEW i \in Present(users')
    PROVE  \/ i \in Present(users)
           \/ i \in Named(req[e])
           \/ Serving(e, "Create") /\ draft[e] # <<>> /\ i = draft[e][1].id
           \/ i \in Fresh
<1>1. CASE UNCHANGED users
  BY <1>1
<1>2. ASSUME NEW S, users' = Removed(users, S) PROVE i \in Present(users)
  BY <1>2 DEF Removed, Present
<1>3. CASE CreateInsert(e)
  <2>1. CASE UNCHANGED users
    BY <2>1
  <2>2. CASE users' = Inserted(users, draft[e])
    <3>1. draft[e] \in Seq(User) /\ Len(draft[e]) = 1 /\ DOMAIN draft[e] = {1}
      BY <1>3, DraftUser DEF CreateInsert, DraftsOK
    <3> QED BY <1>3, <2>2, <3>1, InsertedPresent DEF CreateInsert
  <2> QED BY <1>3, <2>1, <2>2 DEF CreateInsert, InsertAll, Refuse
<1>4. CASE BulkCreate(e)
  <2>1. CASE ~ UNCHANGED users
    <3>1. PICK us \in Seq(User) : /\ \A k \in DOMAIN us : us[k].id \in Fresh
                                  /\ users' = Inserted(users, us)
      BY <1>4, <2>1, BulkCreateBuilds DEF Refuse, InsertAll, BuildsNew
    <3> QED BY <3>1, InsertedPresent
  <2> QED BY <1>1, <2>1
<1>5. CASE Upsert(e) \/ BulkUpsert(e)
  <2>1. CASE ~ UNCHANGED users
    <3>1. PICK us \in Seq(User) :
              /\ BuildsNamed(e, us)
              /\ users' = Upserted(us, Len(us))
      BY <1>5, <2>1, UpsertBuilds DEF Refuse
    <3>2. req[e].users \in Seq(Param)
      BY <1>5, ServedRequest DEF Upsert, BulkUpsert, Serving
    <3>3. \A k \in DOMAIN us : us[k].id \in Named(req[e])
      BY <3>1, <3>2 DEF BuildsNamed, Builds, Named, Range
    <3> QED BY <3>1, <3>3, InsertedPresent DEF Upserted, Inserted
  <2> QED BY <1>1, <2>1
<1>6. CASE UpdateWrite(e)
  <2>1. draft[e][1].id \in Ids
    BY <1>6, DraftUser DEF UpdateWrite
  <2> QED BY <1>1, <1>6, <2>1 DEF UpdateWrite, Refuse, Present, TypeOK, Table
<1> QED BY <1>1, <1>2, <1>3, <1>4, <1>5, <1>6
        DEF Handle, CreateSelect, UpdateSelect, Delete, BulkDelete, DeleteAll,
            Fail, Refuse

(* Where a handler's step may put a key.                                   *)
LEMMA HandleKeys ==
    ASSUME TypeOK, DraftsOK, NEW e \in Clients, Handle(e)
    PROVE  KeysMove(e)
<1>1. \A i \in Present(users') :
        \/ i \in Present(users)
        \/ i \in Named(req[e])
        \/ i \in Fresh
        \/ Serving(e, "Create") /\ draft[e] # <<>> /\ i = draft[e][1].id
  BY NewKeys
<1>2. CASE Ends(e)
  BY <1>1, <1>2 DEF Ends, TypeOK, KeysMove
<1>3. CASE CreateSelect(e) /\ ~ Ends(e)
  <2>1. PICK i \in Fresh, now \in Times :
            /\ draft' = [draft EXCEPT ![e] = <<NewUser(i, req[e].users[1], now)>>]
            /\ UNCHANGED <<users, req>>
    BY <1>3, RefuseEnds DEF CreateSelect
  <2>2. draft'[e][1].id = i
    BY <2>1 DEF TypeOK, NewUser
  <2> QED BY <1>1, <2>1, <2>2 DEF TypeOK, KeysMove
<1>4. CASE UpdateSelect(e) /\ ~ Ends(e)
  <2> DEFINE p == req[e].users[1]
  <2>1. /\ draft' = [draft EXCEPT ![e] = <<NewUser(p.id, p, users[p.id].at)>>]
        /\ UNCHANGED <<users, req>>
    BY <1>4, RefuseEnds DEF UpdateSelect
  <2>2. draft'[e][1].id = p.id
    BY <2>1 DEF TypeOK, NewUser
  <2>3. p.id \in Named(req[e]) /\ ~ Serving(e, "Create")'
    BY <1>4, <2>1, NamedKey DEF UpdateSelect, Serving
  <2> QED BY <1>1, <2>1, <2>2, <2>3 DEF TypeOK, KeysMove
<1> QED BY <1>2, <1>3, <1>4, HandleCases

LEMMA NextKeys ==
    TypeOK /\ DraftsOK /\ KeysApart /\ [Next]_vars => KeysApart'
<1> SUFFICES ASSUME TypeOK, DraftsOK, KeysApart, [Next]_vars PROVE KeysApart'
  OBVIOUS
<1>1. DraftsNamed
  BY DraftsOKNamed
<1>2. CASE Crash
  BY <1>2 DEF Crash, KeysApart
<1>3. CASE UNCHANGED vars
  BY <1>3 DEF vars, KeysApart, Serving
<1>4. ASSUME NEW e \in Clients, NEW r \in Requests, Submit(e, r) PROVE KeysApart'
  BY <1>1, <1>4, SubmitKeys
<1>5. ASSUME NEW e \in Clients, Handle(e) PROVE KeysApart'
  BY <1>1, <1>5, HandleKeys, KeysMoveApart
<1> QED BY <1>2, <1>3, <1>4, <1>5 DEF Next

(* Drafts belong to their requests and to nobody else: the inductive       *)
(* invariant the refinement rests on.                                      *)
THEOREM Invariant == Spec => []Inv
<1>1. Init => Inv
  BY InitTypeOK, InitUnique, InitDrafts DEF Inv
<1>2. Inv /\ [Next]_vars => Inv'
  BY NextTypeOK, NextUnique, NextDrafts, NextKeys DEF Inv
<1> QED BY <1>1, <1>2, PTL DEF Spec

-----------------------------------------------------------------------------
(* The contract and the stack speak of the same data.                      *)

LEMMA SameTypes ==
    /\ Store!NoRequest = NoRequest
    /\ Store!NoReply = NoReply
    /\ Store!User = User
    /\ Store!Table = Table
BY DEF NoRequest, NoReply, User, Row, Table,
       Store!NoRequest, Store!NoReply, Store!User, Store!Row, Store!Table

LEMMA SameReads ==
    /\ \A f : Store!Range(f) = Range(f)
    /\ \A p : Store!WellFormed(p) <=> WellFormed(p)
    /\ \A i, p, at : Store!NewUser(i, p, at) = NewUser(i, p, at)
    /\ \A t : Store!Present(t) = Present(t)
    /\ \A t : Store!EmailsUnique(t) <=> EmailsUnique(t)
BY DEF Range, WellFormed, NewUser, Present, EmailsUnique,
       Store!Range, Store!WellFormed, Store!NewUser, Store!Present,
       Store!EmailsUnique

LEMMA SameWrites ==
    /\ \A u : Store!RowOf(u) = RowOf(u)
    /\ \A us, n, i : Store!Writes(us, n, i) = Writes(us, n, i)
    /\ \A S : Store!Last(S) = Last(S)
    /\ \A t, us : Store!Inserted(t, us) = Inserted(t, us)
    /\ \A t, us : Store!InsertOk(t, us) <=> InsertOk(t, us)
    /\ \A t, S : Store!Removed(t, S) = Removed(t, S)
<1>1. \A u : Store!RowOf(u) = RowOf(u)
  BY DEF RowOf, Store!RowOf
<1>2. \A us, n, i : Store!Writes(us, n, i) = Writes(us, n, i)
  BY DEF Writes, Store!Writes
<1>3. \A S : Store!Last(S) = Last(S)
  BY DEF Last, Store!Last
<1>4. \A t, us : Store!Inserted(t, us) = Inserted(t, us)
  BY <1>1, <1>2, <1>3 DEF Inserted, Written, Store!Inserted, Store!Written
<1>5. \A t, us : Store!InsertOk(t, us) <=> InsertOk(t, us)
  BY <1>4, SameReads DEF InsertOk, DistinctIds, Store!InsertOk, Store!DistinctIds
<1>6. \A t, S : Store!Removed(t, S) = Removed(t, S)
  BY DEF Removed, Store!Removed
<1> QED BY <1>1, <1>2, <1>3, <1>4, <1>5, <1>6

-----------------------------------------------------------------------------
(* Requests and answers.                                                   *)

(* An answer of the stack is an answer of the contract.                    *)
LEMMA AnswerMaps ==
    ASSUME TypeOK, NEW c \in Clients, NEW st, NEW us, Answer(c, st, us)
    PROVE  Store!Answer(c, st, us)
BY SameTypes DEF Answer, Store!Answer

LEMMA LandedMaps ==
    ASSUME TypeOK, NEW c \in Clients, NEW st, NEW us, Landed(c, st, us, 400)
    PROVE  Store!Told(c, st, us)
BY AnswerMaps DEF Landed, Store!Told

(* What a request built, the contract may build.                           *)
LEMMA BuiltMaps ==
    ASSUME NEW c \in Clients, req[c].users \in Seq(Param), NEW us, Builds(c, us)
    PROVE  LET ps == req[c].users
               ids == [k \in DOMAIN ps |-> us[k].id] IN
           /\ us \in Store!Built(ps, {ids})
           /\ us \in Store!Built(ps, [DOMAIN ps -> Ids])
<1> DEFINE ps == req[c].users
<1>1. PICK ids \in [DOMAIN ps -> Ids], at \in [DOMAIN ps -> Times] :
          /\ ids = [k \in DOMAIN ps |-> us[k].id]
          /\ us = [k \in DOMAIN ps |-> NewUser(ids[k], ps[k], at[k])]
  BY BuiltUnder
<1>2. us = [k \in DOMAIN ps |-> Store!NewUser(ids[k], ps[k], at[k])]
  BY <1>1, SameReads
<1>3. ASSUME NEW keys, ids \in keys PROVE us \in Store!Built(ps, keys)
  BY <1>2, <1>3 DEF Store!Built
<1> QED BY <1>1, <1>3

(* A request may always be refused with 400, and with 404 when an id it    *)
(* names has no row.                                                       *)
LEMMA RefuseMaps ==
    ASSUME TypeOK, NEW c \in Clients, req[c] # NoRequest,
           \/ Refuse(c, 400)
           \/ Refuse(c, 404) /\ Store!IdMissing(c)
           \/ Refuse(c, 409) /\ Store!EmailTaken(c)
                             /\ req[c].op \in {"Create", "BulkCreate"}
    PROVE  Store!Next
<1> SUFFICES Store!Refuse(c)
  BY DEF Store!Next
<1>1. req[c] # Store!NoRequest
  BY SameTypes
<1>2. ASSUME NEW st, Refuse(c, st)
      PROVE  Store!Answer(c, st, <<>>) /\ UNCHANGED users
  BY <1>2, AnswerMaps DEF Refuse
<1>3. CASE Refuse(c, 400)
  BY <1>1, <1>2, <1>3 DEF Store!Refuse
<1>4. CASE Refuse(c, 404) /\ Store!IdMissing(c)
  BY <1>1, <1>2, <1>4 DEF Store!Refuse
<1>5. CASE /\ Refuse(c, 409) /\ Store!EmailTaken(c)
           /\ req[c].op \in {"Create", "BulkCreate"}
  BY <1>1, <1>2, <1>5 DEF Store!Refuse
<1> QED BY <1>3, <1>4, <1>5

LEMMA SubmitMaps ==
    ASSUME NEW c \in Clients, NEW r \in Requests, Submit(c, r)
    PROVE  Store!Next
BY SameTypes DEF Submit, Store!Call, Store!Next

-----------------------------------------------------------------------------
(* Creates.                                                                *)

(* An insert of what a create built, under keys nobody holds, succeeds     *)
(* under the contract, or is refused for an e-mail.                        *)
LEMMA InsertAllMaps ==
    ASSUME Inv, NEW c \in Clients, req[c] # NoRequest,
           req[c].op \in {"Create", "BulkCreate"},
           NEW us \in Seq(User), Builds(c, us), DistinctIds(us),
           \A k \in DOMAIN us : users[us[k].id] = NoRow,
           InsertAll(c, us)
    PROVE  Store!Next
<1> DEFINE ps == req[c].users
<1> USE DEF Inv
<1>1. ps \in Seq(Param)
  BY ServedRequest
<1>2. /\ Len(us) = Len(ps) /\ DOMAIN us = DOMAIN ps
      /\ \A k \in DOMAIN us :
            /\ WellFormed(ps[k])
            /\ us[k] = NewUser(us[k].id, ps[k], us[k].at)
  BY <1>1 DEF Builds
<1>3. ASSUME NEW k \in DOMAIN us
      PROVE  us[k].email = ps[k].email.addr /\ ps[k] \in Range(ps)
  <2>1. us[k] = NewUser(us[k].id, ps[k], us[k].at)
    BY <1>2
  <2>2. us[k].email = ps[k].email.addr
    BY <2>1 DEF NewUser
  <2>3. ps[k] \in Range(ps)
    BY <1>2 DEF Range
  <2> QED BY <2>2, <2>3
<1>4. CASE InsertOk(users, us) /\ users' = Inserted(users, us) /\ Landed(c, 201, us, 400)
  <2>1. Store!Told(c, 201, us)
    BY <1>4, LandedMaps
  <2>2. Store!Serving(c, {"Create", "BulkCreate"})
    BY SameTypes DEF Store!Serving
  <2>3. \A p \in Store!Range(ps) : Store!WellFormed(p)
    BY <1>2, SameReads DEF Range
  <2>4. us \in Store!Built(ps, [DOMAIN ps -> Ids])
    BY <1>1, BuiltMaps
  <2>5. Store!InsertOk(users, us) /\ users' = Store!Inserted(users, us)
    BY <1>4, SameWrites
  <2>6. Store!Create(c)
    BY <2>1, <2>2, <2>3, <2>4, <2>5 DEF Store!Create
  <2> QED BY <2>6 DEF Store!Next
<1>5. CASE ~ InsertOk(users, us) /\ Refuse(c, 409)
  <2>1. \/ \E k \in DOMAIN us, i \in Present(users) : users[i].email = us[k].email
        \/ \E j, k \in DOMAIN us : j # k /\ us[j].email = us[k].email
    BY <1>5, ClashIsEmail DEF TypeOK, UniqueEmails
  <2> SUFFICES Store!EmailTaken(c)
    BY <1>5, RefuseMaps
  <2>2. CASE \E k \in DOMAIN us, i \in Present(users) : users[i].email = us[k].email
    <3>1. \E p \in Range(ps), i \in Present(users) : users[i].email = p.email.addr
      BY <1>3, <2>2
    <3> QED BY <3>1, SameReads DEF Store!EmailTaken
  <2>3. CASE \E j, k \in DOMAIN us : j # k /\ us[j].email = us[k].email
    BY <1>2, <1>3, <2>3 DEF Store!EmailTaken
  <2> QED BY <2>1, <2>2, <2>3
<1> QED BY <1>4, <1>5 DEF InsertAll

LEMMA CreateInsertMaps ==
    ASSUME Inv, NEW c \in Clients, CreateInsert(c)
    PROVE  Store!Next
<1> DEFINE us == draft[c]
<1> USE DEF Inv
<1>1. /\ us \in Seq(User) /\ Len(us) = 1 /\ DOMAIN us = {1}
      /\ us[1].id \in Ids
      /\ req[c] # NoRequest /\ req[c].op = "Create"
  BY DraftUser DEF CreateInsert, DraftsOK, Serving
<1>2. Len(req[c].users) = 1
  BY <1>1, ServedUser DEF Serving
<1>3. Builds(c, us)
  BY <1>1, <1>2 DEF CreateInsert, DraftsOK, Builds
<1>4. us[1].id \notin Present(users)
  BY DEF CreateInsert, KeysApart
<1>5. DistinctIds(us) /\ \A k \in DOMAIN us : users[us[k].id] = NoRow
  BY <1>1, <1>4 DEF DistinctIds, Present
<1> QED BY <1>1, <1>3, <1>5, InsertAllMaps DEF CreateInsert, InsertAll

LEMMA BulkCreateMaps ==
    ASSUME Inv, NEW c \in Clients, BulkCreate(c)
    PROVE  Store!Next
<1>1. req[c] # NoRequest /\ req[c].op = "BulkCreate"
  BY DEF BulkCreate, Serving
<1>2. CASE Refuse(c, 400)
  BY <1>1, <1>2, RefuseMaps DEF Inv
<1>3. CASE ~ Refuse(c, 400)
  <2>1. PICK us \in Seq(User) :
            BuildsNew(c, us) /\ InsertAll(c, us)
    BY <1>3, BulkCreateBuilds DEF Inv
  <2>2. \A k \in DOMAIN us : users[us[k].id] = NoRow
    BY <2>1 DEF BuildsNew, Fresh, Present
  <2> QED BY <1>1, <2>1, <2>2, InsertAllMaps DEF BuildsNew
<1> QED BY <1>2, <1>3

-----------------------------------------------------------------------------
(* Upserts and updates.                                                    *)

LEMMA UpsertMaps ==
    ASSUME Inv, NEW c \in Clients, Upsert(c) \/ BulkUpsert(c)
    PROVE  Store!Next
<1> DEFINE ps == req[c].users
<1> USE DEF Inv
<1>1. ps \in Seq(Param) /\ req[c] # NoRequest /\ req[c].op \in {"Upsert", "BulkUpsert"}
  BY ServedRequest DEF Upsert, BulkUpsert, Serving
<1>2. CASE Refuse(c, 400)
  BY <1>1, <1>2, RefuseMaps
<1>3. CASE ~ Refuse(c, 400)
  <2>1. PICK us \in Seq(User) :
            /\ BuildsNamed(c, us)
            /\ UpsertOk(us)
            /\ users' = Upserted(us, Len(us))
            /\ Landed(c, 200, us, 400)
    BY <1>3, UpsertBuilds
  <2>2. Store!Told(c, 200, us)
    BY <2>1, LandedMaps
  <2>3. Store!Serving(c, {"Upsert", "BulkUpsert"})
    BY <1>1, SameTypes DEF Store!Serving
  <2>4. \A p \in Store!Range(ps) : Store!WellFormed(p) /\ p.id \in Ids
    <3>1. ASSUME NEW k \in DOMAIN ps PROVE WellFormed(ps[k]) /\ ps[k].id \in Ids
      <4>1. k \in DOMAIN us /\ us[k] \in User
        BY <1>1, <2>1 DEF BuildsNamed, Builds
      <4> QED BY <2>1, <4>1 DEF BuildsNamed, Builds, User
    <3> QED BY <3>1, SameReads DEF Range
  <2>9. us \in Store!Built(ps, {[k \in DOMAIN ps |-> ps[k].id]})
    <3>1. Builds(c, us) /\ DOMAIN us = DOMAIN ps
      BY <1>1, <2>1 DEF BuildsNamed, Builds
    <3>2. [k \in DOMAIN ps |-> us[k].id] = [k \in DOMAIN ps |-> ps[k].id]
      BY <2>1, <3>1 DEF BuildsNamed
    <3> QED BY <1>1, <3>1, <3>2, BuiltMaps
  <2>10. \A k \in DOMAIN us : ps[k].at \in Times => us[k].at = ps[k].at
    BY <2>1 DEF BuildsNamed
  <2>5. users' \in Table
    BY <2>1, UpsertedType DEF TypeOK
  <2>6. EmailsUnique(users')
    BY <2>1, UpsertUnique DEF TypeOK
  <2>7. ASSUME NEW i \in Ids
        PROVE  LET W == Writes(us, Len(us), i) IN
               IF W = {} THEN users'[i] = users[i]
               ELSE /\ users'[i] # NoRow
                    /\ users'[i].email = us[Last(W)].email
                    /\ users'[i].name = us[Last(W)].name
                    /\ \/ users[i] # NoRow /\ users'[i].at = users[i].at
                       \/ \E k \in W : users'[i].at = us[k].at
    <3> DEFINE W == Writes(us, Len(us), i)
    <3>1. CASE W = {}
      BY <2>1, <3>1 DEF Upserted, Written
    <3>2. CASE W # {}
      <4>1. Last(W) \in W /\ users'[i] = RowOf(us[Last(W)])
        BY <2>1, <3>2, UpsertedRow
      <4>2. users'[i] # NoRow
        <5>1. us[Last(W)] \in User
          BY <4>1 DEF Writes
        <5> QED BY <4>1, <5>1, RowOfType, DataAssumption DEF DataAssumption
      <4>3. /\ users'[i].email = us[Last(W)].email
            /\ users'[i].name = us[Last(W)].name
            /\ users'[i].at = us[Last(W)].at
        BY <4>1 DEF RowOf
      <4> HIDE DEF W
      <4> QED BY <3>2, <4>1, <4>2, <4>3 DEF W
    <3> QED BY <3>1, <3>2
  <2>8. Store!Upsert(c)
    BY <2>2, <2>3, <2>4, <2>5, <2>6, <2>7, <2>9, <2>10, SameTypes, SameReads, SameWrites
       DEF Store!Upsert
  <2> QED BY <2>8 DEF Store!Next
<1> QED BY <1>2, <1>3

LEMMA UpdateWriteMaps ==
    ASSUME Inv, NEW c \in Clients, UpdateWrite(c)
    PROVE  Store!Next
<1> DEFINE us == draft[c]
           u == us[1]
           p == req[c].users[1]
           after == [users EXCEPT ![u.id] = RowOf(u)]
<1> USE DEF Inv
<1>1. /\ us \in Seq(User) /\ Len(us) = 1 /\ DOMAIN us = {1}
      /\ u \in User /\ u.id \in Ids
      /\ Serving(c, "Update")
      /\ WellFormed(p) /\ u = NewUser(p.id, p, u.at) /\ u.id = p.id
  BY DraftUser DEF UpdateWrite, DraftsOK
<1>2. req[c] # NoRequest /\ req[c].op = "Update"
  BY <1>1 DEF Serving
<1>3. CASE users[u.id] = NoRow /\ Refuse(c, 404)
  <2>1. Store!IdMissing(c)
    BY <1>1, <1>2, <1>3 DEF Store!IdMissing
  <2> QED BY <1>2, <1>3, <2>1, RefuseMaps
<1>4. CASE Refuse(c, 400)
  BY <1>2, <1>4, RefuseMaps
<1>5. CASE /\ users[u.id] # NoRow /\ EmailsUnique(after)
           /\ users' = after /\ Landed(c, 200, us, 400)
  <2>1. Store!Told(c, 200, us)
    BY <1>5, LandedMaps
  <2>2. Store!Serving(c, {"Update"})
    BY <1>2, SameTypes DEF Store!Serving
  <2>3. RowOf(u) \in Row /\ RowOf(u) # NoRow
    BY <1>1, RowOfType, DataAssumption DEF DataAssumption
  <2>4. /\ users' \in Table
        /\ users'[p.id] = RowOf(u)
        /\ \A j \in Ids \ {p.id} : users'[j] = users[j]
    BY <1>1, <1>5, <2>3 DEF TypeOK, Table
  <2>5. Store!WellFormed(p) /\ u = Store!NewUser(p.id, p, u.at) /\ us = <<u>>
    BY <1>1, SameReads
  <2>6. Store!EmailsUnique(users') /\ users' \in Store!Table
    BY <1>5, <2>4, SameReads, SameTypes
  <2>7. users[p.id] # NoRow /\ users'[p.id] = Store!RowOf(u) /\ u.at \in Times
    BY <1>1, <1>5, <2>4, SameWrites DEF User
  <2>8. Store!Update(c)
    BY <2>1, <2>2, <2>4, <2>5, <2>6, <2>7 DEF Store!Update
  <2> QED BY <2>8 DEF Store!Next
<1> QED BY <1>3, <1>4, <1>5 DEF UpdateWrite

-----------------------------------------------------------------------------
(* Deletes.                                                                *)

LEMMA DeleteMaps ==
    ASSUME Inv, NEW c \in Clients, Delete(c)
    PROVE  Store!Next
<1> DEFINE ids == req[c].ids
<1> USE DEF Inv
<1>1. /\ req[c] # NoRequest /\ req[c].op = "Delete"
      /\ ids \in Seq(Ids) /\ Len(ids) = 1
  BY ServedRequest, RequestAssumption DEF Delete, Serving
<1>2. DOMAIN ids = {1} /\ Range(ids) = {ids[1]}
  BY <1>1 DEF Range
<1>3. CASE users[ids[1]] = NoRow /\ Refuse(c, 404)
  BY <1>1, <1>2, <1>3, RefuseMaps DEF Store!IdMissing
<1>4. CASE /\ users[ids[1]] # NoRow
           /\ users' = Removed(users, {ids[1]}) /\ Landed(c, 204, <<>>, 400)
  <2>1. Store!Told(c, 204, <<>>)
    BY <1>4, LandedMaps
  <2>2. Store!Delete(c)
    BY <1>1, <1>2, <1>4, <2>1, SameTypes, SameReads, SameWrites
       DEF Store!Delete, Store!Serving
  <2> QED BY <2>2 DEF Store!Next
<1> QED BY <1>3, <1>4 DEF Delete

LEMMA BulkDeleteMaps ==
    ASSUME Inv, NEW c \in Clients, BulkDelete(c)
    PROVE  Store!Next
<1> DEFINE ids == req[c].ids
           all == Cardinality(Range(ids) \cap Present(users)) = Len(ids)
<1> USE DEF Inv
<1>1. req[c] # NoRequest /\ req[c].op = "BulkDelete" /\ ids \in Seq(Ids)
  BY ServedRequest DEF BulkDelete, Serving
<1>2. all <=> Range(ids) \subseteq Present(users) /\ IsInjective(ids)
  BY <1>1, CountedRows
<1>3. \A k \in DOMAIN ids : ids[k] \in Range(ids) /\ ids[k] \in Ids
  BY <1>1 DEF Range
<1>4. CASE all /\ users' = Removed(users, Range(ids)) /\ Landed(c, 204, <<>>, 400)
  <2>1. Store!Told(c, 204, <<>>)
    BY <1>4, LandedMaps
  <2>2. \A k \in DOMAIN ids : users[ids[k]] # NoRow
    BY <1>2, <1>3, <1>4 DEF Present
  <2>3. Store!Serving(c, {"Delete", "BulkDelete"})
    BY <1>1, SameTypes DEF Store!Serving
  <2>4. users' = Store!Removed(users, Store!Range(ids))
    BY <1>4, SameReads, SameWrites
  <2>5. Store!Delete(c)
    BY <2>1, <2>2, <2>3, <2>4 DEF Store!Delete
  <2> QED BY <2>5 DEF Store!Next
<1>5. CASE ~ all /\ \E st \in MissStatus : Refuse(c, st)
  <2>1. \/ \E k \in DOMAIN ids : ids[k] \notin Present(users)
        \/ \E j, k \in DOMAIN ids : j # k /\ ids[j] = ids[k]
    BY <1>2, <1>5 DEF IsInjective, Range
  <2>2. Store!IdMissing(c)
    BY <1>3, <2>1 DEF Store!IdMissing, Present
  <2>3. Refuse(c, 400) \/ Refuse(c, 404)
    BY <1>5, MissAssumption
  <2> QED BY <1>1, <2>2, <2>3, RefuseMaps
<1> QED BY <1>4, <1>5 DEF BulkDelete

LEMMA DeleteAllMaps ==
    ASSUME Inv, NEW c \in Clients, DeleteAll(c)
    PROVE  Store!Next
<1>1. Store!Told(c, 204, <<>>)
  BY LandedMaps DEF DeleteAll, Inv
<1>2. Store!DeleteAll(c)
  BY <1>1, SameTypes, SameWrites
     DEF DeleteAll, Serving, Store!DeleteAll, Store!Serving
<1> QED BY <1>2 DEF Store!Next

-----------------------------------------------------------------------------
(* First statements, failures and crashes.                                 *)

LEMMA SelectMaps ==
    ASSUME Inv, NEW c \in Clients, CreateSelect(c) \/ UpdateSelect(c)
    PROVE  Store!Next \/ UNCHANGED Store!vars
<1> DEFINE p == req[c].users[1]
<1> USE DEF Inv
<1>1. req[c] # NoRequest
  BY DEF CreateSelect, UpdateSelect, Serving
<1>2. CASE Refuse(c, 400)
  BY <1>1, <1>2, RefuseMaps
<1>3. CASE Serving(c, "Update") /\ users[p.id] = NoRow /\ Refuse(c, 404)
  <2>1. Store!IdMissing(c)
    BY <1>3 DEF Serving, Store!IdMissing
  <2> QED BY <1>1, <1>3, <2>1, RefuseMaps
<1>4. CASE UNCHANGED <<users, req, reply>>
  BY <1>4 DEF Store!vars
<1> QED BY <1>2, <1>3, <1>4 DEF CreateSelect, UpdateSelect

LEMMA CrashMaps == Crash => Store!Next
<1>1. Crash => Store!Crash
  BY SameTypes DEF Crash, Store!Crash
<1> QED BY <1>1 DEF Store!Next

LEMMA InitMaps == Init => Store!Init
BY SameTypes DEF Init, Store!Init

LEMMA StepMaps == Inv /\ [Next]_vars => [Store!Next]_(Store!vars)
<1> SUFFICES ASSUME Inv, [Next]_vars PROVE Store!Next \/ UNCHANGED Store!vars
  OBVIOUS
<1>1. ASSUME NEW c \in Clients, Handle(c)
      PROVE  Store!Next \/ UNCHANGED Store!vars
  <2>1. CASE Fail(c)
    BY <2>1, RefuseMaps DEF Fail, Inv
  <2> QED BY <1>1, <2>1, SelectMaps, CreateInsertMaps, BulkCreateMaps, UpsertMaps,
             UpdateWriteMaps, DeleteMaps, BulkDeleteMaps, DeleteAllMaps DEF Handle
<1>2. CASE UNCHANGED vars
  BY <1>2 DEF vars, Store!vars
<1> QED BY <1>1, <1>2, SubmitMaps, CrashMaps DEF Next

(* Whatever the clients send and however their requests interleave or die, *)
(* the TypeScript stacks keep the contract: each request takes effect in one step, *)
(* judged by the table of that step.                                       *)
THEOREM TypeScriptKeepsContract == Spec => Contract
BY Invariant, InitMaps, StepMaps, PTL DEF Spec, Contract, Store!Spec

-----------------------------------------------------------------------------
(* What becomes of a created_at.                                           *)

(* The step ends an upsert on c that gives user i the created_at it has    *)
(* then.                                                                   *)
GivesAt(c, i) ==
    /\ EndsUpsert(c, i)
    /\ \E p \in Range(req[c].users) :
        p.id = i /\ (p.at \in Times => users'[i].at = p.at)
    /\ reply'[c].status = 200 =>
        \E u \in Range(reply'[c].users) : u.id = i /\ u.at = users'[i].at

(* The step ends an update on c that gives user i the created_at it had    *)
(* read.                                                                   *)
GivesBack(c, i) ==
    /\ Updating(c, i) /\ req'[c] = NoRequest
    /\ users'[i].at = draft[c][1].at

(* An upsert that writes user i gives it the created_at it has then.       *)
LEMMA UpsertGivesAt ==
    ASSUME TypeOK, NEW e \in Clients, Upsert(e) \/ BulkUpsert(e),
           NEW i \in Ids, users'[i] # users[i]
    PROVE  GivesAt(e, i)
<1>1. PICK us \in Seq(User) : /\ BuildsNamed(e, us)
                              /\ users' = Upserted(us, Len(us))
                              /\ Landed(e, 200, us, 400)
  BY UpsertBuilds DEF Refuse
<1> DEFINE W == Writes(us, Len(us), i)
           ps == req[e].users
<1>2. W # {}
  BY <1>1 DEF Upserted, Written
<1>3. Last(W) \in W /\ users'[i] = RowOf(us[Last(W)])
  BY <1>1, <1>2, UpsertedRow
<1>4. PICK k \in DOMAIN us : us[k].id = i /\ users'[i] = RowOf(us[k])
  <2>1. Last(W) \in DOMAIN us /\ us[Last(W)].id = i
    BY <1>3 DEF Writes
  <2> HIDE DEF W
  <2> QED BY <1>3, <2>1
<1>5. us[k] \in Range(us) /\ users'[i].at = us[k].at
  BY <1>4 DEF Range, RowOf
<1>6. ps[k] \in Range(ps)
  <2>1. ps \in Seq(Param)
    BY ServedRequest DEF Upsert, BulkUpsert, Serving
  <2>2. k \in DOMAIN ps
    BY <1>1, <2>1 DEF BuildsNamed, Builds
  <2> QED BY <2>2 DEF Range
<1>7. ps[k].id = i /\ (ps[k].at \in Times => users'[i].at = ps[k].at)
  BY <1>1, <1>4, <1>5 DEF BuildsNamed
<1>8. req'[e] = NoRequest
  BY <1>1, LandedEnds DEF Ends, TypeOK
<1>9. reply'[e].status = 200 => reply'[e].users = us
  BY <1>1 DEF Landed, Answer, TypeOK
<1> HIDE DEF W
<1> QED BY <1>4, <1>5, <1>6, <1>7, <1>8, <1>9
        DEF GivesAt, EndsUpsert, Upsert, BulkUpsert

(* A user that is there before and after a handler's step keeps its        *)
(* created_at, or gets the one an update had read before, or that of an    *)
(* upsert.                                                                 *)
LEMMA AtMoves ==
    ASSUME Inv, NEW e \in Clients, Handle(e),
           NEW i \in Ids, users[i] # NoRow, users'[i] # NoRow
    PROVE  users'[i].at = users[i].at \/ GivesAt(e, i) \/ GivesBack(e, i)
<1> USE DEF Inv
<1>1. CASE users'[i] = users[i]
  BY <1>1
<1>2. CASE UNCHANGED users
  BY <1>1, <1>2
<1>3. ASSUME NEW S, users' = Removed(users, S) PROVE users'[i] = users[i]
  BY <1>3 DEF Removed
<1>4. ASSUME NEW us \in Seq(User), InsertAll(e, us)
      PROVE  users'[i] = users[i]
  <2>1. CASE InsertOk(users, us) /\ users' = Inserted(users, us)
    <3>1. \A k \in DOMAIN us : us[k].id # i
      BY <2>1 DEF InsertOk
    <3> QED BY <2>1, <3>1, NotWritten DEF TypeOK
  <2> QED BY <1>4, <2>1 DEF InsertAll, Refuse
<1>5. CASE CreateInsert(e)
  BY <1>1, <1>4, <1>5, DraftUser DEF CreateInsert
<1>6. CASE BulkCreate(e)
  BY <1>1, <1>2, <1>4, <1>6, BulkCreateBuilds DEF Refuse
<1>7. CASE Upsert(e) \/ BulkUpsert(e)
  BY <1>1, <1>7, UpsertGivesAt
<1>8. CASE UpdateWrite(e)
  <2> DEFINE u == draft[e][1]
  <2>1. CASE users' = [users EXCEPT ![u.id] = RowOf(u)] /\ Landed(e, 200, draft[e], 400)
    <3>1. CASE u.id = i
      <4>1. users'[i] = RowOf(u)
        BY <2>1, <3>1 DEF TypeOK, Table
      <4>2. users'[i].at = u.at
        BY <4>1 DEF RowOf
      <4>3. req'[e] = NoRequest
        BY <2>1, LandedEnds DEF Ends, TypeOK
      <4> QED BY <1>8, <3>1, <4>2, <4>3 DEF UpdateWrite, Updating, GivesBack
    <3>2. CASE u.id # i
      BY <1>1, <2>1, <3>2 DEF TypeOK, Table
    <3> QED BY <3>1, <3>2
  <2> QED BY <1>2, <1>8, <2>1 DEF UpdateWrite, Refuse
<1> QED BY <1>1, <1>2, <1>3, <1>5, <1>6, <1>7, <1>8
        DEF Handle, CreateSelect, UpdateSelect, Delete, BulkDelete, DeleteAll,
            Fail, Refuse

(* The created_at an update is about to write is the stored one, unless    *)
(* the user was upserted or deleted since it was read.                     *)
DraftsAt ==
    \A c \in Clients, i \in Ids :
        Updating(c, i) /\ i \notin overtaken =>
            users[i] # NoRow /\ users[i].at = draft[c][1].at

(* The inductive invariant of the history.                                 *)
HInv == Inv /\ DraftsAt

LEMMA HInit_HInv == HInit => HInv
BY InitTypeOK, InitUnique, InitDrafts
   DEF HInit, HInv, Inv, DraftsAt, Updating, Init

(* An update in flight after a step was in flight before it, or has just   *)
(* read its user.                                                          *)
LEMMA StillUpdating ==
    ASSUME Inv, [Next]_vars, NEW c \in Clients, NEW i \in Ids, Updating(c, i)'
    PROVE  \/ Updating(c, i) /\ draft'[c] = draft[c]
           \/ /\ users[i] # NoRow
              /\ draft'[c][1].at = users[i].at
              /\ users' = users
<1> USE DEF Inv
<1>1. CASE draft'[c] = draft[c] /\ req'[c] = req[c]
  BY <1>1 DEF Updating, Serving
<1>2. ASSUME NEW e \in Clients, NEW r \in Requests, Submit(e, r)
      PROVE  draft'[c] = draft[c] /\ req'[c] = req[c]
  BY <1>2 DEF Submit, Updating, DraftsOK, Serving, TypeOK
<1>3. ASSUME NEW e \in Clients \ {c}, Handle(e)
      PROVE  draft'[c] = draft[c] /\ req'[c] = req[c]
  BY <1>3, HandleKeys DEF KeysMove
<1>4. ASSUME Handle(c)
      PROVE  \/ draft'[c] = draft[c] /\ req'[c] = req[c]
             \/ /\ users[i] # NoRow
                /\ draft'[c][1].at = users[i].at
                /\ users' = users
  <2>1. draft'[c] # <<>> /\ draft'[c][1].id = i /\ Serving(c, "Update")'
    BY DEF Updating
  <2>2. ~ Ends(c)
    BY <2>1, EndsDrafts
  <2>3. CASE CreateSelect(c)
    BY <2>1, <2>2, <2>3, RefuseEnds DEF CreateSelect, Serving
  <2>4. CASE UpdateSelect(c)
    <3> DEFINE p == req[c].users[1]
    <3>1. /\ users[p.id] # NoRow
          /\ draft' = [draft EXCEPT ![c] = <<NewUser(p.id, p, users[p.id].at)>>]
          /\ users' = users
      BY <2>2, <2>4, RefuseEnds DEF UpdateSelect
    <3>2. draft'[c] = <<NewUser(p.id, p, users[p.id].at)>>
      BY <3>1 DEF TypeOK
    <3>3. p.id = i /\ draft'[c][1].at = users[p.id].at
      BY <2>1, <3>2 DEF NewUser
    <3> QED BY <3>1, <3>3
  <2> QED BY <1>4, <2>2, <2>3, <2>4, HandleCases
<1>5. CASE Crash
  BY <1>5 DEF Crash, Updating
<1>6. CASE UNCHANGED vars
  BY <1>1, <1>6 DEF vars
<1> QED BY <1>1, <1>2, <1>3, <1>4, <1>5, <1>6 DEF Next

(* Only an upsert, or an update that was overtaken, replaces a created_at. *)
LEMMA AtReplaced ==
    ASSUME HInv, [Next]_vars,
           NEW i \in Ids, users[i] # NoRow, users'[i] # NoRow,
           users'[i].at # users[i].at
    PROVE  \E c \in Clients :
              GivesAt(c, i) \/ (i \in overtaken /\ GivesBack(c, i))
<1>1. users' # users
  OBVIOUS
<1>2. PICK e \in Clients : Handle(e)
  BY <1>1 DEF Next, Submit, Crash, vars
<1>3. GivesAt(e, i) \/ GivesBack(e, i)
  BY <1>2, AtMoves DEF HInv
<1>4. GivesBack(e, i) => i \in overtaken
  BY DEF GivesBack, HInv, DraftsAt
<1> QED BY <1>3, <1>4

LEMMA HNext_HInv == HInv /\ [HNext]_hvars => HInv'
<1> SUFFICES ASSUME HInv, [HNext]_hvars PROVE HInv'
  OBVIOUS
<1>1. [Next]_vars
  BY DEF HNext, hvars
<1>2. Inv'
  BY <1>1, NextTypeOK, NextUnique, NextDrafts, NextKeys DEF HInv, Inv
<1>3. ASSUME NEW c \in Clients, NEW i \in Ids, Updating(c, i)', i \notin overtaken'
      PROVE  users'[i] # NoRow /\ users'[i].at = draft'[c][1].at
  <2>1. CASE UNCHANGED hvars
    BY <1>3, <2>1 DEF hvars, vars, HInv, DraftsAt, Updating, Serving
  <2>2. CASE Watch
    <3>1. i \notin overtaken /\ ~ Upserting(i) /\ users'[i] # NoRow
      BY <1>3, <2>2 DEF Watch
    <3>2. CASE Updating(c, i) /\ draft'[c] = draft[c]
      <4>1. users[i] # NoRow /\ users[i].at = draft'[c][1].at
        BY <3>1, <3>2 DEF HInv, DraftsAt
      <4>2. users'[i].at = users[i].at
        <5>1. SUFFICES ASSUME users'[i].at # users[i].at PROVE FALSE
          OBVIOUS
        <5>2. \A d \in Clients : ~ EndsUpsert(d, i)
          BY <3>1, <5>1 DEF Upserting
        <5> QED BY <1>1, <3>1, <4>1, <5>1, <5>2, AtReplaced DEF GivesAt
      <4> QED BY <3>1, <4>1, <4>2
    <3>3. CASE /\ users[i] # NoRow
               /\ draft'[c][1].at = users[i].at
               /\ users' = users
      BY <3>3
    <3> QED BY <1>1, <1>3, <3>2, <3>3, StillUpdating DEF HInv
  <2> QED BY <2>1, <2>2 DEF HNext
<1> QED BY <1>2, <1>3 DEF HInv, DraftsAt

(* Once stored, a created_at is replaced by an upsert, by the one it       *)
(* brings or answers, or by an update that an upsert or a delete overtook, *)
(* and by nothing else.                                                    *)
THEOREM CreatedAtStays == HSpec => CreatedAtTraced
<1>1. HInv /\ [HNext]_hvars =>
        [\A i \in Ids :
            /\ users[i] # NoRow
            /\ users'[i] # NoRow
            /\ users'[i].at # users[i].at
            => \/ \E c \in Clients :
                    /\ EndsUpsert(c, i)
                    /\ \E p \in Range(req[c].users) :
                        p.id = i /\ (p.at \in Times => users'[i].at = p.at)
                    /\ reply'[c].status = 200 =>
                        \E u \in Range(reply'[c].users) : u.id = i /\ u.at = users'[i].at
               \/ /\ i \in overtaken
                  /\ \E c \in Clients :
                        /\ Updating(c, i) /\ req'[c] = NoRequest
                        /\ users'[i].at = draft[c][1].at
        ]_hvars
  <2>1. [HNext]_hvars => [Next]_vars
    BY DEF HNext, hvars
  <2> QED BY <2>1, AtReplaced DEF GivesAt, GivesBack
<1> QED BY <1>1, HInit_HInv, HNext_HInv, PTL DEF HSpec, CreatedAtTraced
=============================================================================
