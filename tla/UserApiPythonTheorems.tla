------------------------ MODULE UserApiPythonTheorems ------------------------
(***************************************************************************)
(* Theorems about the Python stack: its invariant, that every step of a    *)
(* request is one step of the contract of UserStore or none, and that only *)
(* an upsert replaces a created_at.                                        *)
(***************************************************************************)
EXTENDS UserApiPython, UserServingTheorems

-----------------------------------------------------------------------------
(* What each statement does, said once for all the proofs below.           *)

LEMMA BulkCreateBuilds ==
    ASSUME TypeOK, NEW c \in Clients, BulkCreate(c), ~ Refuse(c, 400)
    PROVE  \E us \in Seq(User) : BuildsNew(c, us) /\ InsertAll(c, us)
<1> DEFINE ps == req[c].users
<1>1. ps \in Seq(Param)
  BY ServedRequest DEF BulkCreate, Serving
<1>2. PICK ids \in FreshKeys(Len(ps)), now \in [1..Len(ps) -> Times] :
          InsertAll(c, Built(ps, ids, now))
  BY DEF BulkCreate, Built
<1>3. \A p \in Range(ps) : WellFormed(p)
  BY DEF BulkCreate
<1>4. BuildsNew(c, Built(ps, ids, now))
  BY <1>1, <1>3, CreateBuilds
<1> QED BY <1>2, <1>4 DEF BuildsNew, Builds

LEMMA UpsertBuilds ==
    ASSUME TypeOK, NEW c \in Clients, Upsert(c) \/ BulkUpsert(c),
           ~ \E st \in {400, 422, 500} : Refuse(c, st)
    PROVE  \E us \in Seq(User) :
              /\ BuildsNamed(c, us)
              /\ UpsertOk(us)
              /\ users' = Upserted(us, Len(us))
              /\ Landed(c, 200, us, 500)
<1> DEFINE ps == req[c].users
           us(now) == [k \in 1..Len(ps) |->
                            NewUser(ps[k].id, ps[k], AtOr(ps[k], now[k]))]
<1>1. ps \in Seq(Param)
  BY ServedRequest DEF Upsert, BulkUpsert, Serving
<1>2. UpsertAll(c)
  BY DEF Upsert, BulkUpsert
<1>3. \A p \in Range(ps) : WellFormed(p) /\ p.id \in Ids
  BY <1>2 DEF UpsertAll
<1>4. PICK now \in [1..Len(ps) -> Times] :
          /\ UpsertOk(us(now))
          /\ users' = Upserted(us(now), Len(us(now)))
          /\ Landed(c, 200, us(now), 500)
  <2>1. ~ Refuse(c, 400) /\ ~ Refuse(c, 422) /\ ~ Refuse(c, 500)
    OBVIOUS
  <2> QED BY <1>2, <2>1, Zenon DEF UpsertAll
<1>5. BuildsNamed(c, us(now))
  BY <1>1, <1>3, NamedBuilds
<1>6. us(now) \in Seq(User)
  BY <1>5 DEF BuildsNamed, Builds
<1> HIDE DEF us
<1> QED BY <1>4, <1>5, <1>6

(* A request whose first statement is not its last keeps, of the row it    *)
(* read or the user it built, one entity of its own.                       *)
LEMMA FirstStep ==
    ASSUME TypeOK, NEW c \in Clients, Handle(c), ~ Ends(c)
    PROVE  \E u \in User :
              /\ draft' = [draft EXCEPT ![c] = <<u>>]
              /\ UNCHANGED <<users, req, reply>>
              /\ \/ /\ Serving(c, "Create")
                    /\ u.id \in Fresh
                    /\ u = NewUser(u.id, req[c].users[1], u.at)
                 \/ /\ Serving(c, "Update")
                    /\ WellFormed(req[c].users[1])
                    /\ u.id = req[c].users[1].id
                 \/ Serving(c, "Delete") /\ u.id = req[c].ids[1]
<1> DEFINE p == req[c].users[1]
<1>1. ASSUME NEW st PROVE ~ Refuse(c, st)
  BY RefuseEnds
<1>2. ASSUME NEW i \in Ids, users[i] # NoRow PROVE Held(i) \in User /\ Held(i).id = i
  <2>1. users[i] \in Row
    BY <1>2 DEF TypeOK, Table
  <2> QED BY <2>1 DEF Held, User, Row
<1>3. CASE CreateSelect(c)
  <2>1. PICK i \in Fresh, now \in Times :
            /\ WellFormed(p)
            /\ draft' = [draft EXCEPT ![c] = <<NewUser(i, p, now)>>]
            /\ UNCHANGED <<users, req, reply>>
    BY <1>1, <1>3 DEF CreateSelect
  <2>2. p \in Param /\ i \in Ids
    BY <1>3, ServedUser DEF CreateSelect, Fresh
  <2>3. NewUser(i, p, now) \in User
    BY <2>1, <2>2, NewUserType
  <2>4. PICK u \in User : u = NewUser(i, p, now)
    BY <2>3
  <2>5. u.id = i /\ u = NewUser(u.id, p, u.at)
    BY <2>4 DEF NewUser
  <2> QED BY <1>3, <2>1, <2>4, <2>5 DEF CreateSelect
<1>4. CASE UpdateSelect(c)
  <2>1. /\ users[p.id] # NoRow /\ WellFormed(p)
        /\ draft' = [draft EXCEPT ![c] = <<Held(p.id)>>]
        /\ UNCHANGED <<users, req, reply>>
    BY <1>1, <1>4 DEF UpdateSelect
  <2>2. p.id \in Ids
    BY <1>4, ServedUser DEF UpdateSelect
  <2> QED BY <1>2, <1>4, <2>1, <2>2 DEF UpdateSelect
<1>5. CASE DeleteSelect(c)
  <2> DEFINE i == req[c].ids[1]
  <2>1. /\ users[i] # NoRow
        /\ draft' = [draft EXCEPT ![c] = <<Held(i)>>]
        /\ UNCHANGED <<users, req, reply>>
    BY <1>1, <1>5 DEF DeleteSelect
  <2>2. req[c] \in Requests /\ req[c].ids \in Seq(Ids) /\ req[c].op = "Delete"
    BY <1>5, ServedRequest DEF DeleteSelect, Serving
  <2>3. i \in Ids
    BY <2>2, RequestAssumption
  <2> QED BY <1>2, <1>5, <2>1, <2>3 DEF DeleteSelect
<1>6. CASE \E st : Refuse(c, st)
  BY <1>1, <1>6, RefuseEnds
<1>7. CASE \E st, us : Landed(c, st, us, 500)
  BY <1>1, <1>7, LandedEnds
<1>8. CASE CreateInsert(c) \/ BulkCreate(c)
  BY <1>6, <1>7, <1>8, Zenon DEF CreateInsert, BulkCreate, InsertAll
<1>9. CASE Upsert(c) \/ BulkUpsert(c)
  BY <1>6, <1>7, <1>9, Zenon DEF Upsert, BulkUpsert, UpsertAll
<1>10. CASE UpdateFlush(c)
  <2>1. ASSUME NEW us, Answer(c, 200, us) PROVE Ends(c)
    BY <2>1 DEF Answer, Ends
  <2> QED BY <1>1, <1>6, <1>7, <1>10, <2>1, Zenon DEF UpdateFlush
<1>11. CASE DeleteFlush(c) \/ BulkDelete(c) \/ DeleteAll(c)
  BY <1>6, <1>7, <1>11, Zenon DEF DeleteFlush, BulkDelete, DeleteAll
<1>12. CASE Fail(c)
  BY <1>6, <1>12 DEF Fail
<1> QED BY <1>3, <1>4, <1>5, <1>8, <1>9, <1>10, <1>11, <1>12 DEF Handle

-----------------------------------------------------------------------------
(* Type correctness.                                                       *)

LEMMA InsertAllType ==
    ASSUME TypeOK, NEW c \in Clients, NEW us \in Seq(User), InsertAll(c, us)
    PROVE  TypeOK'
<1>1. CASE Refuse(c, 409)
  BY <1>1, RefuseType DEF Statuses
<1>2. CASE users' = Inserted(users, us) /\ Landed(c, 201, us, 500)
  <2>1. users' \in Table
    BY <1>2, InsertedType DEF TypeOK
  <2> QED BY <1>2, <2>1, LandedType DEF TypeOK, Statuses
<1> QED BY <1>1, <1>2 DEF InsertAll

LEMMA UpsertType ==
    ASSUME TypeOK, NEW c \in Clients, Upsert(c) \/ BulkUpsert(c)
    PROVE  TypeOK'
<1>1. ASSUME NEW st \in {400, 422, 500}, Refuse(c, st) PROVE TypeOK'
  BY <1>1, RefuseType DEF Statuses
<1>2. ASSUME NEW us \in Seq(User), users' = Upserted(us, Len(us)),
             Landed(c, 200, us, 500)
      PROVE  TypeOK'
  <2>1. Len(us) \in 0..Len(us)
    OBVIOUS
  <2>2. users' \in Table
    BY <1>2, <2>1, WrittenType DEF TypeOK, Upserted
  <2> QED BY <1>2, <2>2, LandedType DEF TypeOK, Statuses
<1> QED BY <1>1, <1>2, UpsertBuilds

(* What an update has read and what it writes are users.                   *)
LEMMA FlushedType ==
    ASSUME TypeOK, SessionOK, NEW c \in Clients, UpdateFlush(c)
    PROVE  LET p == req[c].users[1]
               old == draft[c][1]
               new == NewUser(p.id, p, old.at) IN
           /\ p \in Param /\ p.id \in Ids /\ WellFormed(p)
           /\ Len(req[c].users) = 1
           /\ old \in User /\ old.id = p.id
           /\ new \in User /\ new.id = p.id
           /\ users[p.id] # NoRow => Flushed(old, new) \in Table
<1> DEFINE p == req[c].users[1]
           old == draft[c][1]
           new == NewUser(p.id, p, old.at)
<1>1. p \in Param /\ p.id \in Ids /\ Len(req[c].users) = 1
  BY ServedUser DEF UpdateFlush
<1>2. old \in User
  BY DraftUser DEF UpdateFlush
<1>3. WellFormed(p) /\ old.id = p.id
  BY DEF UpdateFlush, SessionOK, Serving
<1>4. new \in User /\ new.id = p.id
  <2>1. old.at \in Times
    BY <1>2 DEF User
  <2>2. new \in User
    BY <1>1, <1>3, <2>1, NewUserType
  <2> QED BY <2>2 DEF NewUser
<1>5. ASSUME users[p.id] # NoRow PROVE Flushed(old, new) \in Table
  <2>1. users[p.id] \in Row
    BY <1>1, <1>5 DEF TypeOK, Table
  <2> HIDE DEF p, old, new
  <2> DEFINE row == [email |-> IF new.email # old.email THEN new.email
                               ELSE users[p.id].email,
                     name  |-> IF new.name # old.name THEN new.name
                               ELSE users[p.id].name,
                     at    |-> users[p.id].at]
  <2>2. row \in Row
    BY <1>4, <2>1 DEF User, Row
  <2>3. Flushed(old, new) = [users EXCEPT ![p.id] = row]
    BY <1>4 DEF Flushed
  <2> HIDE DEF row
  <2> QED BY <1>1, <2>2, <2>3 DEF TypeOK, Table
<1> QED BY <1>1, <1>2, <1>3, <1>4, <1>5

LEMMA UpdateFlushType ==
    ASSUME TypeOK, SessionOK, NEW c \in Clients, UpdateFlush(c)
    PROVE  TypeOK'
<1> DEFINE p == req[c].users[1]
           old == draft[c][1]
           new == NewUser(p.id, p, old.at)
<1>1. /\ new \in User /\ new.id = p.id
      /\ users[p.id] # NoRow => Flushed(old, new) \in Table
  BY FlushedType
<1>2. CASE Refuse(c, 500)
  BY <1>2, RefuseType DEF Statuses
<1>3. ASSUME users' \in Table,
             Answer(c, 200, <<new>>) \/ Landed(c, 200, <<new>>, 500)
      PROVE  TypeOK'
  <2>1. <<new>> \in Seq(User)
    BY <1>1
  <2>2. PICK us \in Seq(User) : us = <<new>>
    BY <2>1
  <2>3. Landed(c, 200, us, 500) /\ 200 \in Statuses /\ 500 \in Statuses
    BY <1>3, <2>2 DEF Statuses, Landed
  <2> QED BY <1>3, <2>3, LandedType DEF TypeOK
<1>4. users \in Table
  BY DEF TypeOK
<1> QED BY <1>1, <1>2, <1>3, <1>4 DEF UpdateFlush

LEMMA DeleteType ==
    ASSUME TypeOK, NEW c \in Clients,
           DeleteFlush(c) \/ BulkDelete(c) \/ DeleteAll(c)
    PROVE  TypeOK'
<1>1. CASE Refuse(c, 404)
  BY <1>1, RefuseType DEF Statuses
<1>2. ASSUME NEW S, users' = Removed(users, S),
             NEW st \in {201, 204}, Landed(c, st, <<>>, 500)
      PROVE  TypeOK'
  <2>1. users' \in Table
    BY <1>2, RemovedType DEF TypeOK
  <2>2. st \in Statuses /\ 500 \in Statuses
    BY DEF Statuses
  <2>3. /\ req' \in [Clients -> Requests \cup {NoRequest}]
        /\ draft' \in [Clients -> Seq(User)]
        /\ reply' \in [Clients -> Replies]
    BY <1>2, <2>2, LandedNoneType
  <2> QED BY <2>1, <2>3 DEF TypeOK
<1> QED BY <1>1, <1>2 DEF DeleteFlush, BulkDelete, DeleteAll

LEMMA HandleType ==
    ASSUME TypeOK, SessionOK, NEW c \in Clients, Handle(c)
    PROVE  TypeOK'
<1>1. CASE ~ Ends(c)
  <2>1. PICK u \in User : /\ draft' = [draft EXCEPT ![c] = <<u>>]
                          /\ UNCHANGED <<users, req, reply>>
    BY <1>1, FirstStep
  <2> QED BY <2>1 DEF TypeOK
<1>2. ASSUME NEW st \in {400, 404, 409, 422, 500}, Refuse(c, st) PROVE TypeOK'
  BY <1>2, RefuseType DEF Statuses
<1>3. CASE CreateInsert(c)
  BY <1>3, DraftUser, InsertAllType DEF CreateInsert
<1>4. CASE BulkCreate(c)
  BY <1>2, <1>4, BulkCreateBuilds, InsertAllType
<1>5. CASE CreateSelect(c) \/ UpdateSelect(c) \/ DeleteSelect(c)
  <2>1. CASE \E st \in {400, 404, 409} : Refuse(c, st)
    BY <1>2, <2>1
  <2>2. CASE UNCHANGED req
    <3>1. req[c] # NoRequest
      BY <1>5 DEF CreateSelect, UpdateSelect, DeleteSelect, Serving
    <3>2. ~ Ends(c)
      BY <2>2, <3>1 DEF Ends, TypeOK
    <3> QED BY <1>1, <3>2
  <2> QED BY <1>5, <2>1, <2>2 DEF CreateSelect, UpdateSelect, DeleteSelect
<1>6. CASE Fail(c)
  BY <1>2, <1>6 DEF Fail
<1> QED BY <1>3, <1>4, <1>5, <1>6, UpsertType, UpdateFlushType, DeleteType DEF Handle

LEMMA NextTypeOK == TypeOK /\ SessionOK /\ [Next]_vars => TypeOK'
<1>1. Crash => (TypeOK => TypeOK')
  BY DEF Crash, TypeOK, NoReply, Replies, Statuses
<1>2. UNCHANGED vars => (TypeOK => TypeOK')
  BY DEF vars, TypeOK
<1> QED BY <1>1, <1>2, SubmitType, HandleType DEF Next

-----------------------------------------------------------------------------
(* Uniqueness of e-mails.                                                  *)

(* An upsert that the database accepts keeps e-mails unique, one without   *)
(* users because it changes nothing.                                       *)
LEMMA UpsertUnique ==
    ASSUME UniqueEmails, users \in Table, NEW us \in Seq(User), UpsertOk(us)
    PROVE  EmailsUnique(Upserted(us, Len(us)))
<1>1. CASE Len(us) = 0
  <2>1. \A i \in Ids : Writes(us, Len(us), i) = {}
    BY <1>1 DEF Writes
  <2>2. Upserted(us, Len(us)) = users
    BY <2>1 DEF Upserted, Written, Table
  <2> QED BY <2>2 DEF UniqueEmails
<1>2. CASE Len(us) # 0
  <2>1. Len(us) \in DOMAIN us
    BY <1>2
  <2> QED BY <2>1 DEF UpsertOk
<1> QED BY <1>1, <1>2

LEMMA NextUnique == TypeOK /\ UniqueEmails /\ [Next]_vars => UniqueEmails'
<1> SUFFICES ASSUME TypeOK, UniqueEmails, [Next]_vars PROVE UniqueEmails'
  OBVIOUS
<1> USE DEF UniqueEmails
<1>1. CASE UNCHANGED users
  BY <1>1
<1>2. ASSUME NEW S, users' = Removed(users, S) PROVE EmailsUnique(users')
  BY <1>2, RemovedUnique DEF TypeOK
<1>3. ASSUME NEW c, NEW us, InsertAll(c, us) PROVE EmailsUnique(users')
  BY <1>1, <1>3 DEF InsertAll, InsertOk, Refuse
<1>4. ASSUME NEW c \in Clients, Handle(c) PROVE EmailsUnique(users')
  <2>1. CASE CreateSelect(c)
    BY <1>1, <2>1 DEF CreateSelect, Refuse
  <2>2. CASE CreateInsert(c)
    BY <1>3, <2>2 DEF CreateInsert
  <2>3. CASE BulkCreate(c)
    BY <1>1, <1>3, <2>3, BulkCreateBuilds DEF Refuse
  <2>4. CASE Upsert(c) \/ BulkUpsert(c)
    <3>1. CASE \E st \in {400, 422, 500} : Refuse(c, st)
      BY <1>1, <3>1 DEF Refuse
    <3>2. CASE \E us \in Seq(User) : UpsertOk(us) /\ users' = Upserted(us, Len(us))
      BY <3>2, UpsertUnique DEF TypeOK
    <3> QED BY <2>4, <3>1, <3>2, UpsertBuilds
  <2>5. CASE UpdateSelect(c)
    BY <1>1, <2>5 DEF UpdateSelect, Refuse
  <2>6. CASE UpdateFlush(c)
    BY <1>1, <2>6 DEF UpdateFlush, Refuse
  <2>7. CASE DeleteSelect(c)
    BY <1>1, <2>7 DEF DeleteSelect, Refuse
  <2>8. CASE DeleteFlush(c)
    BY <1>2, <2>8 DEF DeleteFlush
  <2>9. CASE BulkDelete(c)
    BY <1>1, <1>2, <2>9 DEF BulkDelete, Refuse
  <2>10. CASE DeleteAll(c)
    BY <1>2, <2>10 DEF DeleteAll
  <2>11. CASE Fail(c)
    BY <1>1, <2>11 DEF Fail, Refuse
  <2> QED BY <1>4, <2>1, <2>2, <2>3, <2>4, <2>5, <2>6, <2>7, <2>8, <2>9, <2>10, <2>11
          DEF Handle
<1> QED BY <1>1, <1>4 DEF Next, Submit, Crash, vars

-----------------------------------------------------------------------------
(* What a session holds.                                                   *)

LEMMA SessionNamed == TypeOK /\ SessionOK => DraftsNamed
<1> SUFFICES ASSUME TypeOK, SessionOK, NEW c \in Clients, draft[c] # <<>>,
                    ~ Serving(c, "Create")
             PROVE  draft[c][1].id \in Named(req[c])
  BY DEF SessionOK, DraftsNamed, Serving
<1>1. CASE Serving(c, "Update") /\ draft[c][1].id = req[c].users[1].id
  BY <1>1, NamedKey
<1>2. CASE Serving(c, "Delete") /\ draft[c][1].id = req[c].ids[1]
  <2>1. req[c] \in Requests /\ req[c].ids \in Seq(Ids) /\ req[c].op = "Delete"
    BY <1>2, ServedRequest DEF Serving
  <2>2. Len(req[c].ids) = 1
    BY <2>1, RequestAssumption
  <2>3. req[c].ids[1] \in Range(req[c].ids)
    BY <2>1, <2>2 DEF Range
  <2> QED BY <1>2, <2>3 DEF Named
<1> QED BY <1>1, <1>2 DEF SessionOK

(* The request on c ends or keeps one entity, and no other is touched.     *)
LEMMA HandleOthers ==
    ASSUME TypeOK, NEW c \in Clients, Handle(c), NEW d \in Clients \ {c}
    PROVE  draft'[d] = draft[d] /\ req'[d] = req[d]
<1>1. CASE Ends(c)
  BY <1>1 DEF Ends, TypeOK
<1>2. CASE ~ Ends(c)
  BY <1>2, FirstStep DEF TypeOK
<1> QED BY <1>1, <1>2

LEMMA NextSession == TypeOK /\ SessionOK /\ [Next]_vars => SessionOK'
<1> SUFFICES ASSUME TypeOK, SessionOK, [Next]_vars,
                    NEW d \in Clients, draft'[d] # <<>>
             PROVE  /\ Len(draft'[d]) = 1
                    /\ LET u == draft'[d][1] IN
                       \/ /\ Serving(d, "Create")'
                          /\ u = NewUser(u.id, req'[d].users[1], u.at)
                       \/ /\ Serving(d, "Update")'
                          /\ WellFormed(req'[d].users[1])
                          /\ u.id = req'[d].users[1].id
                       \/ Serving(d, "Delete")' /\ u.id = req'[d].ids[1]
  BY DEF SessionOK
<1>1. CASE draft'[d] = draft[d] /\ req'[d] = req[d]
  BY <1>1 DEF SessionOK, Serving
<1>2. ASSUME NEW c \in Clients, NEW r \in Requests, Submit(c, r)
      PROVE  draft'[d] = draft[d] /\ req'[d] = req[d]
  <2>1. req[d] # NoRequest
    BY <1>2 DEF Submit, SessionOK, Serving
  <2> QED BY <1>2, <2>1 DEF Submit, TypeOK
<1>3. CASE Handle(d)
  <2>1. ~ Ends(d)
    BY EndsDrafts
  <2>2. PICK u \in User :
            /\ draft' = [draft EXCEPT ![d] = <<u>>]
            /\ UNCHANGED <<users, req, reply>>
            /\ \/ /\ Serving(d, "Create")
                  /\ u.id \in Fresh
                  /\ u = NewUser(u.id, req[d].users[1], u.at)
               \/ /\ Serving(d, "Update")
                  /\ WellFormed(req[d].users[1])
                  /\ u.id = req[d].users[1].id
               \/ Serving(d, "Delete") /\ u.id = req[d].ids[1]
    BY <1>3, <2>1, FirstStep
  <2>3. draft'[d] = <<u>> /\ Len(draft'[d]) = 1 /\ draft'[d][1] = u
    BY <2>2 DEF TypeOK
  <2> QED BY <2>2, <2>3 DEF Serving
<1>4. ASSUME NEW c \in Clients \ {d}, Handle(c)
      PROVE  draft'[d] = draft[d] /\ req'[d] = req[d]
  BY <1>4, HandleOthers
<1>5. CASE Crash
  BY <1>5 DEF Crash
<1>6. CASE UNCHANGED vars
  BY <1>1, <1>6 DEF vars
<1> QED BY <1>1, <1>2, <1>3, <1>4, <1>5, <1>6 DEF Next

(* Only a key that is written comes into the table.                        *)
LEMMA NewKeys ==
    ASSUME TypeOK, SessionOK, NEW e \in Clients, Handle(e),
           NEW i \in Present(users')
    PROVE  \/ i \in Present(users)
           \/ i \in Named(req[e])
           \/ i \in Fresh
           \/ Serving(e, "Create") /\ draft[e] # <<>> /\ i = draft[e][1].id
<1>1. CASE UNCHANGED users
  BY <1>1
<1>2. ASSUME NEW S, users' = Removed(users, S) PROVE i \in Present(users)
  BY <1>2 DEF Removed, Present
<1>3. ASSUME NEW us \in Seq(User), users' = Inserted(users, us)
      PROVE  i \in Present(users) \/ \E k \in DOMAIN us : us[k].id = i
  BY <1>3, InsertedPresent
<1>4. CASE CreateInsert(e)
  <2>1. draft[e] \in Seq(User) /\ Len(draft[e]) = 1 /\ DOMAIN draft[e] = {1}
    BY <1>4, DraftUser DEF CreateInsert, SessionOK
  <2> QED BY <1>1, <1>3, <1>4, <2>1 DEF CreateInsert, InsertAll, Refuse
<1>5. CASE BulkCreate(e)
  <2>1. CASE ~ UNCHANGED users
    <3>1. PICK us \in Seq(User) : /\ \A k \in DOMAIN us : us[k].id \in Fresh
                                  /\ users' = Inserted(users, us)
      BY <1>5, <2>1, BulkCreateBuilds DEF Refuse, InsertAll, BuildsNew
    <3> QED BY <1>3, <3>1
  <2> QED BY <1>1, <2>1
<1>6. CASE Upsert(e) \/ BulkUpsert(e)
  <2>1. CASE ~ UNCHANGED users
    <3>1. PICK us \in Seq(User) :
              /\ BuildsNamed(e, us)
              /\ users' = Upserted(us, Len(us))
      BY <1>6, <2>1, UpsertBuilds DEF Refuse
    <3>2. req[e].users \in Seq(Param)
      BY <1>6, ServedRequest DEF Upsert, BulkUpsert, Serving
    <3>3. \A k \in DOMAIN us : us[k].id \in Named(req[e])
      BY <3>1, <3>2 DEF BuildsNamed, Builds, Named, Range
    <3>4. users' = Inserted(users, us)
      BY <3>1 DEF Upserted, Inserted
    <3> QED BY <1>3, <3>3, <3>4
  <2> QED BY <1>1, <2>1
<1>7. CASE UpdateFlush(e)
  <2> DEFINE p == req[e].users[1]
             old == draft[e][1]
             new == NewUser(p.id, p, old.at)
  <2>1. new.id = p.id /\ p.id \in Ids
    BY <1>7, FlushedType
  <2>2. CASE users[p.id] # NoRow /\ users' = Flushed(old, new)
    <3>1. \A j \in Ids \ {p.id} : users'[j] = users[j]
      BY <2>1, <2>2 DEF Flushed, TypeOK, Table
    <3> QED BY <2>2, <3>1 DEF Present
  <2> QED BY <1>1, <1>7, <2>2 DEF UpdateFlush, Refuse
<1> QED BY <1>1, <1>2, <1>4, <1>5, <1>6, <1>7
        DEF Handle, CreateSelect, UpdateSelect, DeleteSelect, DeleteFlush,
            BulkDelete, DeleteAll, Fail, Refuse

LEMMA HandleKeys ==
    ASSUME TypeOK, SessionOK, NEW e \in Clients, Handle(e)
    PROVE  KeysMove(e)
<1>1. \A d \in Clients \ {e} : draft'[d] = draft[d] /\ req'[d] = req[d]
  BY HandleOthers
<1>2. CASE Ends(e)
  BY <1>1, <1>2, NewKeys DEF Ends, TypeOK, KeysMove
<1>3. CASE ~ Ends(e)
  <2>1. PICK u \in User :
            /\ draft' = [draft EXCEPT ![e] = <<u>>]
            /\ UNCHANGED <<users, req, reply>>
            /\ \/ Serving(e, "Create") /\ u.id \in Fresh
               \/ Serving(e, "Update") /\ u.id = req[e].users[1].id
               \/ Serving(e, "Delete") /\ u.id = req[e].ids[1]
    BY <1>3, FirstStep
  <2>2. draft'[e] = <<u>> /\ draft'[e][1] = u
    BY <2>1 DEF TypeOK
  <2>3. CASE Serving(e, "Create") /\ u.id \in Fresh
    BY <1>1, <2>1, <2>2, <2>3, NewKeys DEF KeysMove
  <2>4. CASE Serving(e, "Update") /\ u.id = req[e].users[1].id
    <3>1. u.id \in Named(req[e]) /\ ~ Serving(e, "Create")'
      BY <2>1, <2>4, NamedKey DEF Serving
    <3> QED BY <1>1, <2>1, <2>2, <3>1, NewKeys DEF KeysMove
  <2>5. CASE Serving(e, "Delete") /\ u.id = req[e].ids[1]
    <3>1. req[e] \in Requests /\ req[e].ids \in Seq(Ids) /\ req[e].op = "Delete"
      BY <2>5, ServedRequest DEF Serving
    <3>2. Len(req[e].ids) = 1
      BY <3>1, RequestAssumption
    <3>3. u.id \in Named(req[e]) /\ ~ Serving(e, "Create")'
      BY <2>1, <2>5, <3>1, <3>2 DEF Serving, Named, Range
    <3> QED BY <1>1, <2>1, <2>2, <3>3, NewKeys DEF KeysMove
  <2> QED BY <2>1, <2>3, <2>4, <2>5
<1> QED BY <1>2, <1>3

LEMMA NextKeys == TypeOK /\ SessionOK /\ KeysApart /\ [Next]_vars => KeysApart'
<1> SUFFICES ASSUME TypeOK, SessionOK, KeysApart, [Next]_vars PROVE KeysApart'
  OBVIOUS
<1>1. DraftsNamed
  BY SessionNamed
<1>2. CASE Crash
  BY <1>2 DEF Crash, KeysApart
<1>3. CASE UNCHANGED vars
  BY <1>3 DEF vars, KeysApart, Serving
<1>4. ASSUME NEW e \in Clients, NEW r \in Requests, Submit(e, r) PROVE KeysApart'
  BY <1>1, <1>4, SubmitKeys
<1>5. ASSUME NEW e \in Clients, Handle(e) PROVE KeysApart'
  BY <1>1, <1>5, HandleKeys, KeysMoveApart
<1> QED BY <1>2, <1>3, <1>4, <1>5 DEF Next

LEMMA InitInv == Init => PyInv
BY InitTypeOK, InitUnique, InitDrafts DEF PyInv, SessionOK, Init

LEMMA NextInv == PyInv /\ [Next]_vars => PyInv'
BY NextTypeOK, NextUnique, NextSession, NextKeys DEF PyInv

(* Whichever requests race, every state of the Python stack is well typed, *)
(* no two users hold the same e-mail, every session holds an entity of its *)
(* own request, and no create holds the key of another.                    *)
THEOREM Invariant == Spec => []PyInv
BY InitInv, NextInv, PTL DEF Spec

-----------------------------------------------------------------------------
(* The contract and the stack speak of the same data.                      *)

LEMMA SameTypes ==
    /\ Store!NoRequest = NoRequest
    /\ Store!NoReply = NoReply
    /\ Store!User = User
    /\ Store!Table = Table
BY DEF NoRequest, NoReply, User, Row, Table,
       Store!NoRequest, Store!NoReply, Store!User, Store!Row, Store!Table

LEMMA SameReads ==
    /\ \A f : Store!Range(f) = Range(f)
    /\ \A p : Store!WellFormed(p) <=> WellFormed(p)
    /\ \A i, p, at : Store!NewUser(i, p, at) = NewUser(i, p, at)
    /\ \A t : Store!Present(t) = Present(t)
    /\ \A t : Store!EmailsUnique(t) <=> EmailsUnique(t)
BY DEF Range, WellFormed, NewUser, Present, EmailsUnique,
       Store!Range, Store!WellFormed, Store!NewUser, Store!Present,
       Store!EmailsUnique

LEMMA SameWrites ==
    /\ \A u : Store!RowOf(u) = RowOf(u)
    /\ \A us, n, i : Store!Writes(us, n, i) = Writes(us, n, i)
    /\ \A S : Store!Last(S) = Last(S)
    /\ \A t, us : Store!Inserted(t, us) = Inserted(t, us)
    /\ \A t, us : Store!InsertOk(t, us) <=> InsertOk(t, us)
    /\ \A t, S : Store!Removed(t, S) = Removed(t, S)
<1>1. \A u : Store!RowOf(u) = RowOf(u)
  BY DEF RowOf, Store!RowOf
<1>2. \A us, n, i : Store!Writes(us, n, i) = Writes(us, n, i)
  BY DEF Writes, Store!Writes
<1>3. \A S : Store!Last(S) = Last(S)
  BY DEF Last, Store!Last
<1>4. \A t, us : Store!Inserted(t, us) = Inserted(t, us)
  BY <1>1, <1>2, <1>3 DEF Inserted, Written, Store!Inserted, Store!Written
<1>5. \A t, us : Store!InsertOk(t, us) <=> InsertOk(t, us)
  BY <1>4, SameReads DEF InsertOk, DistinctIds, Store!InsertOk, Store!DistinctIds
<1>6. \A t, S : Store!Removed(t, S) = Removed(t, S)
  BY DEF Removed, Store!Removed
<1> QED BY <1>1, <1>2, <1>3, <1>4, <1>5, <1>6

-----------------------------------------------------------------------------
(* Requests and answers.                                                   *)

(* An answer of the stack is an answer of the contract.                    *)
LEMMA AnswerMaps ==
    ASSUME TypeOK, NEW c \in Clients, NEW st, NEW us, Answer(c, st, us)
    PROVE  Store!Answer(c, st, us)
BY SameTypes DEF Answer, Store!Answer

LEMMA LandedMaps ==
    ASSUME TypeOK, NEW c \in Clients, NEW st, NEW us, Landed(c, st, us, 500)
    PROVE  Store!Told(c, st, us)
BY AnswerMaps DEF Landed, Store!Told

(* What a request built, the contract may build.                           *)
LEMMA BuiltMaps ==
    ASSUME NEW c \in Clients, req[c].users \in Seq(Param), NEW us, Builds(c, us)
    PROVE  LET ps == req[c].users
               ids == [k \in DOMAIN ps |-> us[k].id] IN
           /\ us \in Store!Built(ps, {ids})
           /\ us \in Store!Built(ps, [DOMAIN ps -> Ids])
<1> DEFINE ps == req[c].users
<1>1. PICK ids \in [DOMAIN ps -> Ids], at \in [DOMAIN ps -> Times] :
          /\ ids = [k \in DOMAIN ps |-> us[k].id]
          /\ us = [k \in DOMAIN ps |-> NewUser(ids[k], ps[k], at[k])]
  BY BuiltUnder
<1>2. us = [k \in DOMAIN ps |-> Store!NewUser(ids[k], ps[k], at[k])]
  BY <1>1, SameReads
<1>3. ASSUME NEW keys, ids \in keys PROVE us \in Store!Built(ps, keys)
  BY <1>2, <1>3 DEF Store!Built
<1> QED BY <1>1, <1>3

(* A request may always be refused with 400, 422 or 500, with 404 when an  *)
(* id it names has no row, and a create with 409 when its e-mail is taken. *)
LEMMA RefuseMaps ==
    ASSUME TypeOK, NEW c \in Clients, req[c] # NoRequest,
           \/ \E st \in {400, 422, 500} : Refuse(c, st)
           \/ Refuse(c, 404) /\ Store!IdMissing(c)
           \/ Refuse(c, 409) /\ Store!EmailTaken(c)
                             /\ req[c].op \in {"Create", "BulkCreate"}
    PROVE  Store!Next
<1> SUFFICES Store!Refuse(c)
  BY DEF Store!Next
<1>1. req[c] # Store!NoRequest
  BY SameTypes
<1>2. ASSUME NEW st, Refuse(c, st)
      PROVE  Store!Answer(c, st, <<>>) /\ UNCHANGED users
  BY <1>2, AnswerMaps DEF Refuse
<1>3. CASE \E st \in {400, 422, 500} : Refuse(c, st)
  BY <1>1, <1>2, <1>3 DEF Store!Refuse
<1>4. CASE Refuse(c, 404) /\ Store!IdMissing(c)
  BY <1>1, <1>2, <1>4 DEF Store!Refuse
<1>5. CASE /\ Refuse(c, 409) /\ Store!EmailTaken(c)
           /\ req[c].op \in {"Create", "BulkCreate"}
  BY <1>1, <1>2, <1>5 DEF Store!Refuse
<1> QED BY <1>3, <1>4, <1>5

LEMMA SubmitMaps ==
    ASSUME NEW c \in Clients, NEW r \in Requests, Submit(c, r)
    PROVE  Store!Next
BY SameTypes DEF Submit, Store!Call, Store!Next

-----------------------------------------------------------------------------
(* Creates.                                                                *)

(* An insert of what a create built, under keys nobody holds, succeeds     *)
(* under the contract, or is refused for an e-mail.                        *)
LEMMA InsertAllMaps ==
    ASSUME PyInv, NEW c \in Clients, req[c] # NoRequest,
           req[c].op \in {"Create", "BulkCreate"},
           NEW us \in Seq(User), Builds(c, us), DistinctIds(us),
           \A k \in DOMAIN us : users[us[k].id] = NoRow,
           InsertAll(c, us)
    PROVE  Store!Next
<1> DEFINE ps == req[c].users
<1> USE DEF PyInv
<1>1. ps \in Seq(Param)
  BY ServedRequest
<1>2. /\ Len(us) = Len(ps) /\ DOMAIN us = DOMAIN ps
      /\ \A k \in DOMAIN us :
            /\ WellFormed(ps[k])
            /\ us[k] = NewUser(us[k].id, ps[k], us[k].at)
  BY <1>1 DEF Builds
<1>3. ASSUME NEW k \in DOMAIN us
      PROVE  us[k].email = ps[k].email.addr /\ ps[k] \in Range(ps)
  <2>1. us[k] = NewUser(us[k].id, ps[k], us[k].at)
    BY <1>2
  <2>2. us[k].email = ps[k].email.addr
    BY <2>1 DEF NewUser
  <2>3. ps[k] \in Range(ps)
    BY <1>2 DEF Range
  <2> QED BY <2>2, <2>3
<1>4. CASE InsertOk(users, us) /\ users' = Inserted(users, us) /\ Landed(c, 201, us, 500)
  <2>1. Store!Told(c, 201, us)
    BY <1>4, LandedMaps
  <2>2. Store!Serving(c, {"Create", "BulkCreate"})
    BY SameTypes DEF Store!Serving
  <2>3. \A p \in Store!Range(ps) : Store!WellFormed(p)
    BY <1>2, SameReads DEF Range
  <2>4. us \in Store!Built(ps, [DOMAIN ps -> Ids])
    BY <1>1, BuiltMaps
  <2>5. Store!InsertOk(users, us) /\ users' = Store!Inserted(users, us)
    BY <1>4, SameWrites
  <2>6. Store!Create(c)
    BY <2>1, <2>2, <2>3, <2>4, <2>5 DEF Store!Create
  <2> QED BY <2>6 DEF Store!Next
<1>5. CASE ~ InsertOk(users, us) /\ Refuse(c, 409)
  <2>1. \/ \E k \in DOMAIN us, i \in Present(users) : users[i].email = us[k].email
        \/ \E j, k \in DOMAIN us : j # k /\ us[j].email = us[k].email
    BY <1>5, ClashIsEmail DEF TypeOK, UniqueEmails
  <2> SUFFICES Store!EmailTaken(c)
    BY <1>5, RefuseMaps
  <2>2. CASE \E k \in DOMAIN us, i \in Present(users) : users[i].email = us[k].email
    <3>1. \E p \in Range(ps), i \in Present(users) : users[i].email = p.email.addr
      BY <1>3, <2>2
    <3> QED BY <3>1, SameReads DEF Store!EmailTaken
  <2>3. CASE \E j, k \in DOMAIN us : j # k /\ us[j].email = us[k].email
    BY <1>2, <1>3, <2>3 DEF Store!EmailTaken
  <2> QED BY <2>1, <2>2, <2>3
<1> QED BY <1>4, <1>5 DEF InsertAll

LEMMA CreateInsertMaps ==
    ASSUME PyInv, NEW c \in Clients, CreateInsert(c)
    PROVE  Store!Next
<1> DEFINE us == draft[c]
           p == req[c].users[1]
<1> USE DEF PyInv
<1>1. /\ us \in Seq(User) /\ Len(us) = 1 /\ DOMAIN us = {1}
      /\ us[1] \in User /\ us[1].id \in Ids
      /\ us[1] = NewUser(us[1].id, p, us[1].at)
      /\ req[c] # NoRequest /\ req[c].op = "Create"
  BY DraftUser DEF CreateInsert, SessionOK, Serving
<1>2. p \in Param /\ Len(req[c].users) = 1
  BY <1>1, ServedUser DEF Serving
<1>3. WellFormed(p)
  <2>1. us[1].email \in Addrs /\ us[1].name \in Names
    BY <1>1 DEF User
  <2>2. us[1].email = p.email.addr /\ us[1].name = p.name
    BY <1>1 DEF NewUser
  <2> QED BY <2>1, <2>2 DEF WellFormed
<1>4. us[1].id \notin Present(users)
  BY DEF CreateInsert, KeysApart
<1>5. DistinctIds(us) /\ \A k \in DOMAIN us : users[us[k].id] = NoRow
  BY <1>1, <1>4 DEF DistinctIds, Present
<1>6. Builds(c, us)
  BY <1>1, <1>2, <1>3 DEF Builds
<1> QED BY <1>1, <1>5, <1>6, InsertAllMaps DEF CreateInsert

LEMMA BulkCreateMaps ==
    ASSUME PyInv, NEW c \in Clients, BulkCreate(c)
    PROVE  Store!Next
<1>1. req[c] # NoRequest /\ req[c].op = "BulkCreate"
  BY DEF BulkCreate, Serving
<1>2. CASE Refuse(c, 400)
  BY <1>1, <1>2, RefuseMaps DEF PyInv
<1>3. CASE ~ Refuse(c, 400)
  <2>1. PICK us \in Seq(User) :
            BuildsNew(c, us) /\ InsertAll(c, us)
    BY <1>3, BulkCreateBuilds DEF PyInv
  <2>2. \A k \in DOMAIN us : users[us[k].id] = NoRow
    BY <2>1 DEF BuildsNew, Fresh, Present
  <2> QED BY <1>1, <2>1, <2>2, InsertAllMaps DEF BuildsNew
<1> QED BY <1>2, <1>3

-----------------------------------------------------------------------------
(* Upserts and updates.                                                    *)

LEMMA UpsertMaps ==
    ASSUME PyInv, NEW c \in Clients, Upsert(c) \/ BulkUpsert(c)
    PROVE  Store!Next
<1> DEFINE ps == req[c].users
<1> USE DEF PyInv
<1>1. ps \in Seq(Param) /\ req[c] # NoRequest /\ req[c].op \in {"Upsert", "BulkUpsert"}
  BY ServedRequest DEF Upsert, BulkUpsert, Serving
<1>2. CASE \E st \in {400, 422, 500} : Refuse(c, st)
  BY <1>1, <1>2, RefuseMaps
<1>3. CASE ~ \E st \in {400, 422, 500} : Refuse(c, st)
  <2>1. PICK us \in Seq(User) :
            /\ BuildsNamed(c, us)
            /\ UpsertOk(us)
            /\ users' = Upserted(us, Len(us))
            /\ Landed(c, 200, us, 500)
    BY <1>3, UpsertBuilds
  <2>2. Store!Told(c, 200, us)
    BY <2>1, LandedMaps
  <2>3. Store!Serving(c, {"Upsert", "BulkUpsert"})
    BY <1>1, SameTypes DEF Store!Serving
  <2>4. \A p \in Store!Range(ps) : Store!WellFormed(p) /\ p.id \in Ids
    <3>1. ASSUME NEW k \in DOMAIN ps PROVE WellFormed(ps[k]) /\ ps[k].id \in Ids
      <4>1. k \in DOMAIN us /\ us[k] \in User
        BY <1>1, <2>1 DEF BuildsNamed, Builds
      <4> QED BY <2>1, <4>1 DEF BuildsNamed, Builds, User
    <3> QED BY <3>1, SameReads DEF Range
  <2>9. us \in Store!Built(ps, {[k \in DOMAIN ps |-> ps[k].id]})
    <3>1. Builds(c, us) /\ DOMAIN us = DOMAIN ps
      BY <1>1, <2>1 DEF BuildsNamed, Builds
    <3>2. [k \in DOMAIN ps |-> us[k].id] = [k \in DOMAIN ps |-> ps[k].id]
      BY <2>1, <3>1 DEF BuildsNamed
    <3> QED BY <1>1, <3>1, <3>2, BuiltMaps
  <2>10. \A k \in DOMAIN us : ps[k].at \in Times => us[k].at = ps[k].at
    BY <2>1 DEF BuildsNamed
  <2>5. users' \in Table
    <3>1. Len(us) \in 0..Len(us)
      OBVIOUS
    <3> QED BY <2>1, <3>1, WrittenType DEF TypeOK, Upserted
  <2>6. EmailsUnique(users')
    BY <2>1, UpsertUnique DEF TypeOK
  <2>7. ASSUME NEW i \in Ids
        PROVE  LET W == Writes(us, Len(us), i) IN
               IF W = {} THEN users'[i] = users[i]
               ELSE /\ users'[i] # NoRow
                    /\ users'[i].email = us[Last(W)].email
                    /\ users'[i].name = us[Last(W)].name
                    /\ \/ users[i] # NoRow /\ users'[i].at = users[i].at
                       \/ \E k \in W : users'[i].at = us[k].at
    <3> DEFINE W == Writes(us, Len(us), i)
    <3>1. CASE W = {}
      BY <2>1, <3>1 DEF Upserted, Written
    <3>2. CASE W # {}
      <4>1. W \subseteq 1..Len(us) /\ Len(us) \in Nat
        BY DEF Writes
      <4>2. Last(W) \in W
        BY <3>2, <4>1, FirstLastType
      <4>3. users'[i] = RowOf(us[Last(W)])
        BY <2>1, <3>2 DEF Upserted, Written
      <4> HIDE DEF W
      <4>4. us[Last(W)] \in User
        <5>1. Last(W) \in 1..Len(us)
          BY <4>1, <4>2
        <5> QED BY <5>1
      <4>5. users'[i] # NoRow
        BY <4>3, <4>4, RowOfType, DataAssumption DEF DataAssumption
      <4>6. /\ users'[i].email = us[Last(W)].email
            /\ users'[i].name = us[Last(W)].name
            /\ users'[i].at = us[Last(W)].at
        BY <4>3 DEF RowOf
      <4> QED BY <3>2, <4>2, <4>5, <4>6 DEF W
    <3> QED BY <3>1, <3>2
  <2>8. Store!Upsert(c)
    BY <2>2, <2>3, <2>4, <2>5, <2>6, <2>7, <2>9, <2>10, SameTypes, SameReads, SameWrites
       DEF Store!Upsert
  <2> QED BY <2>8 DEF Store!Next
<1> QED BY <1>2, <1>3

(* An update answered 200 stored of what it answers the columns it saw     *)
(* differ, or nothing where the user is gone.                              *)
LEMMA UpdateFlushMaps ==
    ASSUME PyInv, NEW c \in Clients, UpdateFlush(c)
    PROVE  Store!Next
<1> DEFINE p == req[c].users[1]
           old == draft[c][1]
           new == NewUser(p.id, p, old.at)
<1> USE DEF PyInv
<1>1. /\ p \in Param /\ p.id \in Ids /\ WellFormed(p)
      /\ old \in User /\ old.id = p.id
      /\ new \in User /\ new.id = p.id
      /\ users[p.id] # NoRow => Flushed(old, new) \in Table
  BY FlushedType
<1>2. req[c] # NoRequest /\ req[c].op = "Update"
  BY DEF UpdateFlush, Serving
<1>3. CASE Refuse(c, 500)
  BY <1>2, <1>3, RefuseMaps
<1>4. ASSUME users' \in Table, EmailsUnique(users'), Store!PartlyUpdated(p),
             \A j \in Ids \ {p.id} : users'[j] = users[j],
             Landed(c, 200, <<new>>, 500)
      PROVE  Store!Next
  <2>1. Store!Told(c, 200, <<new>>)
    BY <1>4, LandedMaps
  <2>2. Store!Serving(c, {"Update"})
    BY <1>2, SameTypes DEF Store!Serving
  <2>3. new.at \in Times
    BY <1>1 DEF User
  <2>4. new = NewUser(p.id, p, new.at)
    BY DEF NewUser
  <2>5. Store!WellFormed(p) /\ new = Store!NewUser(p.id, p, new.at)
    BY <1>1, <2>4, SameReads
  <2>6. Store!EmailsUnique(users')
    BY <1>4, SameReads
  <2>7. users' \in Store!Table
    BY <1>4, SameTypes
  <2>8. Store!Update(c)
    <3> HIDE DEF new
    <3> QED BY <1>4, <2>1, <2>2, <2>3, <2>5, <2>6, <2>7 DEF Store!Update
  <2> QED BY <2>8 DEF Store!Next
<1>5. CASE new = old /\ UNCHANGED users /\ Answer(c, 200, <<new>>)
  <2>1. Store!PartlyUpdated(p)
    BY <1>5 DEF Store!PartlyUpdated
  <2> QED BY <1>4, <1>5, <2>1 DEF TypeOK, UniqueEmails, Landed
<1>6. CASE /\ users[p.id] # NoRow /\ EmailsUnique(Flushed(old, new))
           /\ users' = Flushed(old, new) /\ Landed(c, 200, <<new>>, 500)
  <2>1. \A j \in Ids \ {p.id} : users'[j] = users[j]
    BY <1>1, <1>6 DEF Flushed, TypeOK, Table
  <2>2. users' \in Table
    BY <1>1, <1>6
  <2>3. /\ users'[p.id].email \in {users[p.id].email, new.email}
        /\ users'[p.id].name \in {users[p.id].name, new.name}
        /\ users'[p.id].at = users[p.id].at
        /\ users'[p.id] # NoRow
    <3> DEFINE row == [email |-> IF new.email # old.email THEN new.email
                                 ELSE users[p.id].email,
                       name  |-> IF new.name # old.name THEN new.name
                                 ELSE users[p.id].name,
                       at    |-> users[p.id].at]
    <3> HIDE DEF p, old, new
    <3>1. users'[p.id] = row
      BY <1>1, <1>6 DEF Flushed, TypeOK, Table
    <3>2. users[p.id] \in Row
      BY <1>1, <1>6 DEF TypeOK, Table
    <3>3. row \in Row
      BY <1>1, <3>2 DEF Row, User
    <3>4. row # NoRow
      BY <3>3, DataAssumption DEF DataAssumption
    <3> QED BY <3>1, <3>4
  <2>4. new.email = p.email.addr /\ new.name = p.name
    BY DEF NewUser
  <2>5. Store!PartlyUpdated(p)
    BY <1>6, <2>3, <2>4 DEF Store!PartlyUpdated
  <2> QED BY <1>4, <1>6, <2>1, <2>2, <2>5
<1> QED BY <1>3, <1>5, <1>6 DEF UpdateFlush

-----------------------------------------------------------------------------
(* Deletes.                                                                *)

LEMMA DeleteFlushMaps ==
    ASSUME PyInv, NEW c \in Clients, DeleteFlush(c)
    PROVE  Store!Next
<1> DEFINE ids == req[c].ids
<1> USE DEF PyInv
<1>1. /\ req[c] # NoRequest /\ req[c].op = "Delete"
      /\ ids \in Seq(Ids) /\ Len(ids) = 1
  BY ServedRequest, RequestAssumption DEF DeleteFlush, Serving
<1>2. Range(ids) = {ids[1]}
  BY <1>1 DEF Range
<1>3. draft[c][1].id = ids[1]
  BY DEF DeleteFlush, SessionOK, Serving
<1>4. Store!Told(c, 204, <<>>)
  BY LandedMaps DEF DeleteFlush
<1>5. users' = Store!Removed(users, Store!Range(ids))
  BY <1>2, <1>3, SameReads, SameWrites DEF DeleteFlush
<1>6. Store!Delete(c)
  BY <1>1, <1>4, <1>5, SameTypes DEF Store!Delete, Store!Serving
<1> QED BY <1>6 DEF Store!Next

LEMMA BulkDeleteMaps ==
    ASSUME PyInv, NEW c \in Clients, BulkDelete(c)
    PROVE  Store!Next
<1> DEFINE ids == req[c].ids
           count == Cardinality(Range(ids) \cap Present(users))
<1> USE DEF PyInv
<1>1. req[c] # NoRequest /\ req[c].op = "BulkDelete" /\ ids \in Seq(Ids)
  BY ServedRequest DEF BulkDelete, Serving
<1>2. count = Len(ids) <=> Range(ids) \subseteq Present(users) /\ IsInjective(ids)
  BY <1>1, CountedRows
<1>3. \A k \in DOMAIN ids : ids[k] \in Range(ids) /\ ids[k] \in Ids
  BY <1>1 DEF Range
<1>4. CASE /\ count = Len(ids)
           /\ users' = Removed(users, Range(ids)) /\ Landed(c, 201, <<>>, 500)
  <2>1. Store!Told(c, 201, <<>>)
    BY <1>4, LandedMaps
  <2>2. \A k \in DOMAIN ids : users[ids[k]] # NoRow
    BY <1>2, <1>3, <1>4 DEF Present
  <2>3. Store!Serving(c, {"Delete", "BulkDelete"})
    BY <1>1, SameTypes DEF Store!Serving
  <2>4. users' = Store!Removed(users, Store!Range(ids))
    BY <1>4, SameReads, SameWrites
  <2>5. Store!Delete(c)
    BY <2>1, <2>2, <2>3, <2>4 DEF Store!Delete
  <2> QED BY <2>5 DEF Store!Next
<1>5. CASE count # Len(ids) /\ Refuse(c, 404)
  <2>1. \/ \E k \in DOMAIN ids : ids[k] \notin Present(users)
        \/ \E j, k \in DOMAIN ids : j # k /\ ids[j] = ids[k]
    BY <1>2, <1>5 DEF IsInjective, Range
  <2>2. Store!IdMissing(c)
    BY <1>3, <2>1 DEF Store!IdMissing, Present
  <2> QED BY <1>1, <1>5, <2>2, RefuseMaps
<1> QED BY <1>4, <1>5 DEF BulkDelete

LEMMA DeleteAllMaps ==
    ASSUME PyInv, NEW c \in Clients, DeleteAll(c)
    PROVE  Store!Next
<1>1. Store!Told(c, 204, <<>>)
  BY LandedMaps DEF DeleteAll, PyInv
<1>2. Store!DeleteAll(c)
  BY <1>1, SameTypes, SameWrites
     DEF DeleteAll, Serving, Store!DeleteAll, Store!Serving
<1> QED BY <1>2 DEF Store!Next

-----------------------------------------------------------------------------
(* First statements, failures and crashes.                                 *)

LEMMA SelectMaps ==
    ASSUME PyInv, NEW c \in Clients,
           CreateSelect(c) \/ UpdateSelect(c) \/ DeleteSelect(c)
    PROVE  Store!Next \/ UNCHANGED Store!vars
<1> USE DEF PyInv
<1>1. req[c] # NoRequest
  BY DEF CreateSelect, UpdateSelect, DeleteSelect, Serving
<1>2. CASE Refuse(c, 400)
  BY <1>1, <1>2, RefuseMaps
<1>3. CASE UNCHANGED <<users, req, reply>>
  BY <1>3 DEF Store!vars
<1>4. CASE CreateSelect(c) /\ Refuse(c, 409)
  <2> DEFINE p == req[c].users[1]
  <2>1. SelectByEmail(users, p.email) # {}
    <3>1. CASE Refuse(c, 400)
      BY <1>4, <3>1 DEF Refuse, Answer, TypeOK
    <3>2. CASE UNCHANGED req
      BY <1>1, <1>4, <3>2 DEF Refuse, Answer, TypeOK
    <3> QED BY <1>4, <3>1, <3>2 DEF CreateSelect
  <2>2. p \in Range(req[c].users)
    <3>1. req[c].users \in Seq(Param) /\ Len(req[c].users) = 1
      BY <1>1, <1>4, ServedRequest, ServedUser DEF CreateSelect
    <3> QED BY <3>1 DEF Range
  <2>3. Store!EmailTaken(c)
    BY <2>1, <2>2, SameReads DEF SelectByEmail, Store!EmailTaken
  <2>4. req[c].op = "Create"
    BY <1>4 DEF CreateSelect, Serving
  <2> QED BY <1>1, <1>4, <2>3, <2>4, RefuseMaps
<1>5. CASE UpdateSelect(c) /\ users[req[c].users[1].id] = NoRow /\ Refuse(c, 404)
  <2>1. Store!IdMissing(c)
    BY <1>5 DEF UpdateSelect, Serving, Store!IdMissing
  <2> QED BY <1>1, <1>5, <2>1, RefuseMaps
<1>6. CASE DeleteSelect(c) /\ users[req[c].ids[1]] = NoRow /\ Refuse(c, 404)
  <2>1. req[c] \in Requests /\ req[c].ids \in Seq(Ids) /\ req[c].op = "Delete"
    BY <1>1, <1>6, ServedRequest DEF DeleteSelect, Serving
  <2>2. 1 \in DOMAIN req[c].ids
    BY <2>1, RequestAssumption
  <2>3. Store!IdMissing(c)
    BY <1>6, <2>2 DEF Store!IdMissing
  <2> QED BY <1>1, <1>6, <2>3, RefuseMaps
<1> QED BY <1>2, <1>3, <1>4, <1>5, <1>6 DEF CreateSelect, UpdateSelect, DeleteSelect

LEMMA CrashMaps == Crash => Store!Next
<1>1. Crash => Store!Crash
  BY SameTypes DEF Crash, Store!Crash
<1> QED BY <1>1 DEF Store!Next

LEMMA InitMaps == Init => Store!Init
BY SameTypes DEF Init, Store!Init

LEMMA StepMaps == PyInv /\ [Next]_vars => [Store!Next]_(Store!vars)
<1> SUFFICES ASSUME PyInv, [Next]_vars PROVE Store!Next \/ UNCHANGED Store!vars
  OBVIOUS
<1>1. ASSUME NEW c \in Clients, Handle(c)
      PROVE  Store!Next \/ UNCHANGED Store!vars
  <2>1. CASE Fail(c)
    BY <2>1, RefuseMaps DEF Fail, PyInv
  <2> QED BY <1>1, <2>1, SelectMaps, CreateInsertMaps, BulkCreateMaps, UpsertMaps,
             UpdateFlushMaps, DeleteFlushMaps, BulkDeleteMaps, DeleteAllMaps
          DEF Handle
<1>2. CASE UNCHANGED vars
  BY <1>2 DEF vars, Store!vars
<1> QED BY <1>1, <1>2, SubmitMaps, CrashMaps DEF Next

(* Whatever the clients send and however their requests interleave, the    *)
(* Python stack keeps the contract, a bulk delete that fails included: it  *)
(* removes nothing.                                                        *)
THEOREM PythonKeepsContract == Spec => Contract
BY Invariant, InitMaps, StepMaps, PTL DEF Spec, Contract, Store!Spec

-----------------------------------------------------------------------------
(* What becomes of a created_at.                                           *)

(* The step ends an upsert on c that gives user i the created_at it has    *)
(* then.                                                                   *)
GivesAt(c, i) ==
    /\ Serving(c, "Upsert") \/ Serving(c, "BulkUpsert")
    /\ req'[c] = NoRequest
    /\ \E p \in Range(req[c].users) :
        p.id = i /\ (p.at \in Times => users'[i].at = p.at)
    /\ reply'[c].status = 200 =>
        \E u \in Range(reply'[c].users) : u.id = i /\ u.at = users'[i].at

(* A step that changes the created_at of a user that stays is an upsert,   *)
(* and answers it, if it can.                                              *)
LEMMA AtMoves ==
    ASSUME PyInv, NEW e \in Clients, Handle(e),
           NEW i \in Ids, users[i] # NoRow, users'[i] # NoRow,
           users'[i].at # users[i].at
    PROVE  GivesAt(e, i)
<1> USE DEF PyInv
<1>1. users' # users
  OBVIOUS
<1>2. ASSUME NEW S, users' = Removed(users, S) PROVE FALSE
  BY <1>2 DEF Removed
<1>3. ASSUME NEW us \in Seq(User), InsertAll(e, us) PROVE FALSE
  <2>1. InsertOk(users, us) /\ users' = Inserted(users, us)
    BY <1>1, <1>3 DEF InsertAll, Refuse
  <2>2. \A k \in DOMAIN us : us[k].id # i
    BY <2>1 DEF InsertOk
  <2> QED BY <2>1, <2>2, NotWritten DEF TypeOK
<1>4. CASE CreateInsert(e)
  BY <1>3, <1>4, DraftUser DEF CreateInsert
<1>5. CASE BulkCreate(e)
  BY <1>1, <1>3, <1>5, BulkCreateBuilds DEF Refuse
<1>6. CASE Upsert(e) \/ BulkUpsert(e)
  <2>1. PICK us \in Seq(User) : /\ BuildsNamed(e, us)
                                /\ users' = Upserted(us, Len(us))
                                /\ Landed(e, 200, us, 500)
    BY <1>1, <1>6, UpsertBuilds DEF Refuse
  <2> DEFINE W == Writes(us, Len(us), i)
             ps == req[e].users
  <2>2. W # {}
    BY <2>1 DEF Upserted, Written
  <2>3. W \subseteq 1..Len(us) /\ Len(us) \in Nat
    BY DEF Writes
  <2>4. Last(W) \in W
    BY <2>2, <2>3, FirstLastType
  <2>5. users'[i] = RowOf(us[Last(W)])
    BY <2>1, <2>2 DEF Upserted, Written
  <2>6. PICK k \in DOMAIN us : us[k].id = i /\ users'[i] = RowOf(us[k])
    <3>1. Last(W) \in DOMAIN us /\ us[Last(W)].id = i
      BY <2>4 DEF Writes
    <3> HIDE DEF W
    <3> QED BY <2>5, <3>1
  <2>7. us[k] \in Range(us) /\ users'[i].at = us[k].at
    BY <2>6 DEF Range, RowOf
  <2>8. ps[k] \in Range(ps)
    <3>1. ps \in Seq(Param)
      BY <1>6, ServedRequest DEF Upsert, BulkUpsert, Serving
    <3>2. k \in DOMAIN ps
      BY <2>1, <3>1 DEF BuildsNamed, Builds
    <3> QED BY <3>2 DEF Range
  <2>9. ps[k].id = i /\ (ps[k].at \in Times => users'[i].at = ps[k].at)
    BY <2>1, <2>6, <2>7 DEF BuildsNamed
  <2>10. req'[e] = NoRequest
    BY <2>1, LandedEnds DEF Ends, TypeOK
  <2>11. reply'[e].status = 200 => reply'[e].users = us
    BY <2>1 DEF Landed, Answer, TypeOK
  <2> HIDE DEF W
  <2> QED BY <1>6, <2>6, <2>7, <2>8, <2>9, <2>10, <2>11
          DEF GivesAt, Upsert, BulkUpsert
<1>7. CASE UpdateFlush(e)
  <2> DEFINE p == req[e].users[1]
             old == draft[e][1]
             new == NewUser(p.id, p, old.at)
  <2>1. users' = Flushed(old, new)
    BY <1>1, <1>7 DEF UpdateFlush, Refuse
  <2>2. new.id \in Ids
    BY <1>7, FlushedType
  <2> HIDE DEF p, old, new
  <2>3. users'[i].at = users[i].at
    BY <2>1, <2>2 DEF Flushed, TypeOK, Table
  <2> QED BY <2>3
<1> QED BY <1>1, <1>2, <1>4, <1>5, <1>6, <1>7
        DEF Handle, CreateSelect, UpdateSelect, DeleteSelect, DeleteFlush,
            BulkDelete, DeleteAll, Fail, Refuse

(* Only an upsert changes the created_at of a user that stays, and only to *)
(* the one it brings, or answers.                                          *)
THEOREM CreatedAtStays == Spec => CreatedAtFromUpsert
<1>1. PyInv /\ [Next]_vars =>
        [\A i \in Ids :
            /\ users[i] # NoRow
            /\ users'[i] # NoRow
            /\ users'[i].at # users[i].at
            => \E c \in Clients : GivesAt(c, i)
        ]_vars
  <2> SUFFICES ASSUME PyInv, Next, NEW i \in Ids, users[i] # NoRow,
                      users'[i] # NoRow, users'[i].at # users[i].at
               PROVE  \E c \in Clients : GivesAt(c, i)
    OBVIOUS
  <2>1. users' # users
    OBVIOUS
  <2>2. PICK e \in Clients : Handle(e)
    BY <2>1 DEF Next, Submit, Crash
  <2> QED BY <2>2, AtMoves
<1> QED BY <1>1, Invariant, PTL DEF Spec, CreatedAtFromUpsert, GivesAt
=============================================================================
