------------------------------ MODULE UserApiGo ------------------------------
(***************************************************************************)
(* The writing requests of the Go stack (manji-standard-server-go): HTTP   *)
(* handler -> UserUsecaseImpl -> UserService -> postgresUserRepository.    *)
(* Requests run concurrently, one goroutine each.  No usecase method opens *)
(* a transaction (tx.Run), so every repository call is a transaction of    *)
(* its own on the default pool: a request is as many steps as it sends     *)
(* statements, and anything may happen between them.                       *)
(***************************************************************************)
EXTENDS UserServing, FiniteSets

CONSTANT BatchSize      \* rows per INSERT of CreateInBatches (100 in the code)

ASSUME BatchAssumption == BatchSize \in Nat \ {0}

-----------------------------------------------------------------------------
(* POST /api/users: SelectByEmail, then Insert.  The look-up uses the      *)
(* e-mail as received; only NewUser trims it.                              *)

CreateSelect(c) ==
    /\ Serving(c, "Create") /\ draft[c] = <<>>
    /\ LET p == req[c].users[1] IN
       \/ /\ SelectByEmail(users, p.email) # {}     \* ErrEmailAlreadyTaken
          /\ Refuse(c, 400)
       \/ /\ SelectByEmail(users, p.email) = {}
          /\ ~WellFormed(p)
          /\ Refuse(c, 400)
       \/ /\ SelectByEmail(users, p.email) = {}
          /\ WellFormed(p)
          /\ \E i \in Fresh, now \in Times :
                draft' = [draft EXCEPT ![c] = <<NewUser(i, p, now)>>]
          /\ UNCHANGED <<users, req, reply>>

CreateInsert(c) ==
    /\ Serving(c, "Create") /\ draft[c] # <<>>
    /\ \/ /\ InsertOk(users, draft[c])
          /\ users' = Inserted(users, draft[c])
          /\ Landed(c, 201, draft[c], 400)
       \/ /\ ~InsertOk(users, draft[c])             \* ErrUserAlreadyExists
          /\ Refuse(c, 409)

(* POST /api/users/bulk: no look-up, one (batched) INSERT.                 *)
BulkCreate(c) ==
    /\ Serving(c, "BulkCreate")
    /\ LET ps == req[c].users IN
       \/ (\E p \in Range(ps) : ~WellFormed(p)) /\ Refuse(c, 400)
       \/ /\ \A p \in Range(ps) : WellFormed(p)
          /\ \E ids \in FreshKeys(Len(ps)), now \in Times :
             LET us == [k \in 1..Len(ps) |-> NewUser(ids[k], ps[k], now)] IN
             \/ /\ InsertOk(users, us)
                /\ users' = Inserted(users, us)
                /\ Landed(c, 201, us, 400)
             \/ ~InsertOk(users, us) /\ Refuse(c, 409)

-----------------------------------------------------------------------------
(* PUT /api/users/{id} and /api/users/bulk.  INSERT ... ON CONFLICT (id)   *)
(* DO UPDATE of every column but created_at: GORM's UpdateAll leaves out a *)
(* field it fills in by itself on creation.  One statement cannot touch a  *)
(* row twice, and a clash of e-mails aborts it.                            *)

\* Mutant of Upserted: every column is overwritten.
UpsertedWhole(us, n) == Written(users, us, n)

Upserted(us, n) ==
    [i \in Ids |->
        IF Writes(us, n, i) = {} THEN users[i]
        ELSE [RowOf(us[Last(Writes(us, n, i))]) EXCEPT
                !.at = IF users[i] # NoRow THEN users[i].at
                       ELSE us[First(Writes(us, n, i))].at]]

Batch(k) == (k - 1) \div BatchSize

\* Mutant of UpsertOk: e-mails are left to the look-up of create.
UpsertOkByKey(us) ==
    \A j, k \in DOMAIN us :
        us[j].id = us[k].id /\ Batch(j) = Batch(k) => j = k

UpsertOk(us) ==
    /\ \A j, k \in DOMAIN us :
        us[j].id = us[k].id /\ Batch(j) = Batch(k) => j = k
    /\ \A n \in DOMAIN us : EmailsUnique(Upserted(us, n))

\* clock() is read once per user that brings no created_at.
UpsertAll(c) ==
    LET ps == req[c].users IN
    \/ /\ \E p \in Range(ps) : ~WellFormed(p) \/ p.id \notin Ids
       /\ Refuse(c, 400)
    \/ /\ \A p \in Range(ps) : WellFormed(p) /\ p.id \in Ids
       /\ \E now \in [1..Len(ps) -> Times] :
          LET us == [k \in 1..Len(ps) |->
                        NewUser(ps[k].id, ps[k], AtOr(ps[k], now[k]))] IN
          \/ /\ UpsertOk(us)
             /\ users' = Upserted(us, Len(us))
             /\ Landed(c, 200, us, 400)
          \/ ~UpsertOk(us) /\ Refuse(c, 400)

Upsert(c)     == Serving(c, "Upsert") /\ UpsertAll(c)
BulkUpsert(c) == Serving(c, "BulkUpsert") /\ UpsertAll(c)

-----------------------------------------------------------------------------
(* PATCH /api/users/{id}: SelectByPK, then UPDATE with the created_at that *)
(* was read.                                                               *)

UpdateSelect(c) ==
    /\ Serving(c, "Update") /\ draft[c] = <<>>
    /\ LET p == req[c].users[1] IN
       \/ users[p.id] = NoRow /\ Refuse(c, 404)
       \/ users[p.id] # NoRow /\ ~WellFormed(p) /\ Refuse(c, 400)
       \/ /\ users[p.id] # NoRow /\ WellFormed(p)
          /\ draft' = [draft EXCEPT ![c] =
                           <<NewUser(p.id, p, users[p.id].at)>>]
          /\ UNCHANGED <<users, req, reply>>

\* Mutant of UpdateWrite: the row is saved, RowsAffected is not looked at.
UpdateSave(c) ==
    /\ Serving(c, "Update") /\ draft[c] # <<>>
    /\ LET u == draft[c][1]
           after == [users EXCEPT ![u.id] = RowOf(u)] IN
       \/ ~EmailsUnique(after) /\ Refuse(c, 400)
       \/ EmailsUnique(after) /\ users' = after /\ Landed(c, 200, draft[c], 400)

UpdateWrite(c) ==
    /\ Serving(c, "Update") /\ draft[c] # <<>>
    /\ LET u == draft[c][1]
           after == [users EXCEPT ![u.id] = RowOf(u)] IN
       \/ users[u.id] = NoRow /\ Refuse(c, 404)     \* RowsAffected = 0
       \/ users[u.id] # NoRow /\ ~EmailsUnique(after) /\ Refuse(c, 400)
       \/ /\ users[u.id] # NoRow /\ EmailsUnique(after)
          /\ users' = after
          /\ Landed(c, 200, draft[c], 400)

-----------------------------------------------------------------------------
(* DELETE /api/users/{id}, POST /api/users/bulk-delete, DELETE /api/users. *)

Delete(c) ==
    /\ Serving(c, "Delete")
    /\ LET i == req[c].ids[1] IN
       \/ users[i] = NoRow /\ Refuse(c, 404)
       \/ /\ users[i] # NoRow
          /\ users' = Removed(users, {i})
          /\ Landed(c, 204, <<>>, 400)

\* One DELETE, then RowsAffected is compared with the number of ids asked
\* for.  The DELETE has committed by then.  Where its answer is lost the count
\* is too.
BulkDelete(c) ==
    /\ Serving(c, "BulkDelete")
    /\ LET ids == req[c].ids IN
       /\ users' = Removed(users, Range(ids))
       /\ \/ /\ Cardinality(Range(ids) \cap Present(users)) = Len(ids)
             /\ Landed(c, 204, <<>>, 400)
          \/ /\ Cardinality(Range(ids) \cap Present(users)) # Len(ids)
             /\ Landed(c, 404, <<>>, 400)

DeleteAll(c) ==
    /\ Serving(c, "DeleteAll")
    /\ users' = Removed(users, Ids)
    /\ Landed(c, 204, <<>>, 400)

-----------------------------------------------------------------------------
(* A body that does not decode, or a statement that took no effect for any *)
(* other reason, is answered 400.  One that took effect although its       *)
(* answer was lost is Landed.                                              *)
Fail(c) == req[c] # NoRequest /\ Refuse(c, 400)

(* The client goes away and the request's context is cancelled, or the     *)
(* handler panics (a null among the users of a bulk request): net/http     *)
(* drops the connection between two statements, and nobody is answered.  A *)
(* context cancelled during a statement that still took effect ends as one *)
(* whose answer was lost.                                                  *)
Abandon(c) ==
    /\ req[c] # NoRequest
    /\ req' = [req EXCEPT ![c] = NoRequest]
    /\ draft' = [draft EXCEPT ![c] = <<>>]
    /\ UNCHANGED <<users, reply>>

Handle(c) ==
    \/ CreateSelect(c)
    \/ CreateInsert(c)
    \/ BulkCreate(c)
    \/ Upsert(c)
    \/ BulkUpsert(c)
    \/ UpdateSelect(c)
    \/ UpdateWrite(c)
    \/ Delete(c)
    \/ BulkDelete(c)
    \/ DeleteAll(c)
    \/ Fail(c)
    \/ Abandon(c)

Next ==
    \/ \E c \in Clients : (\E r \in Requests : Submit(c, r)) \/ Handle(c)
    \/ Crash

Spec == Init /\ [][Next]_vars

-----------------------------------------------------------------------------
\* The requests of the Go stack keep the contract of UserStore but for the
\* atomicity of a bulk delete: each takes effect in one step, a create or
\* update judged by its second statement and not by what its first one read,
\* whatever its client is told when the database's answer is lost.
Store == INSTANCE UserStore
            WITH AtomicBulkDelete <- FALSE, DeleteOnce <- TRUE, WholeUpdate <- TRUE
Contract == Store!Spec
=============================================================================
