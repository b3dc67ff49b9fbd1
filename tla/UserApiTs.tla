------------------------------ MODULE UserApiTs ------------------------------
(***************************************************************************)
(* The writing requests of the two TypeScript stacks                       *)
(* (manji-standard-server-ts-hono, -ts-next): route -> UserUsecaseImpl ->  *)
(* UserService -> PostgresUserRepository.  The stacks share all but their  *)
(* routes, and those differ only in what a bulk delete that misses an id   *)
(* is answered.  Requests interleave at every await.  Each repository call *)
(* is a transaction of its own (db.transaction, or a single statement on   *)
(* the pool); a bulk call commits as one step, for it holds the rows it    *)
(* wrote and nobody sees them before.                                      *)
(***************************************************************************)
EXTENDS UserServing, FiniteSets

CONSTANT MissStatus     \* how a bulk delete that misses an id is answered:
                        \* {404} by Hono, {400} by Next.js

ASSUME MissAssumption == MissStatus \subseteq {400, 404}

-----------------------------------------------------------------------------
(* POST /api/users: selectByEmail, then insert.  The look-up uses the      *)
(* e-mail as received; only User.create trims it.                          *)

CreateSelect(c) ==
    /\ Serving(c, "Create") /\ draft[c] = <<>>
    /\ LET p == req[c].users[1]
           found == SelectByEmail(users, p.email) # {} IN
       \/ /\ found \/ ~WellFormed(p)                \* EmailAlreadyTakenError
          /\ Refuse(c, 400)
       \/ /\ ~found /\ WellFormed(p)
          /\ \E i \in Fresh, now \in Times :
                draft' = [draft EXCEPT ![c] = <<NewUser(i, p, now)>>]
          /\ UNCHANGED <<users, req, reply>>

\* 23505 becomes UserAlreadyExistsError.
InsertAll(c, us) ==
    \/ /\ InsertOk(users, us)
       /\ users' = Inserted(users, us)
       /\ Landed(c, 201, us, 400)
    \/ ~InsertOk(users, us) /\ Refuse(c, 409)

CreateInsert(c) ==
    Serving(c, "Create") /\ draft[c] # <<>> /\ InsertAll(c, draft[c])

\* POST /api/users/bulk: no look-up, one time for all.
BulkCreate(c) ==
    /\ Serving(c, "BulkCreate")
    /\ LET ps == req[c].users IN
       \/ (\E p \in Range(ps) : ~WellFormed(p)) /\ Refuse(c, 400)
       \/ /\ \A p \in Range(ps) : WellFormed(p)
          /\ \E ids \in FreshKeys(Len(ps)), now \in Times :
                InsertAll(c, [k \in 1..Len(ps) |-> NewUser(ids[k], ps[k], now)])

-----------------------------------------------------------------------------
(* PUT /api/users/{id} and /api/users/bulk: INSERT ... ON CONFLICT (id) DO *)
(* UPDATE of the whole row, one statement per user.  A user may be named   *)
(* twice; an e-mail must be free when its statement runs.                  *)

Upserted(us, n) == Written(users, us, n)

\* Mutant of UpsertOk: e-mails are left to the look-up of create.
UpsertOkAlways(us) == TRUE

UpsertOk(us) == \A n \in DOMAIN us : EmailsUnique(Upserted(us, n))

UpsertAll(c, ps, now) ==
    LET us == [k \in 1..Len(ps) |-> NewUser(ps[k].id, ps[k], AtOr(ps[k], now))] IN
    \/ UpsertOk(us) /\ users' = Upserted(us, Len(us)) /\ Landed(c, 200, us, 400)
    \/ ~UpsertOk(us) /\ Refuse(c, 400)

Acceptable(p) == WellFormed(p) /\ p.id \in Ids

Upsert(c) ==
    /\ Serving(c, "Upsert")
    /\ LET ps == req[c].users IN
       \/ ~Acceptable(ps[1]) /\ Refuse(c, 400)
       \/ Acceptable(ps[1]) /\ \E now \in Times : UpsertAll(c, ps, now)

\* The route of a single upsert reads a created_at_unix left out as 0; in a
\* list nobody does, and the Date made of it cannot be written.
BulkUpsert(c) ==
    /\ Serving(c, "BulkUpsert")
    /\ LET ps == req[c].users
           writable == \A p \in Range(ps) : Acceptable(p) /\ p.at # NoTime IN
       \/ ~writable /\ Refuse(c, 400)
       \/ writable /\ \E now \in Times : UpsertAll(c, ps, now)

-----------------------------------------------------------------------------
(* PATCH /api/users/{id}: selectByPk, then UPDATE of the whole row, with   *)
(* the createdAt that was read.                                            *)

\* Mutant of UpdateSelect: the user is built anew, with the time of the call.
UpdateSelectNow(c) ==
    /\ Serving(c, "Update") /\ draft[c] = <<>>
    /\ LET p == req[c].users[1] IN
       \/ users[p.id] = NoRow /\ Refuse(c, 404)
       \/ users[p.id] # NoRow /\ ~WellFormed(p) /\ Refuse(c, 400)
       \/ /\ users[p.id] # NoRow /\ WellFormed(p)
          /\ \E now \in Times : draft' = [draft EXCEPT ![c] = <<NewUser(p.id, p, now)>>]
          /\ UNCHANGED <<users, req, reply>>

UpdateSelect(c) ==
    /\ Serving(c, "Update") /\ draft[c] = <<>>
    /\ LET p == req[c].users[1] IN
       \/ users[p.id] = NoRow /\ Refuse(c, 404)
       \/ users[p.id] # NoRow /\ ~WellFormed(p) /\ Refuse(c, 400)
       \/ /\ users[p.id] # NoRow /\ WellFormed(p)
          /\ draft' = [draft EXCEPT ![c] =
                           <<NewUser(p.id, p, users[p.id].at)>>]
          /\ UNCHANGED <<users, req, reply>>

\* Mutant of UpdateWrite: the row is saved, rowCount is not looked at.
UpdateSave(c) ==
    /\ Serving(c, "Update") /\ draft[c] # <<>>
    /\ LET u == draft[c][1]
           after == [users EXCEPT ![u.id] = RowOf(u)] IN
       \/ ~EmailsUnique(after) /\ Refuse(c, 400)
       \/ EmailsUnique(after) /\ users' = after /\ Landed(c, 200, draft[c], 400)

UpdateWrite(c) ==
    /\ Serving(c, "Update") /\ draft[c] # <<>>
    /\ LET u == draft[c][1]
           after == [users EXCEPT ![u.id] = RowOf(u)] IN
       \/ users[u.id] = NoRow /\ Refuse(c, 404)     \* rowCount = 0
       \/ users[u.id] # NoRow /\ ~EmailsUnique(after) /\ Refuse(c, 400)
       \/ /\ users[u.id] # NoRow /\ EmailsUnique(after)
          /\ users' = after
          /\ Landed(c, 200, draft[c], 400)

-----------------------------------------------------------------------------
(* DELETE /api/users/{id}, POST /api/users/bulk-delete, DELETE /api/users. *)

Delete(c) ==
    /\ Serving(c, "Delete")
    /\ LET i == req[c].ids[1] IN
       \/ users[i] = NoRow /\ Refuse(c, 404)
       \/ /\ users[i] # NoRow
          /\ users' = Removed(users, {i})
          /\ Landed(c, 204, <<>>, 400)

\* rowCount is compared inside the transaction; what is thrown rolls it back.
BulkDelete(c) ==
    /\ Serving(c, "BulkDelete")
    /\ LET ids == req[c].ids
           all == Cardinality(Range(ids) \cap Present(users)) = Len(ids) IN
       \/ all /\ users' = Removed(users, Range(ids)) /\ Landed(c, 204, <<>>, 400)
       \/ ~all /\ \E st \in MissStatus : Refuse(c, st)

DeleteAll(c) ==
    /\ Serving(c, "DeleteAll")
    /\ users' = Removed(users, Ids)
    /\ Landed(c, 204, <<>>, 400)

-----------------------------------------------------------------------------
(* Anything else that is thrown, a deadlock of two bulk upserts included,  *)
(* is answered 400.  A transaction that rejects although it committed is   *)
(* Landed.  A client that goes away stops nothing.                         *)
Fail(c) == req[c] # NoRequest /\ Refuse(c, 400)

Handle(c) ==
    \/ CreateSelect(c)
    \/ CreateInsert(c)
    \/ BulkCreate(c)
    \/ Upsert(c)
    \/ BulkUpsert(c)
    \/ UpdateSelect(c)
    \/ UpdateWrite(c)
    \/ Delete(c)
    \/ BulkDelete(c)
    \/ DeleteAll(c)
    \/ Fail(c)

Next ==
    \/ \E c \in Clients : (\E r \in Requests : Submit(c, r)) \/ Handle(c)
    \/ Crash

Spec == Init /\ [][Next]_vars

-----------------------------------------------------------------------------
\* The requests of the TypeScript stacks keep the contract of UserStore with
\* all its promises: each takes effect in one step, wholly or not at all.
Store == INSTANCE UserStore
            WITH AtomicBulkDelete <- TRUE, DeleteOnce <- TRUE, WholeUpdate <- TRUE
Contract == Store!Spec
=============================================================================
