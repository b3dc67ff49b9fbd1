---------------------------- MODULE UserApiPython ----------------------------
(***************************************************************************)
(* The writing requests of the Python stack (manji-standard-server-python):*)
(* FastAPI handler -> UserUsecase -> UserService ->                        *)
(* PostgresUserRepository.  Each usecase method runs in one tx.run, a      *)
(* session and transaction of its own at READ COMMITTED, committed before  *)
(* the reply and rolled back by any exception.  A handler is a plain       *)
(* function run in the thread pool, so a client that goes away does not    *)
(* stop it.  A request that reads before it writes is two steps; the write *)
(* and the commit are one, for no other request sees what is not committed *)
(* and one that would collide with it waits.                               *)
(***************************************************************************)
EXTENDS UserServing, FiniteSets

-----------------------------------------------------------------------------
(* POST /api/users: select_by_email, then INSERT by flush.  The look-up    *)
(* uses the e-mail as received; only User.new strips it.                   *)

CreateSelect(c) ==
    /\ Serving(c, "Create") /\ draft[c] = <<>>
    /\ LET p == req[c].users[1]
           found == SelectByEmail(users, p.email) # {} IN
       \/ found /\ Refuse(c, 409)
       \/ ~found /\ ~WellFormed(p) /\ Refuse(c, 400)
       \/ /\ ~found /\ WellFormed(p)
          /\ \E i \in Fresh, now \in Times :
                draft' = [draft EXCEPT ![c] = <<NewUser(i, p, now)>>]
          /\ UNCHANGED <<users, req, reply>>

\* Stores us, all or nothing; IntegrityError becomes 409.
InsertAll(c, us) ==
    \/ /\ InsertOk(users, us)
       /\ users' = Inserted(users, us)
       /\ Landed(c, 201, us, 500)
    \/ ~InsertOk(users, us) /\ Refuse(c, 409)

CreateInsert(c) ==
    Serving(c, "Create") /\ draft[c] # <<>> /\ InsertAll(c, draft[c])

\* POST /api/users/bulk: no look-up; the clock is read once per user.
BulkCreate(c) ==
    /\ Serving(c, "BulkCreate")
    /\ LET ps == req[c].users IN
       \/ (\E p \in Range(ps) : ~WellFormed(p)) /\ Refuse(c, 400)
       \/ /\ \A p \in Range(ps) : WellFormed(p)
          /\ \E ids \in FreshKeys(Len(ps)), now \in [1..Len(ps) -> Times] :
                InsertAll(c, [k \in 1..Len(ps) |-> NewUser(ids[k], ps[k], now[k])])

-----------------------------------------------------------------------------
(* PUT /api/users/{id} and /api/users/bulk: one INSERT ... ON CONFLICT     *)
(* (id) DO UPDATE of every other column.  A user named twice, or a clash   *)
(* of e-mails, aborts the statement, and no handler catches that (500).    *)

Upserted(us, n) == Written(users, us, n)

UpsertOk(us) ==
    /\ DistinctIds(us)
    /\ \A n \in DOMAIN us : EmailsUnique(Upserted(us, n))

\* Pydantic wants a created_at_unix of every user (422).
UpsertAll(c) ==
    LET ps == req[c].users IN
    \/ (\E p \in Range(ps) : p.at = NoTime) /\ Refuse(c, 422)
    \/ /\ \A p \in Range(ps) : p.at # NoTime
       /\ \E p \in Range(ps) : ~WellFormed(p) \/ p.id \notin Ids
       /\ Refuse(c, 400)
    \/ /\ \A p \in Range(ps) : p.at # NoTime /\ WellFormed(p) /\ p.id \in Ids
       /\ \E now \in [1..Len(ps) -> Times] :
          LET us == [k \in 1..Len(ps) |->
                        NewUser(ps[k].id, ps[k], AtOr(ps[k], now[k]))] IN
          \/ /\ UpsertOk(us)
             /\ users' = Upserted(us, Len(us))
             /\ Landed(c, 200, us, 500)
          \/ ~UpsertOk(us) /\ Refuse(c, 500)

Upsert(c)     == Serving(c, "Upsert") /\ UpsertAll(c)
BulkUpsert(c) == Serving(c, "BulkUpsert") /\ UpsertAll(c)

-----------------------------------------------------------------------------
(* PATCH and DELETE /api/users/{id}: the row is read into the session,     *)
(* then changed there and flushed.  draft[c] is the entity as it was read. *)

Held(i) == [id |-> i, email |-> users[i].email,
            name |-> users[i].name, at |-> users[i].at]

UpdateSelect(c) ==
    /\ Serving(c, "Update") /\ draft[c] = <<>>
    /\ LET p == req[c].users[1] IN
       \/ users[p.id] = NoRow /\ Refuse(c, 404)
       \/ users[p.id] # NoRow /\ ~WellFormed(p) /\ Refuse(c, 400)
       \/ /\ users[p.id] # NoRow /\ WellFormed(p)
          /\ draft' = [draft EXCEPT ![c] = <<Held(p.id)>>]
          /\ UNCHANGED <<users, req, reply>>

\* Mutant of Flushed: the whole row is written, as it was read but for the
\* change.
FlushedWhole(old, new) == [users EXCEPT ![new.id] = RowOf(new)]

\* The UPDATE names the columns that differ from what was read.
Flushed(old, new) ==
    [users EXCEPT ![new.id] =
        [email |-> IF new.email # old.email THEN new.email ELSE @.email,
         name  |-> IF new.name # old.name THEN new.name ELSE @.name,
         at    |-> @.at]]

\* Nothing differs: no statement is sent, whatever became of the row.
\* StaleDataError (0 rows matched) and IntegrityError are not caught (500).
UpdateFlush(c) ==
    /\ Serving(c, "Update") /\ draft[c] # <<>>
    /\ LET p == req[c].users[1]
           old == draft[c][1]
           new == NewUser(p.id, p, old.at) IN
       \/ new = old /\ UNCHANGED users /\ Answer(c, 200, <<new>>)
       \/ new # old /\ users[p.id] = NoRow /\ Refuse(c, 500)
       \/ /\ new # old /\ users[p.id] # NoRow
          /\ \/ /\ EmailsUnique(Flushed(old, new))
                /\ users' = Flushed(old, new)
                /\ Landed(c, 200, <<new>>, 500)
             \/ ~EmailsUnique(Flushed(old, new)) /\ Refuse(c, 500)

DeleteSelect(c) ==
    /\ Serving(c, "Delete") /\ draft[c] = <<>>
    /\ LET i == req[c].ids[1] IN
       \/ users[i] = NoRow /\ Refuse(c, 404)
       \/ /\ users[i] # NoRow
          /\ draft' = [draft EXCEPT ![c] = <<Held(i)>>]
          /\ UNCHANGED <<users, req, reply>>

\* That no row is left to delete is only logged.
DeleteFlush(c) ==
    /\ Serving(c, "Delete") /\ draft[c] # <<>>
    /\ users' = Removed(users, {draft[c][1].id})
    /\ Landed(c, 204, <<>>, 500)

-----------------------------------------------------------------------------
(* POST /api/users/bulk-delete and DELETE /api/users.                      *)

\* A row too few raises UserNotFoundError, and tx.run rolls back.
BulkDelete(c) ==
    /\ Serving(c, "BulkDelete")
    /\ LET ids == req[c].ids
           all == Cardinality(Range(ids) \cap Present(users)) = Len(ids) IN
       \/ all /\ users' = Removed(users, Range(ids)) /\ Landed(c, 201, <<>>, 500)
       \/ ~all /\ Refuse(c, 404)

DeleteAll(c) ==
    /\ Serving(c, "DeleteAll")
    /\ users' = Removed(users, Ids)
    /\ Landed(c, 204, <<>>, 500)

-----------------------------------------------------------------------------
(* A body Pydantic refuses is answered 422, a ValueError 400, and any      *)
(* other exception, such as a connection or deadlock error, 500.  A commit *)
(* that raises although it took effect is Landed.                          *)
Fail(c) == req[c] # NoRequest /\ \E st \in {400, 422, 500} : Refuse(c, st)

Handle(c) ==
    \/ CreateSelect(c)
    \/ CreateInsert(c)
    \/ BulkCreate(c)
    \/ Upsert(c)
    \/ BulkUpsert(c)
    \/ UpdateSelect(c)
    \/ UpdateFlush(c)
    \/ DeleteSelect(c)
    \/ DeleteFlush(c)
    \/ BulkDelete(c)
    \/ DeleteAll(c)
    \/ Fail(c)

Next ==
    \/ \E c \in Clients : (\E r \in Requests : Submit(c, r)) \/ Handle(c)
    \/ Crash

Spec == Init /\ [][Next]_vars

-----------------------------------------------------------------------------
\* What a session holds is the entity its request is about.
SessionOK ==
    \A c \in Clients : draft[c] # <<>> =>
        /\ Len(draft[c]) = 1
        /\ LET u == draft[c][1] IN
           \/ /\ Serving(c, "Create")
              /\ u = NewUser(u.id, req[c].users[1], u.at)
           \/ /\ Serving(c, "Update")
              /\ WellFormed(req[c].users[1])
              /\ u.id = req[c].users[1].id
           \/ Serving(c, "Delete") /\ u.id = req[c].ids[1]

\* No two users hold the same e-mail, sessions are sane, and the key a create
\* is about to insert is its own, so that a 409 is about an e-mail.
PyInv == TypeOK /\ UniqueEmails /\ SessionOK /\ KeysApart

\* The requests of the Python stack keep the contract of UserStore, a bulk
\* delete included, but an update answered 200 may have stored less than it
\* answers, and a delete answered 204 may have found nothing to delete.
Store == INSTANCE UserStore
            WITH AtomicBulkDelete <- TRUE, DeleteOnce <- FALSE, WholeUpdate <- FALSE
Contract == Store!Spec

\* The created_at of a user that stays is changed by an upsert of that user
\* only, to the one it brings, if any, and to the one it answers, if it can: a
\* PATCH leaves it alone (user_service.py:64), even where an upsert replaced it
\* after the PATCH had read the user.
CreatedAtFromUpsert ==
    [][\A i \in Ids :
        /\ users[i] # NoRow
        /\ users'[i] # NoRow
        /\ users'[i].at # users[i].at
        => \E c \in Clients :
            /\ Serving(c, "Upsert") \/ Serving(c, "BulkUpsert")
            /\ req'[c] = NoRequest
            /\ \E p \in Range(req[c].users) :
                p.id = i /\ (p.at \in Times => users'[i].at = p.at)
            /\ reply'[c].status = 200 =>
                \E u \in Range(reply'[c].users) : u.id = i /\ u.at = users'[i].at
      ]_vars
=============================================================================
