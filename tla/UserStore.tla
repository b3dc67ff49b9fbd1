------------------------------ MODULE UserStore ------------------------------
(***************************************************************************)
(* The contract of UserService (/proto/user/v1/user.proto) as a client may *)
(* rely on it whatever stack answers: every request that writes takes      *)
(* effect in one step somewhere between its call and its reply, wholly or  *)
(* not at all.  A success tells that it did, a 404, 409 or 422 that it did *)
(* not; a 400 or 500 tells neither, for the database's own answer may have *)
(* been lost after the request took effect.  Three promises that not every *)
(* stack keeps are parameters, so that each stack's model states exactly   *)
(* the contract it implements.                                             *)
(***************************************************************************)
EXTENDS UserRequests

CONSTANTS
    AtomicBulkDelete,  \* a bulk delete answered 404 removes nothing
    DeleteOnce,        \* a delete that succeeds found the user to delete
    WholeUpdate        \* an update answered 200 stored what it answers

VARIABLES users, req, reply

vars == <<users, req, reply>>

Init ==
    /\ users = [i \in Ids |-> NoRow]
    /\ req = [c \in Clients |-> NoRequest]
    /\ reply = [c \in Clients |-> NoReply]

Call(c, r) ==
    /\ req[c] = NoRequest
    /\ req' = [req EXCEPT ![c] = r]
    /\ reply' = [reply EXCEPT ![c] = NoReply]
    /\ UNCHANGED users

Serving(c, ops) == req[c] # NoRequest /\ req[c].op \in ops

Answer(c, st, us) ==
    /\ req' = [req EXCEPT ![c] = NoRequest]
    /\ reply' = [reply EXCEPT ![c] = [status |-> st, users |-> us]]

\* What a client may be told of a request that took effect.
Told(c, st, us) == Answer(c, st, us) \/ \E e \in {400, 500} : Answer(c, e, <<>>)

\* Users made of the well-formed ps, under one of the keys and any time each.
Built(ps, keys) ==
    {[k \in DOMAIN ps |-> NewUser(ids[k], ps[k], ats[k])] :
        ids \in keys, ats \in [DOMAIN ps -> Times]}

-----------------------------------------------------------------------------
(* Effect.                                                                 *)

\* New users under keys and e-mails nobody holds; the reply is what is stored.
Create(c) ==
    /\ Serving(c, {"Create", "BulkCreate"})
    /\ \A p \in Range(req[c].users) : WellFormed(p)
    /\ \E us \in Built(req[c].users, [DOMAIN req[c].users -> Ids]) :
        /\ InsertOk(users, us)
        /\ users' = Inserted(users, us)
        /\ Told(c, 201, us)

\* Every named user gets the e-mail and name of its last mention, and a new one
\* the created_at it brings, if any.  Whether a user that existed keeps its own
\* is the stack's choice.
Upsert(c) ==
    /\ Serving(c, {"Upsert", "BulkUpsert"})
    /\ \A p \in Range(req[c].users) : WellFormed(p) /\ p.id \in Ids
    /\ \E us \in Built(req[c].users, {[k \in DOMAIN req[c].users |-> req[c].users[k].id]}) :
        /\ \A k \in DOMAIN us :
            req[c].users[k].at \in Times => us[k].at = req[c].users[k].at
        /\ users' \in Table
        /\ \A i \in Ids :
            LET W == Writes(us, Len(us), i) IN
            IF W = {} THEN users'[i] = users[i]
            ELSE /\ users'[i] # NoRow
                 /\ users'[i].email = us[Last(W)].email
                 /\ users'[i].name = us[Last(W)].name
                 /\ \/ users[i] # NoRow /\ users'[i].at = users[i].at
                    \/ \E k \in W : users'[i].at = us[k].at
        /\ EmailsUnique(users')
        /\ Told(c, 200, us)

\* A stack that sends only the columns it saw differ: each of them ends up as
\* asked or stays, and nothing is stored of a user deleted meanwhile.
PartlyUpdated(p) ==
    LET i == p.id IN
    IF users[i] = NoRow THEN users'[i] = NoRow
    ELSE /\ users'[i] # NoRow
         /\ users'[i].email \in {users[i].email, p.email.addr}
         /\ users'[i].name \in {users[i].name, p.name}
         /\ users'[i].at = users[i].at

\* An existing user gets a new e-mail and name, nobody else changes; no user
\* comes back to life.
Update(c) ==
    /\ Serving(c, {"Update"})
    /\ WellFormed(req[c].users[1])
    /\ \E at \in Times :
        LET p == req[c].users[1]
            u == NewUser(p.id, p, at) IN
        /\ users' \in Table
        /\ \A j \in Ids \ {p.id} : users'[j] = users[j]
        /\ \/ WholeUpdate /\ users[p.id] # NoRow /\ users'[p.id] = RowOf(u)
           \/ ~WholeUpdate /\ PartlyUpdated(p)
        /\ EmailsUnique(users')
        /\ Told(c, 200, <<u>>)

Delete(c) ==
    /\ Serving(c, {"Delete", "BulkDelete"})
    /\ \/ \A k \in DOMAIN req[c].ids : users[req[c].ids[k]] # NoRow
       \/ ~DeleteOnce /\ Serving(c, {"Delete"})
    /\ users' = Removed(users, Range(req[c].ids))
    /\ \E st \in {201, 204} : Told(c, st, <<>>)

DeleteAll(c) ==
    /\ Serving(c, {"DeleteAll"})
    /\ users' = Removed(users, Ids)
    /\ Told(c, 204, <<>>)

-----------------------------------------------------------------------------
(* Refusal without effect.  A reply of 400, 422 or 500 may be given for    *)
(* any reason; 404 and 409 are given for a reason that holds when the      *)
(* request is refused.                                                     *)

IdMissing(c) ==
    \/ req[c].op = "Update" /\ users[req[c].users[1].id] = NoRow
    \/ \E k \in DOMAIN req[c].ids : users[req[c].ids[k]] = NoRow
    \/ \E j, k \in DOMAIN req[c].ids : j # k /\ req[c].ids[j] = req[c].ids[k]

EmailTaken(c) ==
    \/ \E p \in Range(req[c].users) :
        \E i \in Present(users) : users[i].email = p.email.addr
    \/ \E j, k \in DOMAIN req[c].users :
        j # k /\ req[c].users[j].email.addr = req[c].users[k].email.addr

Refuse(c) ==
    /\ req[c] # NoRequest
    /\ UNCHANGED users
    /\ \/ \E st \in {400, 422, 500} : Answer(c, st, <<>>)
       \/ IdMissing(c) /\ Answer(c, 404, <<>>)
       \/ EmailTaken(c) /\ req[c].op \in {"Create", "BulkCreate"}
          /\ Answer(c, 409, <<>>)

\* Where a bulk delete is not atomic, those of its ids that exist are gone
\* although the client is told 404, which elsewhere means that nothing is.
RefusePartDone(c) ==
    /\ ~AtomicBulkDelete
    /\ Serving(c, {"BulkDelete"})
    /\ IdMissing(c)
    /\ users' = Removed(users, Range(req[c].ids))
    /\ Told(c, 404, <<>>)

\* A client goes away, or a handler dies, before the request took effect.
Abandon(c) ==
    /\ req[c] # NoRequest
    /\ req' = [req EXCEPT ![c] = NoRequest]
    /\ UNCHANGED <<users, reply>>

\* The server process stops: no request in flight is answered any more, and
\* the last answers may never have left it.
Crash ==
    /\ req' = [c \in Clients |-> NoRequest]
    /\ reply' = [c \in Clients |-> NoReply]
    /\ UNCHANGED users

-----------------------------------------------------------------------------
Next ==
    \/ \E c \in Clients :
        \/ \E r \in Requests : Call(c, r)
        \/ Create(c)
        \/ Upsert(c)
        \/ Update(c)
        \/ Delete(c)
        \/ DeleteAll(c)
        \/ Refuse(c)
        \/ RefusePartDone(c)
        \/ Abandon(c)
    \/ Crash

Spec == Init /\ [][Next]_vars
=============================================================================
