----------------------------- MODULE UserServing -----------------------------
(***************************************************************************)
(* What the stacks have in common: requests run concurrently, each on a    *)
(* connection of its own, and share nothing but the table.  A request of   *)
(* two statements keeps the entity it built or read after the first one.   *)
(***************************************************************************)
EXTENDS UserRequests

VARIABLES
    users,      \* the table
    req,        \* req[c]: the request being served on c, or NoRequest
    draft,      \* draft[c]: the entity the handler holds between its two
                \* statements, <<>> otherwise; local to the handler
    reply       \* reply[c]: the last answer given on c

vars == <<users, req, draft, reply>>

Init ==
    /\ users = [i \in Ids |-> NoRow]
    /\ req = [c \in Clients |-> NoRequest]
    /\ draft = [c \in Clients |-> <<>>]
    /\ reply = [c \in Clients |-> NoReply]

\* Keys drawn by a create still in flight: nobody has been told of them.
Secret == UNION {{u.id : u \in Range(draft[c])} :
                    c \in {d \in Clients : req[d].op = "Create"}}

Named(r) == {p.id : p \in Range(r.users)} \cup Range(r.ids)

Submit(c, r) ==
    /\ req[c] = NoRequest
    /\ Named(r) \cap Secret = {}
    /\ req' = [req EXCEPT ![c] = r]
    /\ reply' = [reply EXCEPT ![c] = NoReply]
    /\ UNCHANGED <<users, draft>>

-----------------------------------------------------------------------------
(* Shared by the handlers.                                                 *)

Serving(c, op) == req[c] # NoRequest /\ req[c].op = op

Answer(c, st, us) ==
    /\ req' = [req EXCEPT ![c] = NoRequest]
    /\ draft' = [draft EXCEPT ![c] = <<>>]
    /\ reply' = [reply EXCEPT ![c] = [status |-> st, users |-> us]]

Refuse(c, st) == Answer(c, st, <<>>) /\ UNCHANGED users

\* What ends a request whose statement, or whose COMMIT, took effect: the
\* answer, or, where the connection to the database failed before it confirmed
\* that, the status the stack gives an error it does not know.
Landed(c, st, us, lost) == Answer(c, st, us) \/ Answer(c, lost, <<>>)

\* uuid.NewString never repeats itself.  A key that no row and no request in
\* flight mentions stands for a new one.
Mentioned == Secret \cup UNION {Named(req[c]) : c \in Clients}

Fresh == Ids \ (Present(users) \cup Mentioned)

FreshKeys(n) == {f \in [1..n -> Fresh] : IsInjective(f)}

(* The process stops and is started again; the table stays.                *)
Crash ==
    /\ req' = [c \in Clients |-> NoRequest]
    /\ draft' = [c \in Clients |-> <<>>]
    /\ reply' = [c \in Clients |-> NoReply]
    /\ UNCHANGED users

-----------------------------------------------------------------------------
TypeOK ==
    /\ users \in Table
    /\ req \in [Clients -> Requests \cup {NoRequest}]
    /\ draft \in [Clients -> Seq(User)]
    /\ reply \in [Clients -> Replies]

\* No two users hold the same e-mail, whichever requests raced: the look-up a
\* create makes is stale by the time it inserts (user_service.go:48-65).
UniqueEmails == EmailsUnique(users)

\* Where a handler keeps the user it will write across its two statements (Go,
\* TypeScript), that user still belongs to the request it answers: one
\* well-formed user, of the e-mail and name asked for and, in an update, under
\* the key asked for.
DraftsOK ==
    \A c \in Clients : draft[c] # <<>> =>
        /\ Serving(c, "Create") \/ Serving(c, "Update")
        /\ Len(draft[c]) = 1
        /\ LET p == req[c].users[1]
               u == draft[c][1] IN
           /\ WellFormed(p)
           /\ u = NewUser(u.id, p, u.at)
           /\ Serving(c, "Update") => u.id = p.id

\* The key of a user about to be inserted is its own: it is neither in the
\* table nor in any other request, so only its e-mail can be refused (409).
KeysApart ==
    \A c \in Clients : Serving(c, "Create") /\ draft[c] # <<>> =>
        /\ draft[c][1].id \notin Present(users)
        /\ \A d \in Clients \ {c} :
            /\ draft[c][1].id \notin Named(req[d])
            /\ draft[d] # <<>> => draft[d][1].id # draft[c][1].id

\* The inductive invariant of those stacks.
Inv == TypeOK /\ UniqueEmails /\ DraftsOK /\ KeysApart

\* A request refused for a reason of its own (not found, taken, malformed: 404,
\* 409, 422) leaves the table as it was.  A 400 or a 500 may also stand for an
\* error on the way back from the database and is left out.
RefusedChangesNothing ==
    [][\A c \in Clients :
        reply'[c].status \in {404, 409, 422} /\ req'[c] # req[c]
            => UNCHANGED users]_vars
=============================================================================
