-------------------------- MODULE UserApiGoHistory --------------------------
(***************************************************************************)
(* UserApiGo with a history variable: the users deleted under an update    *)
(* that had read them.  The variable only watches, it restricts nothing.   *)
(***************************************************************************)
EXTENDS UserApiGo

VARIABLE raced  \* ids some update in flight read, or another one with it,
                \* that were without a row since

hvars == <<vars, raced>>

\* An update on c has read user i and not written it yet.
Updating(c, i) == Serving(c, "Update") /\ draft[c] # <<>> /\ draft[c][1].id = i

HInit == Init /\ raced = {}

Watch ==
    raced' = {i \in Ids : /\ \E c \in Clients : Updating(c, i)'
                          /\ i \in raced \/ users'[i] = NoRow}

HNext == Next /\ Watch

HSpec == HInit /\ [][HNext]_hvars

\* Once stored, a created_at is never replaced: not by a PUT that carries
\* another one (user_service.go:92), nor by a PATCH that writes back the one
\* it read (user_service.go:130-146).  The exception the code leaves open: the
\* user is deleted and put back while a PATCH on it is in flight, which then
\* brings back the created_at of the deleted user.
CreatedAtKept ==
    [][\A i \in Ids :
        /\ users[i] # NoRow
        /\ users'[i] # NoRow
        /\ users'[i].at # users[i].at
        => /\ i \in raced
           /\ \E c \in Clients :
                /\ Updating(c, i) /\ req'[c] = NoRequest
                /\ users'[i].at = draft[c][1].at
      ]_hvars
=============================================================================
