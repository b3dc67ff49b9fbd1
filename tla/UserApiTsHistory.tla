-------------------------- MODULE UserApiTsHistory --------------------------
(***************************************************************************)
(* UserApiTs with a history variable: the users upserted or deleted under  *)
(* an update that had read them.  The variable only watches, it restricts  *)
(* nothing.                                                                *)
(***************************************************************************)
EXTENDS UserApiTs

VARIABLE overtaken  \* ids some update in flight read, or another one with it,
                    \* that were upserted or without a row since

hvars == <<vars, overtaken>>

\* An update on c has read user i and not written it yet.
Updating(c, i) == Serving(c, "Update") /\ draft[c] # <<>> /\ draft[c][1].id = i

\* This step ends an upsert of user i on c, on its own or in a list.
EndsUpsert(c, i) ==
    /\ Serving(c, "Upsert") \/ Serving(c, "BulkUpsert")
    /\ req'[c] = NoRequest
    /\ \E p \in Range(req[c].users) : p.id = i

\* An upsert took effect on user i, whatever its client is told.
Upserting(i) == users'[i] # users[i] /\ \E c \in Clients : EndsUpsert(c, i)

HInit == Init /\ overtaken = {}

Watch ==
    overtaken' = {i \in Ids : /\ \E c \in Clients : Updating(c, i)'
                              /\ i \in overtaken \/ Upserting(i) \/ users'[i] = NoRow}

HNext == Next /\ Watch

HSpec == HInit /\ [][HNext]_hvars

\* The created_at of a user that stays changes in two ways only: by an upsert,
\* to the one it brings, if any, and to the one it answers, if it can
\* (user-postgres-repository.gen.ts:74-93), or by a PATCH that was overtaken by
\* an upsert, or by a delete and re-creation, between its two statements and
\* brings back what it had read (:97).  A PATCH that nobody overtook leaves it
\* alone, although it writes the whole row.
CreatedAtTraced ==
    [][\A i \in Ids :
        /\ users[i] # NoRow
        /\ users'[i] # NoRow
        /\ users'[i].at # users[i].at
        => \/ \E c \in Clients :
                /\ EndsUpsert(c, i)
                /\ \E p \in Range(req[c].users) :
                    p.id = i /\ (p.at \in Times => users'[i].at = p.at)
                /\ reply'[c].status = 200 =>
                    \E u \in Range(reply'[c].users) : u.id = i /\ u.at = users'[i].at
           \/ /\ i \in overtaken
              /\ \E c \in Clients :
                    /\ Updating(c, i) /\ req'[c] = NoRequest
                    /\ users'[i].at = draft[c][1].at
      ]_hvars
=============================================================================
