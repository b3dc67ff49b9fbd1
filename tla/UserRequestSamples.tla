------------------------- MODULE UserRequestSamples -------------------------
(***************************************************************************)
(* Samples of the requests of UserRequests, for the small instances of the *)
(* stacks.  Each set is closed under permutation of Ids, hence Sym.         *)
(***************************************************************************)
EXTENDS UserRequests, TLC

CONSTANTS u1, u2, u3, a1, a2, n1, n2, c1, c2

Sym == Permutations(Ids) \cup Permutations(Clients)

Plain(a) == [addr |-> a, padded |-> FALSE]
Padded(a) == [addr |-> a, padded |-> TRUE]

Par(i, e, n, t) == [id |-> i, email |-> e, name |-> n, at |-> t]
Rq(op, us, is) == [op |-> op, users |-> us, ids |-> is]

Emails == {Plain(a1), Plain(a2), Padded(a1)}

Creates ==
    {Rq("Create", <<Par(BadId, e, n1, 0)>>, <<>>) : e \in Emails}
    \cup {Rq("Create", <<Par(BadId, Plain(BadAddr), n1, 0)>>, <<>>)}

Updates ==
    {Rq("Update", <<Par(i, e, n1, 0)>>, <<>>) :
        i \in Ids, e \in {Plain(a1), Plain(a2), Plain(BadAddr)}}

\* The other name needs a value of its own where an update may store one of
\* its two columns without the other.
Renames == {Rq("Update", <<Par(i, Plain(a1), n2, 0)>>, <<>>) : i \in Ids}

Deletes ==
    {Rq("Delete", <<>>, <<i>>) : i \in Ids} \cup {Rq("DeleteAll", <<>>, <<>>)}

Upserts ==
    {Rq("Upsert", <<Par(i, Plain(a1), n1, t)>>, <<>>) : i \in Ids, t \in {NoTime, 2}}
    \cup {Rq("Upsert", <<Par(i, Plain(a2), BadName, 0)>>, <<>>) : i \in Ids}

\* Requests about one user each, against one another.
Singles == Creates \cup Updates \cup Deletes \cup Upserts

BulkCreates ==
    {Rq("BulkCreate", us, <<>>) : us \in
        {<<>>,
         <<Par(BadId, Plain(a1), n1, 0), Par(BadId, Padded(a2), n1, 0)>>,
         <<Par(BadId, Plain(a1), n1, 0), Par(BadId, Padded(a1), n1, 0)>>,
         <<Par(BadId, Plain(a2), n1, 0), Par(BadId, Plain(a1), BadName, 0)>>}}

\* Two users or the same one twice; a third entry that goes back to the first
\* user, so that a list is longer than a batch of two.
BulkUpserts ==
    {Rq("BulkUpsert", <<Par(i, Plain(a1), n1, 1), Par(j, Plain(a2), n1, 2)>>, <<>>) :
        i \in Ids, j \in Ids}
    \cup {Rq("BulkUpsert", <<Par(i, Plain(a1), n1, 1), Par(j, Plain(a1), n1, 0),
                             Par(i, Plain(a2), n1, 2)>>, <<>>) :
            i \in Ids, j \in Ids}
    \cup {Rq("BulkUpsert", <<Par(i, Plain(a2), n1, NoTime)>>, <<>>) : i \in Ids}
    \cup {Rq("BulkUpsert", <<Par(BadId, Plain(a1), n1, 1)>>, <<>>)}

BulkDeletes ==
    {Rq("BulkDelete", <<>>, <<i, j>>) : i \in Ids, j \in Ids}
    \cup {Rq("BulkDelete", <<>>, <<>>)}

Bulks == BulkCreates \cup BulkUpserts \cup BulkDeletes

All == Singles \cup Bulks

AllRenames == All \cup Renames
=============================================================================
