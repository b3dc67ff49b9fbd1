---------------------------- MODULE UserRequests ----------------------------
(***************************************************************************)
(* The requests of user.proto that write, and their replies, shared by the *)
(* contract and by the models of the stacks.  A request carries the users  *)
(* its body and path describe, or the ids it names; a field an operation   *)
(* does not have is ignored by it.                                         *)
(***************************************************************************)
EXTENDS UsersTable

CONSTANTS
    Clients,    \* concurrent connections, one request in flight on each
    Requests    \* the requests a client may send

Ops == {"Create", "BulkCreate", "Upsert", "BulkUpsert", "Update",
        "Delete", "BulkDelete", "DeleteAll"}

Request == [op: Ops, users: Seq(Param), ids: Seq(Ids)]

\* A single create, upsert or update carries one user, a single delete one
\* id; the path of an upsert, update or delete always holds an id.
ASSUME RequestAssumption ==
    \A r \in Requests :
        /\ r \in Request
        /\ r.op \in {"Create", "Upsert", "Update"} => Len(r.users) = 1
        /\ r.op \in {"Upsert", "Update"} => r.users[1].id \in Ids
        /\ r.op = "Delete" => Len(r.ids) = 1

NoRequest == [op |-> "None", users |-> <<>>, ids |-> <<>>]

Statuses == {0, 200, 201, 204, 400, 404, 409, 422, 500}
Replies  == [status: Statuses, users: Seq(User)]
NoReply  == [status |-> 0, users |-> <<>>]

Succeeded(r) == r.status \in {200, 201, 204}
=============================================================================
