----------------------------- MODULE UsersTable -----------------------------
(***************************************************************************)
(* The `users` table every backend stack keeps in PostgreSQL, and the      *)
(* effect of the SQL statements the generated repositories send to it.     *)
(* The table has a primary key (id) and a unique index on email; both are  *)
(* immediate, so a multi-row statement is judged row by row.               *)
(*                                                                         *)
(* The data is abstract: an id, an address, a display name and a time are  *)
(* members of small sets.  What the request layer does to them is kept: an *)
(* e-mail arrives raw, perhaps padded with blanks, and is stored trimmed;  *)
(* blank or malformed fields are refused by the entity's factory.          *)
(***************************************************************************)
EXTENDS Integers, Sequences, Functions

CONSTANTS
    Ids,        \* primary keys, as clients and uuid.NewString supply them
    Addrs,      \* well-formed e-mail addresses, trimmed
    Names,      \* non-blank display names
    Times,      \* values of created_at
    NoRow,      \* "no row under this key"
    NoTime,     \* a created_at_unix the client left out
    BadId,      \* the empty id
    BadAddr,    \* any e-mail that is blank or lacks "@"
    BadName     \* any name that trims to ""

Row   == [email: Addrs, name: Names, at: Times]
User  == [id: Ids, email: Addrs, name: Names, at: Times]
Table == [Ids -> Row \cup {NoRow}]

Raw   == [addr: Addrs \cup {BadAddr}, padded: BOOLEAN]
Param == [id: Ids \cup {BadId}, email: Raw,
          name: Names \cup {BadName}, at: Times \cup {0, NoTime}]

ASSUME DataAssumption ==
    /\ NoRow \notin Row
    /\ BadId \notin Ids
    /\ BadAddr \notin Addrs
    /\ BadName \notin Names
    /\ Times \subseteq Int
    /\ 0 \notin Times
    /\ NoTime \notin Times

-----------------------------------------------------------------------------
(* The entity factory: what it accepts, and what it builds.                *)

WellFormed(p) == p.email.addr \in Addrs /\ p.name \in Names

NewUser(i, p, at) ==
    [id |-> i, email |-> p.email.addr, name |-> p.name, at |-> at]

\* unixOrNow: the client's created_at, or the clock's if it is 0.
AtOr(p, now) == IF p.at \in Times THEN p.at ELSE now

-----------------------------------------------------------------------------
(* Reading.  An e-mail is looked up as received, so a padded one never     *)
(* matches: what is stored has been trimmed.                               *)

Present(t) == {i \in Ids : t[i] # NoRow}

SelectByEmail(t, raw) ==
    {i \in Present(t) : ~raw.padded /\ t[i].email = raw.addr}

EmailsUnique(t) ==
    \A i, j \in Present(t) : t[i].email = t[j].email => i = j

-----------------------------------------------------------------------------
(* Writing.  us is the sequence of entities a statement (or a transaction  *)
(* of several) writes, n the length of the prefix written so far.          *)

RowOf(u) == [email |-> u.email, name |-> u.name, at |-> u.at]

Writes(us, n, i) == {k \in 1..n : us[k].id = i}

First(S) == CHOOSE k \in S : \A j \in S : k <= j
Last(S)  == CHOOSE k \in S : \A j \in S : j <= k

Written(t, us, n) ==
    [i \in Ids |-> IF Writes(us, n, i) = {} THEN t[i]
                   ELSE RowOf(us[Last(Writes(us, n, i))])]

DistinctIds(us) == \A j, k \in DOMAIN us : us[j].id = us[k].id => j = k

Inserted(t, us) == Written(t, us, Len(us))

\* Mutant of InsertOk: a table without the unique index on email.
InsertOkByKey(t, us) ==
    DistinctIds(us) /\ \A k \in DOMAIN us : t[us[k].id] = NoRow

\* INSERT of all of us: no key taken, no e-mail taken or repeated.
InsertOk(t, us) ==
    /\ DistinctIds(us)
    /\ \A k \in DOMAIN us : t[us[k].id] = NoRow
    /\ EmailsUnique(Inserted(t, us))

Removed(t, S) == [i \in Ids |-> IF i \in S THEN NoRow ELSE t[i]]
=============================================================================
