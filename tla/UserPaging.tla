----------------------------- MODULE UserPaging -----------------------------
(***************************************************************************)
(* Reading all users page by page, GET /api/users/cursor, while other      *)
(* requests insert and delete users.  A client asks one of the three       *)
(* stacks for pages of a limit, each after the last id it has seen, until  *)
(* a page is empty or, if it likes, shorter than it asked for.  Each page  *)
(* is one statement and reads one state of the table; a request that fails *)
(* is sent again and changes nothing.                                      *)
(***************************************************************************)
EXTENDS Integers, FiniteSets, Sequences

CONSTANTS
    Ids,        \* primary keys in the order of ORDER BY id; the empty id is 0
    Stacks,     \* the stacks the client may ask, of "go", "python" and "ts"
    Limits,     \* limits it may ask for
    Absent,     \* no limit in the query string
    Text,       \* a limit that is no number
    All,        \* a statement without LIMIT
    Refused,    \* no statement at all
    Half,       \* 2^31, of int32
    Wide,       \* 2^63, of int and of PostgreSQL's bigint
    MaxPages    \* no client asks for more

ASSUME PagingAssumption ==
    /\ Ids \subseteq Nat \ {0} /\ IsFiniteSet(Ids)
    /\ Stacks \subseteq {"go", "python", "ts"}
    /\ Limits \subseteq Int \cup {Absent, Text}
    /\ Half \in Nat \ {0} /\ Wide \in Nat /\ Half < Wide
    /\ MaxPages \in Nat
    /\ {Absent, Text, All, Refused} \cap Int = {} /\ All # Refused /\ Absent # Text

VARIABLES
    present,    \* the ids of the table
    stack,      \* whom the client asks
    limit,      \* and for what
    cursor,     \* the last id it has seen, 0 at first
    pages,      \* the pages it was answered
    stayed,     \* the ids in the table ever since it began
    ended       \* has it ended

vars == <<present, stack, limit, cursor, pages, stayed, ended>>

-----------------------------------------------------------------------------
(* The limit each stack makes of the query string.                          *)

(* strconv.Atoi gives the nearest int for a number out of range, 0 for no   *)
(* number; the error is dropped.                                            *)
Atoi(q) == IF q \notin Int THEN 0
           ELSE IF q >= Wide THEN Wide - 1 ELSE IF q < -Wide THEN -Wide ELSE q
Int32(n) == ((n + Half) % (2 * Half)) - Half

\* Mutant of LimitGo: a limit of 0 is left out of the statement.
LimitGoZeroIsAll(q) == IF Int32(Atoi(q)) <= 0 THEN All ELSE Int32(Atoi(q))

\* gorm leaves a negative LIMIT out.
LimitGo(q) == IF Int32(Atoi(q)) < 0 THEN All ELSE Int32(Atoi(q))

\* FastAPI refuses text, PostgreSQL a limit that is negative or no bigint.
LimitPython(q) ==
    IF q = Absent THEN All
    ELSE IF q = Text \/ q < 0 \/ q >= Wide THEN Refused ELSE q

\* Number(text) is NaN, which drizzle leaves out as it does a negative limit.
LimitTs(q) ==
    IF q = Absent THEN 0
    ELSE IF q = Text \/ q < 0 THEN All ELSE IF q >= Wide THEN Refused ELSE q

Limit(st, q) ==
    CASE st = "go" -> LimitGo(q) [] st = "python" -> LimitPython(q) [] st = "ts" -> LimitTs(q)

-----------------------------------------------------------------------------
(* SELECT ... WHERE id > after ORDER BY id LIMIT n; without after where the   *)
(* cursor is the empty id, which is before any id.                            *)

\* Mutant of After: id >= after, the last row of the page before included.
AfterOrAt(rows, after) == {i \in rows : i >= after}

After(rows, after) == {i \in rows : i > after}

\* Mutant of First: no ORDER BY, any rows may be the first.
FirstOfAnyOrder(P, rows) == TRUE

First(P, rows) == \A i \in P, j \in rows \ P : i < j

SelectByCursor(rows, n, after) ==
    {P \in SUBSET After(rows, after) :
        /\ First(P, After(rows, after))
        /\ \/ P = After(rows, after) /\ (n = All \/ Cardinality(P) <= n)
           \/ n # All /\ Cardinality(P) = n}

Init ==
    /\ present \in SUBSET Ids
    /\ stack \in Stacks
    /\ limit \in Limits
    /\ cursor = 0
    /\ pages = <<>>
    /\ stayed = present
    /\ ended = FALSE

(* The next page, from handler to repository.  The client stops at a refusal  *)
(* and at an empty page, and may stop at a page shorter than it asked for.    *)
Stops(P) == P = {} \/ (limit \in Int /\ Cardinality(P) < limit)
Refusal ==
    /\ ~ended
    /\ Limit(stack, limit) = Refused
    /\ ended' = TRUE
    /\ UNCHANGED <<present, stack, limit, cursor, pages, stayed>>

NextPage ==
    /\ ~ended /\ Len(pages) < MaxPages
    /\ Limit(stack, limit) # Refused
    /\ \E P \in SelectByCursor(present, Limit(stack, limit), cursor) :
          /\ pages' = Append(pages, P)
          /\ \/ P = {} /\ cursor' = cursor
             \/ \E i \in P : cursor' = i /\ \A j \in P : j <= i
          /\ ended' \in {P = {}, Stops(P)}
    /\ UNCHANGED <<present, stack, limit, stayed>>

(* Requests that write, as far as the ids go. *)
Insert(i) ==
    /\ i \notin present
    /\ present' = present \cup {i}
    /\ UNCHANGED <<stack, limit, cursor, pages, stayed, ended>>

Remove(S) ==
    /\ S # {} /\ S \subseteq present
    /\ present' = present \ S
    /\ stayed' = stayed \ S
    /\ UNCHANGED <<stack, limit, cursor, pages, ended>>

Writes == (\E i \in Ids : Insert(i)) \/ (\E S \in SUBSET Ids : Remove(S))

Next == Refusal \/ NextPage \/ (~ended /\ Writes)

(* The client asks for the next page sooner or later. *)
Fairness == WF_vars(Refusal \/ NextPage)

Spec == Init /\ [][Next]_vars /\ Fairness

-----------------------------------------------------------------------------
Seen == UNION {pages[k] : k \in DOMAIN pages}

TypeOK ==
    /\ present \subseteq Ids /\ stayed \subseteq present
    /\ stack \in Stacks /\ limit \in Limits
    /\ cursor \in {0} \cup Seen
    /\ pages \in Seq(SUBSET Ids)
    /\ ended \in BOOLEAN

(* No user is answered twice and none before one of a smaller id, although    *)
(* users are deleted and come back between the pages, the one of the cursor   *)
(* included.                                                                  *)
OnceInOrder ==
    \A j, k \in DOMAIN pages : j < k =>
        \A x \in pages[j], y \in pages[k] : x < y

(* A user who was there all the time is passed over by no page, whatever       *)
(* limit was asked for and however the stack read it.                          *)
NonePassedOver == \A i \in stayed : i <= cursor => i \in Seen

(* A limit an int32 holds is obeyed, 0 included: no page has more users than   *)
(* were asked for (user.proto:37-38).                                          *)
LimitObeyed ==
    limit \in Int /\ 0 <= limit /\ limit < Half =>
        \A k \in DOMAIN pages : Cardinality(pages[k]) <= limit

(* Every state is well typed, and the pages so far are in order and no longer  *)
(* than asked for.                                                            *)
Inv == TypeOK /\ OnceInOrder /\ LimitObeyed

(* A client that asked for one user or more a page, and as many as an int32    *)
(* holds, has seen all who were there all the time when it stops.              *)
Complete ==
    ended /\ limit \in Int /\ 1 <= limit /\ limit < Half => stayed \subseteq Seen

(* However many users are inserted meanwhile, the client comes to an end       *)
(* before MaxPages stops it: the cursor only moves forward.                    *)
ReadsEnd == <>ended
=============================================================================
