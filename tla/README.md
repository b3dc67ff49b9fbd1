# manji-standard-server: a TLA+ verification project

The repository is a monorepo in which one contract, `/proto/user/v1/user.proto`
(twelve rpcs over one `user` table), is generated into four server stacks
(Go, Python, Hono, Next.js) and a web front end, by a protoc plugin and a
migration generator per language.  The project models what those programs do
when requests, statements, migrations and crashes interleave, checks the models
with TLC on small instances, and proves the main results with TLAPS for every
value of the constants.

Paths below are relative to the repository root; `go/`, `python/`, `hono/`,
`next/` and `web/` abbreviate `manji-standard-server-go/` and so on (`hono/` and
`next/` are `manji-standard-server-ts-hono/` and `-ts-next/`).

## 1. Inventory

| Part | State it keeps | Operations | Interacts with |
|---|---|---|---|
| `users` table (`go/migrations/..create_users.up.sql`) | rows under a primary key, unique index on email | INSERT, UPDATE, DELETE, SELECT, INSERT ... ON CONFLICT | every stack's repository |
| Go API (`go/internal/handler`, `usecase`, `domain/service`, `infra/repository`) | per request: decoded body, the entity it built; nothing shared in memory | 12 rpcs, 8 of which write | table, through GORM's pool |
| Go `tx` helper (`go/pkg/util/tx`) | the pool; the transaction in the context | `Init`, `Run`, `From` | repositories call `From`; nothing calls `Run` yet |
| Python tx helper (`python/app/infra/db.py`) | the session in a `ContextVar` | `Tx.run`, `Tx.session` | every Python usecase and repository |
| Python API (`python/app`) | one `Session` per usecase call (`infra/db.py` `Tx.run`) | the same 12 rpcs | table, through SQLAlchemy |
| Hono API (`hono/src`) | pool; `db.transaction` inside a repository call | the same 12 rpcs | table, through drizzle |
| Next.js API (`next/src`) | the same | the same 12 rpcs, one route file per path | table, through drizzle |
| Go migration generator (`go/cmd/mss-migration-gen`) | `migrations/.snapshot.json`, files in `migrations/` | diff entities against the snapshot, emit SQL, save the snapshot | the database, by way of the files |
| Python migration generator (`python/tools/mss-migration-gen`) | the same | the same, with fewer kinds of change | the migration runner |
| Migration runner (`python/tools/apply-migrations.py`) | table `_mss_migrations` | wait for the database, apply each file once | the generator's files; started by every replica |
| protoc plugins (`go/cmd/mss-protoc-gen`, `python/tools`, `hono/tools`, `next/tools`, `web/tools`) | none between runs | parse a FileDescriptor, resolve types, classify rpcs, render templates | source trees |
| Web front end (`web/src`) | React state of forms and lists | list, detail, create, edit, delete | any API |
| Contract check (`scripts/check-contract.sh`) | none | diff of proto copies | CI |

**What is hard here.**  Requests of one server run concurrently and share only
the table.  Most are several SQL statements, which one stack sends in one
transaction and another does not; each stack discovers "not found" and "already
exists" at another statement.  A reply is a promise about the table that is
made after the statement that decides it, and a database answer that is lost
turns into an error although the statement took effect.  The migration generators write
several files and a snapshot without a transaction, and the runner is started
by every replica.  A nested transaction joins the outer one in Go and is one of
its own in Python.  The Go plugin names, resolves and emits types in four passes
whose order decides what is declared and imported.  The full list of hazards, each at its line, is under
`hazards` in `PROJECT.json`.

**What makes each part correct.**

* *Table*: no two rows with one e-mail, whichever requests raced.
* *APIs*: each writing request takes effect at one instant between call and
  reply, wholly or not at all; a success tells that it did, and a refusal for a
  reason of its own (404, 409, 422) that it did not, while a 400 or 500 may be an
  error on the way back from the database and tells neither (`UserStore`); a
  stored `created_at` stays.
* *tx helpers*: what ran inside `Run` commits together or not at all, and every
  run ends.
* *Paging*: who is in the table all the time is answered exactly once.
* *Migration generators*: the database the files build is the one the snapshot
  describes; nothing gets into the snapshot without a file; a file the database
  refuses is one of the kinds known to be (a WARNING names most of them).
* *Migration runner*: each file is applied at most once, in order; with one
  replica, eventually all of them.
* *Plugins*: resolution terminates, generated names do not collide, what a
  generated file uses is declared and imported.
* *Web*: a form never overwrites what was typed with what was fetched late.

## 2. Plan

1. `UsersTable`, `UserRequests`, `UserStore`, `UserApiGo`: the table, the
   requests, the abstract contract, and the Go stack as its implementation.
   **Done**, with the proofs.
2. `UserApiPython`, `UserApiTs`: the other stacks as implementations of the
   same `UserStore`, with the constants that say which promise each keeps.
   **Done**, with the proofs.
3. `TxRuns`: nested `Run` in Go (joins) and Python (independent), commit,
   rollback and panic, locks and lost connections.  **Done**, with the proofs.
4. `ApplyMigrations`: several replicas against one database; at most once,
   order, and liveness of a replica that is restarted until it succeeds.
   **Done**, with the proofs.
5. `Schemas`, `MigrationRuns`, `MigrationGenGo`, `MigrationGenPython`: entities
   change, the generator runs and stops half-way, files are applied.
   **Done**, with the proofs.
6. `UserPaging`: paging through the list while rows come and go.  **Done**, with
   the proofs.
7. `ProtocGenGo`: the Go plugin's names, types, imports and request fields.
   **Done**, with the proofs; its ports are smaller and ask the same questions.
8. A model of the web form was planned and given up: see section 6.

All safety properties of the passing runs are proved for every value of the
constants, two of the plugin's for schemas whose names do not clash; properties
that the code breaks are refuted by TLC.  What is left to the runs alone is
liveness (section 5).

## 3. Modules

`UsersTable` is the table as a function from ids to rows or `NoRow`, and the
effect of each repository statement as an operator.  Ids, addresses, names and
times are small sets.  What the code does to the data is kept: an e-mail
arrives raw, perhaps padded with blanks; it is looked up as received but stored
trimmed (`strings.TrimSpace` in `NewUser`), so a padded one never finds the row
it will collide with.  `BadAddr`, `BadName` and `BadId` stand for what the
entity factory refuses.

`UserRequests` has the eight writing requests and the replies.

`UserStore` is the contract: each request takes effect in one step between its
call and its reply, `Create`, `Upsert`, `Update`, `Delete` or `DeleteAll`, or
not at all.  A success tells that it did.  A 404, 409 or 422 tells that it did
not, and 404 and 409 must be true when given.  A 400 or 500 tells neither: the
connection to the database may fail after a statement or COMMIT took effect and
before that is confirmed, and each stack then answers what it answers any error
it does not know (`Told`; in the stacks `Landed`, 400 in Go and TypeScript, 500
in Python).  Three promises that not every stack keeps are constants:

| | Go | Python | Hono, Next.js |
|---|---|---|---|
| `AtomicBulkDelete`: a bulk delete that misses an id removes nothing | no | yes | yes |
| `DeleteOnce`: a delete that succeeds found the user | yes | no | yes |
| `WholeUpdate`: an update answered 200 stored what it answers | yes | no | yes |

`UserServing` is what the stacks share: `req[c]` is the request served on
connection `c`, `draft[c]` the entity its handler holds between two statements,
`reply[c]` the last answer.  It also states the properties that are asked of
several stacks.

`UserApiGo` is the Go stack.  A request is served by a goroutine of its own;
`draft[c]` is the entity the service built after the first statement of a
create or an update.

| Action | Code |
|---|---|
| `Submit` | a request is decoded by its handler |
| `CreateSelect`, `CreateInsert` | `UserService.Create`: `SelectByEmail`, `NewUser`, then `Insert` |
| `BulkCreate` | `UserService.BulkCreate`: no look-up, `CreateInBatches` (one transaction) |
| `Upsert`, `BulkUpsert` | `OnConflict{UpdateAll}`; leaves `created_at` of an existing row; batches of `BatchSize` |
| `UpdateSelect`, `UpdateWrite` | `SelectByPK`, then `UPDATE` and `RowsAffected` |
| `Delete`, `DeleteAll` | one `DELETE` |
| `BulkDelete` | one `DELETE`, committed, then `RowsAffected` against the number of ids |
| `Fail`, `Abandon`, `Crash` | any other error (400) before the statement took effect (one after is `Landed`, in the action of the statement); connection dropped or handler panics (recovered by net/http); process restart |

No usecase opens a transaction, so every statement is a step of its own.
`Fresh` is what `uuid.NewString` may return: a key that no row and no request
in flight mentions.  An id whose user was deleted may be drawn again, which
lets a finite set of ids stand for an unbounded supply; `Submit` refuses a
request that names a key drawn and not yet told to anyone.

`UserApiPython` is the Python stack.  Every usecase method runs in one
`tx.run`; what it writes is committed before the reply or rolled back, so a
bulk delete that misses a row changes nothing; a commit that raises although it
landed is answered 500.  `draft[c]` is the entity as its
session read it: `UpdateFlush` writes only the columns that differ from it, and
sends nothing if none does; `DeleteFlush` does not mind that the row is gone.
E-mail clashes of an update or upsert and rows that vanished are uncaught (500).

`UserApiTs` is both TypeScript stacks, whose files below the routes are the
same up to imports.  `MissStatus` is what their routes differ in: Next.js
generates an error map per route file, and the one of bulk-delete has no 404.
A bulk upsert is one statement per user in one transaction, so a user may be
named twice; a `created_at_unix` left out is read as 0 by the route of a single
upsert and by nobody in a list, where the invalid `Date` made of it is refused.

`UserApiGoHistory` adds a variable that remembers which users were deleted
under an update in flight, to state what a `PATCH` may do to `created_at`
(`CreatedAtKept`).  An upsert of an existing user answers the `created_at` it
was sent and stores none of it; the contract of `UserStore` is about who exists
and what is written, and `CreatedAtKept` says that the stored one stays.
`UserApiTsHistory` does the same for the TypeScript stacks, whose `PATCH` writes
the whole row it had read: `CreatedAtTraced` says that it brings back an old
`created_at` only where an upsert or a re-creation has overtaken it.

`UserRequestSamples` holds the requests the runs send.  Each sample set is
closed under permutation of the ids, so ids and connections are symmetric.

`Schemas` has tables as the migration generators see them (`TableSchema`), as
PostgreSQL keeps them (`DbTable`: unique constraints have names there, and two
ways to come by one), the differences of two schemas, and the effect of the
statements.  `MigrationRuns` is what the generators of Go and Python share:
edits of the entities at any moment, a run that reads entities and snapshot
once, one file per changed table, the snapshot saved last, a run that stops in
between.  `StartRun` does not look at the versions that are there, as the code
does not; `soon` counts the runs that start within the seconds they reach.  A
type changes in the database only along `Casts`, the conversions PostgreSQL
makes without `USING`; a file that changes another is refused.  `MigrationGenGo` and `MigrationGenPython` add which changes a run
finds, and how the files are applied: golang-migrate (external: files by
version, `dirty` after a failure, no start on two files of one version), and
`apply-migrations.py`, which cuts files at semicolons.  Their operators have
`Go` and `Py` in their names, so that one module can prove about both.

| Action | Code |
|---|---|
| `Edit`, `Tick` | the entity registry is regenerated; time passes |
| `StartRun` | `run`/`main` up to the first file: diff of snapshot and entities |
| `Write` | one `os.WriteFile`/`open(path, "w")`, in the code's order |
| `SaveSnapshot` | `saveSnapshot`/`json.dump` |
| `StopRun` | an I/O error or an interrupt between two of these |
| `Migrate`, `Apply` | one file by golang-migrate / `apply-migrations.py` |

`ApplyMigrations` is `tools/apply-migrations.py` as every container runs it:
`Connect` (a bounded number of attempts), `CreateLog`/`Waited`/`ReadLog` (one
transaction; `CREATE TABLE IF NOT EXISTS` waits for a concurrent one, and fails
when that commits), `Exec`/`Commit` (one transaction per file), `Finish` (the
server starts), with `Kill`, `Outage`, `Recover` and `Lose` at any point.
`MigrationLog` is its abstract specification: every file once, in order.

`TxRuns` is both transaction helpers, `pkg/util/tx/tx.go` and
`app/infra/db.py`, under callers that nest them in any way.  An actor is a
request being served; `stack[a]` are the runs it is in, outermost first.  A
member of `Joins` is a Go request: `Run` inside `Run` finds the transaction in
the context and joins it, so `Current` is the outermost one.  A Python request
opens a session per run, and `Current` is the innermost.  A member of `Strays`
also calls a repository with a context from outside the run, which `From`
answers with the default pool.

| Action | Code |
|---|---|
| `InitPool`, `Begin`, `NotBegun` | `tx.Init`; entering `Run`/`tx.run`; `Begin` fails |
| `Issue`, `Perform`, `Fail`, `MustFail` | a statement is sent, waits for the row, takes effect or fails; after a failure, a lost connection or a deadlock PostgreSQL sees, it must fail |
| `Lose` | the connection of a transaction is lost; the database rolls back |
| `Return`, `Commit` | `fn` returns nil: commit, whose answer may be lost; on an aborted transaction pgx reports the rollback, psycopg does not |
| `Raise` | `fn` returns an error or panics: rollback |

`UserPaging` is `GET /api/users/cursor` of all stacks, asked page after page by
a client while other requests insert and delete.  The three operators
`LimitGo`, `LimitPython` and `LimitTs` are what each stack makes of the `limit`
of the query string: Go drops the error of `Atoi` and cuts an `int` to an
`int32`, FastAPI refuses text, `Number` makes it NaN; a negative limit is left out
by gorm and drizzle and refused by PostgreSQL.  They differ without a limit and outside
0 .. 2^31 - 1; no document says which reading is right.

`ProtocGenGo` is the Go protoc plugin in its four passes: `ParseEntity`,
`EmitEntities`; then per service and method `BuildMethod` (which lists the calls
to make as an agenda), `ResolveName`, `CollectTypes`, and the search of
`outputUsesEntity` (`EnterSearch`, `SearchField`, `ReturnFalse`) with a bounded
goroutine stack (`MaxCalls`); `EmitService` and `EmitProject`.  A generated file
is kept as what it declares, uses, imports and reads of a request, so that the
properties can ask whether the files fit together.  A name is a stem, a suffix
and the underscores `resolve` appends.  An `enum` field is the one use that
nothing declares; an entity behind a map of messages is the one the import
flag misses (`EntitiesInSight`).

## 4. Runs

| Run | What it asks | Result |
|---|---|---|
| `go_api` | two connections, every writing request, single and bulk with repeated ids, repeated e-mails, malformed members and lists longer than a batch: the inductive invariant (e-mails unique among it), the contract, and a stored `created_at` is replaced only by a `PATCH` that raced a delete and a re-creation | holds |
| `go_refused` | "a request refused for a reason of its own (404, 409, 422) changes nothing" | violated: `BulkDelete` (finding) |
| `py_api` | the same requests and renames sent to the Python stack: e-mails unique, the contract (a bulk delete that rolls back; a `PATCH` that changes no column sends no statement and is answered 200 though the user was just deleted, `WholeUpdate` = no), and only an upsert replaces a stored `created_at` | holds |
| `ts_api` | the same requests sent to Hono or Next.js: e-mails unique, the contract with all promises, and a `created_at` changes only by an upsert or a `PATCH` that was overtaken | holds |
| `go_migrations` | the types; a version has one file more at most for every run started too soon; applied files make the snapshot; a file fails only for a type change without `USING` or the name of an inline UNIQUE; the snapshot never gets ahead of the files, though a run stops half-way or starts too soon | holds |
| `go_unique_dropped` | "every file the generator writes is accepted", but for type changes, of which it warns | violated: `DROP CONSTRAINT uq_..` of an inline UNIQUE (finding) |
| `py_migrations` | applied files make the columns of the snapshot; a column is unique as it was born, whatever becomes of the UNIQUE in the snapshot (no statement is written for that change); a file fails only for a type change without `USING` or the warning with a semicolon; snapshot and files as above | holds |
| `py_not_null_added` | the same of Python | violated: `ADD COLUMN .. NOT NULL` never is (finding) |
| `replicas` | kills, outages and a broken file: once each, in order; only migrated containers serve; the sound one comes to serve | holds |
| `protoc_go` | the Go plugin over families of small proto files: names apart, emitted types are the reached ones, the search finds what is reachable, files declare what they use and import what they mention, handlers read every request field, and the run ends with the project | holds |
| `tx` | nested runs of both helpers with failing statements, lost connections, lost commits and deadlocks: all or nothing, a write lands with its run, every run ends unless requests wait for each other through a second session | holds |
| `paging` | pages of any limit from any stack under inserts and deletes: none twice, none who stays passed over, all seen at the end, and an end | holds |


**Bounds.**  Three ids, two addresses, one name, two times and two connections.
Two addresses and three ids are enough for a collision, a swap and a bystander;
two times tell the clock of a create from a client's `created_at`; every
handler has at most two statements, so two connections reach every order of
two requests, and three ids let a bulk request race a request on one of its
members.  `BatchSize` is 2 and the longest upsert has three entries, so the
batch boundary (100 in the code) is crossed.  `py_api` has two ids and two
names instead: two updates of one user that write a column each need the second
name.  `MissStatus` is `{400, 404}`: both TypeScript stacks at once.  Nothing is a counter, so no state
constraint is needed.

Migrations: two tables, so that a run has two files to stop between; two
columns and one index over both, so that one change of a table adds, alters and
drops at a time; three schemas, between which every kind of change occurs.
Of the types, `bigint` casts to `text` by itself and not the other way
(`BigintToText`).  `MaxTime` bounds the clock, and with `MaxSoon` the files: in 3
seconds a table is created, altered and dropped.  A run may be started within
the seconds the versions of an earlier one reach (`MaxSoon`, once), and one run
may stop (`MaxStops`).  The two violated runs have neither, and 4 seconds.  What
is said of the database is said of behaviours in which neither happened
(`Undisturbed`): the files of a stopped run, and two of one version, have to be
cleaned up by hand.  What is said of versions and of the snapshot is said of all.

Containers: an old image and a new one (two and three files, the third broken).
`MaxTries` is 2 for the 30 attempts to connect, and `MaxFaults` lets two kills
or outages happen, enough to kill both containers, or one twice, at any two
steps.

Plugin: every graph of two messages and an entity with up to two fields each,
lists and maps; every choice of clashing names for three messages; two services over
shared messages; every two request fields under every kind of route; every two
marked fields of an entity (`MCProtocGenGo`).  Three messages are enough for a
cycle, a shared child and a clash that meets the next clash.  `MaxCalls` is 4,
one more than the longest path without a repetition, so only a cycle overflows.

Transactions: a Go request alone with four runs and statements, a Go request
beside one that strays with three each, and a Go request with three beside a
Python one with four; two rows, so that locks can be taken in opposite orders; depth 2.  A
deadlock takes two statements of each request, and a request that waits for its
own caller two runs and two statements.

Paging: four ids, an `int32` of 3 bits (`Half` = 4) and a `bigint` of 5
(`Wide` = 16), and limits on both sides of each of their bounds.  `MaxPages` is 6
and never reached: `ReadsEnd` would fail if it were.


**Deadlock** is checked in all runs: a request can always fail, entities
can always be edited, and a container whose file is broken is started again and
again; except `protoc_go`, `tx` and `paging`, where the system really stops: the
plugin ends, the requests use up their budget, and the client has read to the
end.

**Fairness.**  `FairSpec` of `ApplyMigrations` has weak fairness of
each container's next step, its restart after it ended included, and of the
recovery of the database.  A Python process that is not killed goes on by
itself; that an ended container is started again is the operator's part (the
compose file has no restart policy), and what the docstring means by
"再実行しても冪等".  Faults are not fair, and bounded.
`ProtocGenGo` has weak fairness of `Next`: one goroutine that runs until it
ends.  `TxRuns` has, per actor, weak fairness of `Perform`, `MustFail`, `Return`
and `Raise` together: PostgreSQL executes a statement that can be executed and
ends a deadlock it detects, and `fn` ends once its statements have; nothing says
that a new run or statement is ever begun, or a connection lost.  `UserPaging`
has weak fairness of the client's next request, and none of the writers.

## 5. Proofs

TLAPS, for every value of the constants that meets the named assumptions
(`DataAssumption`: the sentinels differ from the data; `RequestAssumption`:
single requests carry one user or id; `BatchAssumption`):

* `UserServingTheorems`, the lemmas all stacks rest on: what the table operators
  return and preserve (`WrittenType`, `WrittenOnce`, `RemovedUnique`,
  `ClashIsEmail`), what a request builds of the users it was sent (`BuiltUsers`,
  `CreateBuilds`, `NamedBuilds`), and what answers leave behind.  Least and
  greatest numbers of a set come from well-founded induction on Nat
  (`LeastNat`, `GreatestNat`).  `CountedRows` makes "as many rows as ids" mean
  "every id existed and none was named twice".  `KeysMove` says where a step may
  put a key, and `KeysMoveApart` that this keeps the keys of creates apart.
* `UserApiGoTheorems`: `TypeCorrect`, `EmailsStayUnique`, `Invariant`,
  `GoKeepsContract`, `CreatedAtStays`.  A write whose answer is lost is the same
  step of `UserStore` as one that is answered.  `UniqueEmails` is not inductive in a
  useful sense by itself: that the draft written by `CreateInsert` and
  `UpdateWrite` is one well-formed user needs `DraftsOK`, and `KeysApart` says
  that the key drawn for a create stays its own until it is inserted.  `Inv` is
  their conjunction; `go_api` checks it.  The look-up of a create or update
  stutters in `UserStore` unless it refuses; the second statement is the step
  that takes effect.  `CreatedAtKept` follows from `HInv`: the `created_at` an
  update is about to write (`DraftsAt`) is the stored one, unless its user was
  deleted since it was read (`raced`).
* `UserApiTsTheorems`: `Invariant`, `TypeScriptKeepsContract` and
  `CreatedAtStays`, along the same lines; here an upsert overtakes an update as
  well (`overtaken`), and a bulk delete that misses an id maps to a refusal.
* `UserApiPythonTheorems`: `Invariant`, `PythonKeepsContract` and
  `CreatedAtStays`.  A session holds what it selected until it is flushed
  (`SessionOK`): the flush of an update writes the columns that differ from what
  was read, so that its step in `UserStore` is a partial update.
* `MigrationTheorems`, first part: for any tables, columns, types and indexes,
  any edits of the entities and any applying in between, and for both
  generators, whose names it keeps apart by `Go` and `Py`.  What the two prove
  alike is proved once, over a *view* of a table of the snapshot: in Go the
  table itself, in Python its columns without their UNIQUEs.  A file links one
  view to the next, and the waiting files of a table are a chain from what the
  database has to what the run has reached (`Chain`, `LeadsOn`, `LinksOn`).  That is
  the inductive invariant (`GoIInv`, `PyIInv`): the database is not the
  snapshot while files wait, and a run in the middle of its files has written
  some of the changes that lead to its target (`TodoLeft`).  From it follow
  `FilesLeadToSnapshot` and `FilesLeadToColumns`, that a file fails for two
  reasons only (`GoFailsForTwoReasons`, `PyFailsForTwoReasons`) and that the
  snapshot follows the files wherever a run stops (`GoSnapshotFollowsFiles`,
  `PySnapshotFollowsFiles`).  How many files a version has (`GoVersionsCounted`)
  needs that the run in progress has not reached its next version (`Counted`):
  the files of that version are then of earlier runs, and one fewer than it may
  have.  A run that did not start too soon keeps clear of all versions before it
  (`NotSoon`).
  `UniquesStayFromBirth` needs the history the files keep: the last file that
  created a column is the one that decides (`UniquesKept`, `BirthOf`).
* `MigrationTheorems`, second part: `FilesTakeEffectOnce`, `ServersAreMigrated`
  and `AppliesSequentially`, for any set of containers, files and images
  (`ImageAssumption`: an image has the files up to one of them).  That a file
  takes effect once (`LogTellsEffects`) is inductive only with `InStep`: the
  files a container has come past are in the log, and the one it is about to
  commit is not and is held by no other container.  Its third clause is also
  what makes the commit a step of `MigrationLog`.
* `TxRunsTheorems`: `RunsHoldTogether`, `RunIsAllOrNothing`, `NothingLandsEarly`
  and `HangNeedsTwoSessions`, for any requests, rows, budgets and depth
  (`TxAssumption`).  `HeldTogether`, that the outermost transaction of a Go
  request holds all its runs have written, is inductive with `JoinedEmpty` (a
  run that joined holds none), `IdleUnwritten` and `WaitsWithCurrent`.
  `OneActor` reduces each action to the entries of the actor that takes it.
  `NothingLandsEarly` needs besides that a write is held by one session only,
  that of a run of its own actor (`OwnWrites`).
* `UserPagingTheorems`: `PagesAreOrdered`, `NobodyPassedOver` and
  `PagingIsComplete`, for any set of ids, limits and stacks (`PagingAssumption`),
  from `BehindCursor`: what has been answered is not past the cursor.
  `LimitAsWritten` says that every stack reads a limit of 0 .. `Half` - 1 as it
  was written; `PageFacts` is what a page is to the table it was read from.
* `ProtocGenGoTheorems`, for any proto files `protoc` accepts
  (`SchemasAssumption`: references are resolved; fields of a message and rpcs of
  a service differ in name) and any stack.  `Reach` is the least set closed under
  a step, so that reachability needs no induction over paths; what `FlattenSeq`
  lays end to end is split into its parts by well-founded induction
  (`FlattenParts`).
  - `NamesStayApart` and `TypeCorrect`.  A message is collected only after it was
    resolved, which is a property of the whole agenda (`Ordered`, in `TInv`).
  - `EmitsWhatIsReached` (`EInv`): the types declared so far and the messages
    still to be collected hold the roots and are closed under `Children`, and lie
    in every set that is; when the agenda is empty the types are the least one.
  - `SearchFindsEntities` (`SInv`): the search may go round, but a call that
    returns leaves a message from which no entity is reached at all (`Clean`), so
    the fields an open call has gone past lead to none (`Passed`), and an open
    call's message leads to one only if the response does (`Stack`).
  - `GeneratedNamesAreDeclared` (`DInv`): each file, when it is written, uses
    only what it or an earlier file declares (`Settled`); the types of a service's
    fields are declared because they are emitted, so it rests on `EInv`.
  - `ImportsFollowUse` (`MInv`) rests on all of these.
  - `RequestsAreFilled` (`RInv`) and `DeclaredOnce` (`WInv`: a name given is the
    message's own with underscores added; `UInv`) hold for schemas whose names
    do not clash: two services, from two proto packages, under one name overwrite
    each other's files, and a message named `<Service>Usecase` is declared beside
    the interface (`ServicesApart`, `Apart`).  Every schema of the run meets both.
    `DeclaredOnce` is about each service: two of them may declare one name.

Only model-checked: `AllServe`, `GeneratesAll`, `RunsEnd` and `ReadsEnd`, as
liveness under fairness is out of the prover's reach.


## 6. Not modelled

* The reading requests that are a single SELECT (list, get, by e-mail): they
  change no state and relate to no other step.
* The web forms.  What could go wrong in them (fields fetched after the user has
  typed, a second click before the answer) is decided by the scheduling of React
  and the browser, of which the repository holds nothing to translate.
* The plugins of Python, Hono, Next.js and the web front end: smaller ports, which
  resolve no names and compute no imports; in `ProtocGenGo` the spelling of
  names, the text of the templates below their declarations, and the field types
  float, bytes and sint.
* The mocks, the logger and `env`, the contract check and the documents: no
  protocol state (see `components` in `PROJECT.json`).
* Migrations: changes of the primary key (no statement is generated for them)
  and rows (statements marked `-- WARNING` may fail on them), `--dry-run` and
  `--name`, and what the developer writes into a file by hand, as the WARNING of
  a type change asks for (the file is then not the generator's any more).  In
  which order files of one version come is left open.
* Transactions: a Python statement outside a run uses a session nobody closes
  (`db.py:57-59`); the model lets go of its row with the statement, as CPython does
  when the last reference to the session goes with the repository call.
* The Go plugin: two services that declare one name in the package they share.
  `resolve` avoids the names of its own service only (`main.go:577-583`), and
  `DeclaredTwiceApart` is stated of each service by itself.
* Inside PostgreSQL: a statement is atomic.  `READ COMMITTED` lets a statement
  wait for a row another transaction holds; it then sees what that one
  committed, as if it had been sent later, so the models of the API stacks have
  no waits.  Where a wait can be for ever, in nested transactions, it is
  modelled (`TxRuns`).
