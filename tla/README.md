# FingerprintHub in TLA+

FingerprintHub is a shared catalogue of image fingerprints: an aiohttp service
over one PostgreSQL database. Consumers contribute perceptual hashes, report
hits, flag each other's rows, delete their own, and replicate everybody else's
rows through an incremental feed. This directory models the parts of it that
keep state, checks them with TLC on small instances and proves with TLAPS, for
all instances, every safety property that the passing runs check.

## 1. Inventory

| Component | State | Operations | Interacts through |
|---|---|---|---|
| Contribute (`api/fingerprint_store.py` `contribute`, handler in `api/fingerprints.py`) | `fingerprints` row per (hash, consumer), flag rows, `fingerprints_sync_seq`, identity | SELECT, DELETE flags + UPDATE (resurrect), INSERT ... ON CONFLICT, second SELECT | row locks, unique key, sequence |
| Flag / auto-hide (`flag`) | flag rows, `flag_count`, `status` | SELECT FOR UPDATE, INSERT, COUNT, UPDATE | row lock |
| Hits (`report_hit`) | hit rows, `hit_count` | SELECT FOR UPDATE, INSERT, UPDATE | row lock |
| Delete (`delete_fingerprint`, `soft_delete`) | `status` | read + ownership check, then a second transaction | row lock |
| Retention (`apply_retention`, `tools/purge_retention.py`) | all tables | DELETE hits, UPDATE flags, DELETE and UPDATE tombstones, commit or dry-run rollback | separate process, locks, cascade |
| Sync feed (`sync`, `sync_fingerprints`) | none on the hub; watermark and copy at the client | page after a cursor | committed rows, client protocol |
| Auth and rate limit (`api/auth.py`, `api/consumers_store.py`) | per-consumer deque of admission times, last_seen marks | lookup, enabled check, window, throttle, scope check | event loop, worker pool |
| Error middleware (`api/app.py`) | none | exceptions to 503 / 500 | wraps everything |
| Worker pool, connection pool (`utils/async_utils.py`, `utils/postgres_utils.py`) | executor queue, pooled connections | submit, borrow, time out | every database call |
| Field encryption (`utils/field_encryption.py`), privacy migration (`alembic/versions/0002`) | keyring cache; encrypted columns, `alembic_version` | encrypt, decrypt; rewrite columns up and down | called by the store and the views; separate process for migrations |
| Browse, detail, stats, health (`list_fingerprints`, `get`, `stats`, `_ping`) | none | read-only queries, several statements or pages each | committed rows |
| Consumer administration (`tools/create_consumer.py`, psql) | `consumers` rows | mint, disable, re-enable | read by the auth lookup |
| Startup, configuration (`main.py`, `config.py`) | process-wide pool, environment | validate schema at head, open, close | migrations |

What is hard here: every handler runs several SQL statements, each of which
reads the rows committed at that moment; two handlers (and the retention
process) interleave between statements; a sequence that is outside
transactions numbers changes that become visible in commit order; deletion is
split over two transactions; locks on flag rows and on fingerprints are taken
in different orders by different calls; connections break, sometimes after the
COMMIT; pooled connections outlive the database they lead to; threads wait for
connections that other threads hold; pages and statements of one answer read
different snapshots; rows are stamped before they commit; values under several
keys and in the clear meet in one column. `PROJECT.json` lists these as hazards, each at its line.

What makes each part correct:

- write path: the cursor is unique and moves exactly with replicated content;
  a row with enough flaggers is not active; counters equal the rows they
  count; only an owner or admin deletes; every call ends;
- retention: touches old tombstones only, a preview touches nothing; nothing
  is kept much longer than its period, nothing purged before clients knew;
- feed: a client has everything up to its watermark, and reaches the end;
- auth: never more than the limit in a minute, never a refusal without cause;
  access follows the account, last_seen keeps up without a write per request;
- encryption: nothing in the clear at head, owners read what was stored,
  downgrades restore it;
- views: paging and statistics are off by no more than what happened meanwhile,
  peers learn no more than the peer record;
- pools: every request is answered, no connection leaks, an outage costs at
  most one failed call per pooled connection.

## 2. Plan

Done: `FingerprintStore`, its abstraction `Catalog` with `StoreRefinement`,
`SyncFeed` on top of the catalogue, `RequestAuth` with consumer
administration, `Retention` with a clock, `PrivacyMigration` with field
encryption and start-up, `ApiViews`, `WorkerPool`; and the proofs:

| Proofs | of | extends |
|---|---|---|
| `FingerprintStoreProofs` | `FingerprintStore`: types, cursor, statuses, deletion, the refinement of `Catalog` | `StoreRefinement` |
| `StoreChildProofs` | `FingerprintStore`: flags, hits, refusals, retention, lock cycles | `FingerprintStoreProofs` |
| `SyncFeedProofs` | `SyncFeed` and, under it, the reachable states of `Catalog` | `SyncFeed` |
| `RequestAuthProofs`, `RetentionProofs`, `PrivacyMigrationProofs`, `ApiViewsProofs`, `WorkerPoolProofs` | the module each is named after | that module |

What is left: abstract specifications of what the limiter and the connection
pool promise, for `RequestAuth` and `WorkerPool` to refine as `FingerprintStore`
refines `Catalog`. No module has a RECURSIVE operator.

## 3. The modules

### FingerprintStore

One action is one SQL statement of one session. Sessions are the worker
threads of `run_blocking_io` and the retention tool's process. `fp` is the
committed table, `tip` the newest version of every row, `lock` who may still
change it; `flags` and `hits` are the child tables and `chg` the uncommitted
changes to them. `seq` and `lastId` are the sequence and the identity column,
which no rollback takes back; `drawn` is a number a transaction holds and has
not committed. `pc`, `arg`, `seen` are a session's program counter, the call
it serves and what its own reads returned; `reply` is the HTTP status.

| Code | Actions |
|---|---|
| `contribute` | `BeginContribute`, `SelectExisting`, then `ClearFlags`, `Resurrect` or `ResurrectGone`; or `EvaluateDefaults`, `InsertOrNothing`, `SelectWinner` |
| `flag` | `BeginFlag`, `LockRow`/`LockMissing`, `AddFlag`, `CountFlags`, `ApplyFlag` |
| `report_hit` | `BeginHit`, `LockRow`/`LockMissing`, `BumpHit` (both statements run under the row lock) |
| `delete_fingerprint` | `BeginDelete`, `CheckOwner`, `SoftDelete`/`SoftDeleteNothing` |
| `apply_retention` | `BeginRetention` (hits), `ClearReasons`, `PurgeRow`*, `Cascade`, `AnonymizeRow`*, `EndRetention` |
| `conn.transaction()`, `error_middleware` | `Commit`, `LoseConnection`, `DeadlockVictim` |

What is assumed of PostgreSQL, from how the code uses it (`external` in the
map): READ COMMITTED, which nothing in the repository changes; an UPDATE,
DELETE or FOR UPDATE that meets a locked row waits and then tests its newest
version; an INSERT evaluates its defaults before it looks for conflicts, and
ON CONFLICT waits for an in-flight writer of the same key; `nextval` is not
undone; a deadlock is broken by aborting one transaction, whose error psycopg
derives from OperationalError, hence 503. An UPDATE draws its number when it
has the row; drawing it before a wait would only leave a larger gap between
number and commit. Statements over several flag rows are one step. A lost
connection rolls back, or loses only the answer of a COMMIT. `BadParameter` is
a statement that fails on its values (a distance beyond 32 bits, text with a
NUL, a hit or flag that must be encrypted without a usable keyring) after
earlier statements of the transaction succeeded: `Refusable` names the calls
to which a run lets it happen.

Data left out: category, action, provenance, timestamps and free text, except
one bit `meta` (source fields present), which retention clears. Requests that
fail validation (400) do not reach the store. A hash and its owner are the
key; a triple is one model value. Ages of rows are not milliseconds: when the
retention tool starts, any set of hits and flag reasons, and any tombstone all
of whose earlier numbers are settled (`horizon`), may be past its cutoff; what
is written later is not. That is, a retention period is longer than a call.

`SerialContribute` is an assumption about clients, not code: one consumer does
not have two contributes of the same hash in flight. The run `flagging` needs
it, and `double_revive` shows why; all others do without. `CyclesNeedResurrect`
has a case of its own for clients that break it: flags given between two racing
revivals stay on the row, and retention may hold one of them while it waits for
that row, so that a cycle needs no `ClearFlags`.

### Catalog and StoreRefinement

`Catalog` is what readers may rely on: entries with the replicated columns,
changes that take their number first and become visible later, in any order,
and one change per row at a time. `StoreRefinement` maps the committed rows
and the drawn numbers of `FingerprintStore` to it; `ImplementsCatalog` is
checked as a property. `StaleRevive` is the one weakness the store really has
without `SerialContribute`: a revival may hit a row that is live again.

### SyncFeed

`Sync` is the query with its cursor, filters, extra row and `next_since`;
`Pull` the handler with the clamped limit. The client is external: it follows
`docs/CLIENT_INTEGRATION.md` (apply the page, then save the watermark), and
may restart between any two steps. `late` is a history variable: the numbers
that were still in flight when a page went past them.

### RequestAuth

The middleware between two awaits is atomic, since all requests share one
event loop; at an await any other request, the operator or the clock may move.
`Admit` is everything from the lookup's result to the next await. `Mint` is
`create_consumer()` (a taken name or an invalid scope changes nothing),
`Toggle` the operator's UPDATE. `found` is a history variable: what a
request's account was between its arrival and its lookup, so that
`AccessFollowsAccount` says exactly when disabling takes effect: a request
already past its lookup is still served. `/v1/health` bypasses the middleware.

### Retention

`apply_retention()` and `tools/purge_retention.py` against a clock, which
`FingerprintStore` does not have. A call's stamp is up to `MaxDelay` old when
its statement runs (`Stamps`) and when it commits. A contribute or delete takes
two steps, the statement that takes the row lock and the `sync_seq` (`Draw`)
and the end of its transaction (`Finish`), so that deletions may overtake each
other and be overtaken by a sync as in the program; a call that waits or finds
nothing to write changes nothing and has no step. The tool takes `now_ms`,
later its transaction commits, or rolls back in a preview; it waits for rows
and flags that a call in flight holds (`Blocked`). A client syncs, reading all
pages at once. `Tick` lets time pass only while the deadlines are kept that the
documents set: the tool is applied every `Every`, the client returns within
`Offline`, calls and runs take at most `MaxDelay`. A row that a flag hides is
left out: for the client it is a deletion that is never purged.

`RetiredCopiesGone` is what the tombstone window buys, and what it cannot buy
is written into it. A change whose number was drawn, and not committed, when a
sync went past it (`late`) is never served, so a client that keeps every
deadline may hold a fingerprint that was deleted and purged: without that
disjunct TLC finds the property violated in `retention_clock` by the behaviour
of `feed_overtaken`. And of a fingerprint deleted and contributed again under
another triple while the client was away nothing is promised: it no longer
matches the filter of that client, which keeps the old copy
(`api/fingerprint_store.py:185`). `Minimised` counts a period shorter than
`MaxDelay` as `MaxDelay`: a call may commit that long after its stamp, just
behind a run, and its row would otherwise be overdue at the next one.

### PrivacyMigration

A stored value is a text and the keys it is wrapped in, so that wrapping twice
and opening once can be told apart. A text may look like an envelope. The
migration rewrites all columns in one transaction under ACCESS EXCLUSIVE
locks, hence one action. `Rotate` follows the rule of `docs/OPERATIONS.md`: a
key that rows reference, or that a running service writes with, stays
configured. `Start` is refused unless the schema is at head. The previous
release writes plain text and is stopped for an upgrade, as the same document
asks; the current release may keep running across a downgrade and an upgrade.
`cell` stands for any of the five encrypted columns of any row.

### ApiViews

One reader at a time, over rows other transactions change: readers change
nothing, so this loses no behaviour of one reader. A browse is a client's walk
through the pages of a query, with the rows that were listed throughout, left
or entered as history. A `stats()` call is one step per statement; the last
one, on `consumers`, is not told apart. Ids may appear in any order, since
they are drawn before commit. A live row may be revived once more, by a
contribute that read the tombstone before another one revived it (`Revivals`).
`algorithm` is a filter like `category` and left
out; provenance is a free text.

### WorkerPool

`pc` says where a request's current call is: queued for a thread, waiting for
a connection, running, or ended and waiting for the event loop. The pool is
`psycopg_pool`'s, external: connections are handed out in the order they came
back, waiting threads are served in order, a broken connection is replaced
when it is given back, the pool grows on demand up to its maximum, and gives
up opening one after a while if the database is down. Closing connections that
were idle for minutes is left out. `DbDown` makes every connection dead; a
call on a dead connection fails and `DbUp` does not revive it. A plan is the
sequence of database calls of a request: ping; lookup and work; with a touch
in between if `last_seen` is due; a delete has two calls of work (read and
ownership check, then the UPDATE), four calls in all if `last_seen` is due.
`kind` remembers which it is, so that `TouchNeverDecides` can say that a request
answered 200 made exactly the calls of its own plan. Answers that need no
further call (401, 404, 429) end a request earlier and wait for nothing.

## 4. Runs

| Run | Properties | Bounds |
|---|---|---|
| `flagging` | `TypeOK`, `AutoHide`, `FlagCountExact`, `SeqUnique`, `StatusMachine`, `HitsAudited`, `DeleteAuthority`, `RefusedLeaveNoTrace` | 2 consumers, one an admin, 1 hash (2 rows), 2 workers, threshold 2, 6 calls, 1 lost connection, refused statements |
| `retention` | `CyclesNeedResurrect`, `CursorMoves`, `RetentionScope`, `ImplementsCatalog` | 1 row, 2 triples, 2 workers and the tool, threshold 1, 5 calls, 1 lost connection |
| `live` | `EveryCallEnds` | 5 calls, fair |
| `feed` | `FeedTypeOK`, `OnlyOvertakenMissed`, `PagesExact`, `EventuallyCaughtUp` | 4 changes, 3 in flight, limits 0..3 with maximum 2, 1 restart, fair |
| `auth` | `AuthTypeOK`, `NoBurst`, `TouchesSpaced`, `NoEarlyRefusal`, `TouchesKeepUp`, `AccessFollowsAccount` | 4 requests, limit 2, a minute of 2 ticks, 5 ticks, 1 fault |
| `privacy` | `PrivacyTypeOK`, `EncryptedAtHead`, `ReadsTrue`, `RollbackRestores` | 2 columns, 3 keys, a plain and a lookalike text, no bound on steps |
| `retention_clock` | `RetentionTypeOK`, `RetiredCopiesGone`, `Minimised` | 2 fingerprints, 2 triples, periods of 1 to 3 ticks, 2 changes in flight, 3 changes, 1 audit row, 6 ticks |
| `views` | `ViewsTypeOK`, `PagingSkipsExplained`, `StatsDriftBounded`, `PeersLearnLittle` | a peer and an admin, 3 ids, 2 categories, pages of 1 and 2, 2 commits |
| `pool` | `PoolTypeOK`, `ConnectionsAccounted`, `DeadConnectionsSpent`, `TouchNeverDecides`, `EveryRequestAnswered` | 3 requests, each a health check or a delete with `last_seen` due, 2 threads, 1 connection, 2 outages, fair |

Why the bounds are enough for the cases that matter. Contribute, delete, two
racing contributes, a flag and a retention run are five calls, and with two
flags of threshold 2 six, the longest scenarios in the list of hazards; two
workers and the tool give every pair of calls and three-party waits; threshold
2 makes the count race possible, and threshold 1 makes a hide cheap where the
run is about something else. In the feed, two changes in flight are enough to
overtake, and limits of 0, 1, 2 and 3 cover both clamps and the extra row. Four
requests fill a window of two, are refused, and come back after it moved. Three
keys are an old, a current and a new one. Six ticks let a fingerprint be
contributed, deleted, anonymised and purged, each at its last moment and
overdue one tick later. Overtaking takes two fingerprints and three numbers:
one is contributed, its deletion draws, another is contributed and served, the
deletion commits. The client may be late by exactly what the tombstone window
allows. Three ids and two commits shift a page boundary by a removal and a
return. Three requests over two threads and one connection make a call wait for
a thread that waits for a connection, and two outages kill a connection that
replaced a dead one. The two kinds of request are the shortest plan and the
longest; the theorems hold for all five.

Workers and requests are symmetric in the safety runs, as are keys, columns and
the two fingerprints of `retention_clock`. Deadlock checking is on everywhere:
in the store `Done`, and in the pool `Quiet`, is the only state in which
nothing happens, so a wait nothing ends would be reported; the other systems
always have a step (a client polls, the operator toggles or rotates, a reader
asks).

Fairness. `FairSpec` of the store: a worker thread and the retention process
keep executing their call, a waiter is woken when the lock is released, and
the deadlock detector runs (`deadlock_timeout`). Nothing is assumed about new
calls or faults. `FairSpec` of the feed: a client keeps polling, and every
open transaction ends, which is what `EveryCallEnds` shows. `Fairness` of the
pool: a free thread takes the next call, a call ends, a wait for a connection
times out, the event loop resumes. Nothing is assumed about the database
coming back, nor about the pool's reconnecting. Weak fairness is enough in
all three.

### Disagreements with the documents

Each is a run in which TLC finds the documented statement violated.

- `double_revive` (`AutoHide`): two contributes of one hash both read
  'deleted'. One revives the row, peers flag it until it is hidden, then the
  other's UPDATE, which tests only the id, makes it active again with
  `flag_count = 0` while the flag rows remain. README.md: "a row auto-hides
  once ... distinct consumers have flagged it".
- `purged_revive` (`NoInternalError`): retention purges the tombstone between
  the SELECT and the UPDATE; `contribute` returns `(None, True)` and the
  handler fails with a 500.
- `feed_overtaken` (`TombstonesReachPeers`): numbers are drawn before commit,
  so a deletion may become visible below a client's watermark and is never
  served. PRIVACY.md: "Soft deletion creates a tombstone so offline peers
  learn to remove their local copy". `OnlyOvertakenMissed` shows that this is
  the only way the feed loses anything.

## 5. Proofs

Every invariant and action property of the passing runs is also a theorem, for
every value of the constants: any sets of consumers, hashes, workers, clients
and requests, any threshold, limit, period and number of steps. The theorems
assume only the named assumption of each module (`ConstantsAssumption`,
`AuthAssumption`, ...), with one exception: three theorems of the store assume
`SerialContribute`, named with them below. None of the properties is inductive;
what follows is the invariant each proof needs, and why. The proof of an
invariant has one lemma per action.

### The write path

`FingerprintStoreProofs` proves `StoreInv == Shape /\ SeqInv /\ TxnInv`.

- `Shape` is `TypeOK` with `ArgsPresent` (a session at a statement of
  `contribute` has a hash, caller and triple, so the row it writes is typed)
  and `FlagsFinite` (committed and pending flag rows are finite, so that the
  counted number is a natural). It gives `TypeCorrect`.
- `SeqInv` is `SeqUnique` with the numbers of waiting inserts: an INSERT draws
  its number one statement before it writes the row, so each such number is
  within the sequence, carried by no row, committed or pending, and held by one
  session only. It gives `CursorIsKey`.
- `TxnInv` describes the transactions in flight. `LockInv`: a row nobody has
  locked is as committed, and who holds a lock is at a statement that may, with
  a new version that follows from the old one by what its operation does
  (`Holding`). `IdInv`: ids are unique, also those drawn and not written, so
  that an id read before a wait still means the same row or none. `OpsAt`: which
  operation runs which statement. `TodoInv`: a tombstone that retention noted
  cannot be revived under the same number, so its recheck tells. `SerialInv`:
  with `SerialContribute`, a contribute that read 'deleted' finds the row
  deleted or gone when it writes.

From it, by looking at what each commit publishes: `CursorRules`
(`CursorMoves`: the cursor moves if and only if status or triple do, but for a
contribute that commits after another one of its hash had revived the row), `DeletesAuthorised` (`DeleteAuthority`), `StatusRules`
(`StatusMachine`, assuming `SerialContribute`), and `StoreImplementsCatalog`:
initial states map to initial states of `Catalog`, drawing a number maps to its
`Begin...`, a commit to the publication of that change, a rollback to giving it
up, and every other statement to a stutter.

`StoreChildProofs` adds `ChildInv`: a flag or hit belongs to an existing row;
what a transaction adds, deletes or updates belongs to the fingerprint it works
on (`ChgInv`); two transactions never write the same flag row (`LocksApart`);
when retention anonymises, its cascade has caught every child of the rows it
erased (`CascadeInv`). It gives `RefusalsLeaveNoTrace`
(`RefusedLeaveNoTrace`), `RetentionSparesLive` (`RetentionScope`) and
`HitsNeverLost` (`HitsAudited`). `CountInv` says that the count of a `flag()`
about to be written is the one its commit makes true, `ShownBelow` that a row
that is served has a count below the threshold. `FlagInv` holds under
`SerialContribute`: counts are exact, a `contribute()` about to write its row has
deleted all its flags (`ClearInv`), and retention holds no flag of a row that was
revived since it was noted (`RevivedFree`). `FlagCountsExact` and
`FlaggedAreHidden` (`AutoHide`) follow and assume `SerialContribute`;
`double_revive` shows that they fail without it. `CyclesExplained`
(`CyclesNeedResurrect`) assumes nothing: without `SerialContribute` the property
itself allows the cycle that `RevivedFree` excludes.

### The feed

`SyncFeedProofs` proves `FeedInv`: in the catalogue, numbers and ids of rows and
open changes are distinct and drawn (`CatalogInv`); what was open when a
client's watermark went past it is on record (`MarkInv`); a page read but not
saved is a prefix of what followed the watermark, except for changes published
since, which were open when it was read (`PageInv`). Then
`NothingElseMissed` (`OnlyOvertakenMissed`), `PagesAreExact` (`PagesExact`) and
`FeedTypes`. The lemmas on `Take` (ORDER BY sync_seq LIMIT n) say that a page is
a prefix, has at most n rows, and is empty only if there are none.

### Auth

`RequestAuthProofs` first proves `AuthInv`: what a lookup returned agrees with
what the account was while the request waited (`AllFoundFit`), the mark of a
consumer is the time of its latest admission that went on to write last_seen
(`MarksFit`), no admission lies in the future (`AdmittedFit`). It gives
`DisablingTakesEffect` (`AccessFollowsAccount`), `LastSeenThrottled`
(`TouchesSpaced`) and `LastSeenKeepsUp` (`TouchesKeepUp`). `WindowInv` adds
that each deque lists admissions of its consumer in order and once each, among
them all of the last minute (`WindowsFit`): once pruned, its length is their
number, hence `LimiterHolds` (`NoBurst`, for every minute there was, not only
the last), `RefusalsDeserved` (`NoEarlyRefusal`) and `AuthTypes`.

### Retention

`RetentionProofs` proves `RetentionInv`. The deadlines that `Tick` respects are
kept (`Deadlines`); a number in flight is above the client's watermark or in
`late` (`Drawn`), so a deletion that commits is still to be fetched or was
overtaken; one that is still to be fetched committed after the last sync
(`LateDeletions`), so it was stamped at most `MaxDelay` before that, and its
tombstone is too young to be purged. Hence what a client holds under its triple
is live, is still to be served as deleted, or was overtaken (`Copies`,
`DeletionsReachClients`). Nothing was older than its period at the last run, but
for calls that committed behind it (`Recent`), and the next run comes within
`Every` (`AgesBounded`).

### Migration

`PrivacyMigrationProofs` proves all four properties of the run `privacy`
(`PrivacyTypeCorrect`, `NothingInTheClear`, `OwnersReadBack`,
`DowngradeRestores`). The invariant `Sound` says why they hold: each column
holds the text last stored in it under at most one key, and that key is still
configured (`CellsSound`); the key a running service writes with is configured
too (`RingKept`, which is what a rotation that keeps old keys guarantees); the
previous release runs only on the previous schema (`LegacyBehind`, else it
would write plain text at head). "At most one key" is what the migration's
trial decryption buys: with it, a second upgrade leaves encrypted values alone.

### Views

`ApiViewsProofs` measures a walk by ranks in the list ordered by id. While it
runs (`Placed`), a record listed throughout and not seen yet lies ahead of the
offset unless something above it left, no more of them lie behind than records
left, and a record seen lies behind unless something above it came in. A page
reaches as far as its length (`PageReaches`), an empty page means that nothing
is ahead (`EmptyPage`), and a commit shifts ranks by one at most. It gives
`SkipsExplained` (`PagingSkipsExplained`), with `ViewsTypes` and `PeersSeeLittle`
(`PeersLearnLittle`). For `stats()`, each sum equals the number of active rows
at its statement (`SumOfCounts`), and that number moves by one with each commit
(`Drift`): `StatsNearlyAgree` (`StatsDriftBounded`).

### Pools

`WorkerPoolProofs` proves `PoolInv`: the two queues list exactly the requests
that wait in them, once each (`Queued`), a call holds a connection exactly while
it runs (`Holding`), busy threads are within their number (`Threads`), every
connection counted is somewhere (`Pooled`), and each request is at a stage of
the plan of its kind, four calls at most (`Plans`). It gives `PoolTypes`, `NoConnectionLeaks`
(`ConnectionsAccounted`), `OutageCostsItsConnections` (`DeadConnectionsSpent`,
which is inductive on top of the others: a dead connection is spent or replaced,
never copied) and `AnswersEarned` (`TouchNeverDecides`).

### Induction

The library's induction theorems take an operator, which the provers cannot
instantiate. Where a proof needs induction over naturals or finite sets it uses
a minimal counterexample instead: the strict subset ordering on finite sets is
well founded (`FS_StrictSubsetOrderingWellFounded`), so a nonempty set of
naturals has a least element (`LeastNumber`). The sum over a data set in
`StatsDriftBounded` is handled so: the recursion of `MapThenSumSet` is satisfied
by the count itself, and what satisfies it on a finite set is unique
(`SumsUnique`).

### Only model-checked

Liveness: `EveryCallEnds`, `EventuallyCaughtUp` and `EveryRequestAnswered`,
because fairness and ENABLED are out of the prover's reach. That deadlock is
impossible where the runs check it. And the three runs that expect a violation,
which are counterexamples.

## 6. Not modelled

- `tools/generate_field_key.py` and the argument parsing of the tools: no state.
- `encrypt_json`, `decrypt_json_field`, `rekey_envelope`: no caller in the
  repository.
- Request validation that answers before any database call (400, and the 500
  of a distance such as `Infinity`, whose `int()` raises): pure functions of
  the body, no state. Formatting of answers and JSON parsing likewise.
- Keys removed while rows still reference them, and the previous release left
  running during an upgrade: both against `docs/OPERATIONS.md`, and both lose
  data by design.
- Several service processes: each has its own rate limiter and pool
  (`docs/OPERATIONS.md` says so of the limiter); the store's model holds for
  any number of sessions.
- Replacing the pool for another DSN, and closing it at exit: one process uses
  one DSN, and nothing runs after the close.
- What the loser of an insert race is told when the winner has been deleted
  meanwhile (409 for a tombstone, against `docs/API.md`): visible in
  `SelectWinner`, not stated as a property.
