# Panda Trace in TLA+

Panda Trace stores logs that agents and hosts send it: an HTTP API (FastAPI)
over Postgres, ClickHouse, Redis and MinIO (or one in-memory store), and a
collector that follows Docker containers and posts their lines to the API.
This directory models the parts where interleavings, failures and retries
decide what is stored, counted and lost; checks them with TLC on small
instances; and proves the main results with TLAPS for every instance.

Source references are to `src/`; `store` is
`panda_trace/persistent_store.py`, the store used in production.

## Inventory

| Component | State | Operations | Hard because | Correct when |
|---|---|---|---|---|
| Log ingestion (`store`, `ingest_log`) | ClickHouse `logs`, `audit_logs`; Postgres `idempotency_keys`, `audit_events` | look up the idempotency key, resolve, reserve two quotas, insert, commit, audit, publish | no transaction spans the stores; each step may fail; retries overlap | idempotency rows name stored logs; acknowledged logs are everywhere; rows never change |
| Daily quotas (`store`, `_reserve_daily_redis_counter`) | Redis counter per owner and UTC date | INCRBY, compare, DECRBY | separate commands, midnight between them, a process that dies between them | grants stay within the limit; each claim is put back once, on its own date |
| Batch ingest (`routes_logs.py`) | none | `ingest_log` per item with key `batch:index` | stops half way; derived keys on retry | item-level outcome matches what was stored |
| Tail stream slots (`tail.py`, `routes_logs.py`) | Redis counter per key, expiry | INCR/EXPIRE/DECR, DECR/DELETE | non-atomic commands, expiry under open streams, paths that never release | the cap, no phantom slots |
| Tail delivery (`tail.py`, SSE loop) | subscriber queues or pub/sub, next record, idle deadline | publish, evict, heartbeat, close | cancellation, full queues, deadline races | order, no duplicate, stream closes |
| Docker collector (`panda_trace_collector/collector.py`) | queue, batch, followers, stop event | follow, send, 422 recovery, retry, discover, stop | threads, blocking queue, lost answers, process death | nothing lost silently, only invalid records dropped, order kept |
| Control plane (`store`, `routes_control.py`) | orgs, agents, projects, sources, keys | create, list, revoke | checks and writes are separate operations | grants stay in one organisation; revocation is final |
| Authentication and access (`auth.py`, `access.py`) | key rows | secret, expiry, revocation, IP, scope, grant | decided once, used after many awaits | a scoped key acts within its grants |
| Attachments (`store`) | MinIO object, Postgres row, audit | put, insert, audit | three stores | a row names a stored object |
| Search (`store`, `log_query.py`) | none | count, page, cursor | two queries, offset cursors | pages neither skip nor repeat on a quiet table |
| Rate limiter (`rate_limit.py`) | window counters | count, refuse | INCR and EXPIRE apart | at most the limit per window |
| In-memory store (`store.py`) | dictionaries under a lock | the same interface | atomic: an abstract specification | the same promises |
| Redaction, sizes, severity, codecs | none | pure functions | recursion over JSON | secrets removed; severities canonical |

Interactions: the routes call one store interface; ingestion calls the quotas
and hands the stored log to the tail backend; the collector is a client of the
batch route. Postgres, ClickHouse and Redis are reached through worker threads
(`asyncio.to_thread`), so handlers interleave at every backend operation.
`PROJECT.json` lists every hazard with its line and the properties that cover it.

## Modules

The modules, in groups that can be read alone. `X_proof` holds the theorems about
`X` (`Ingest_proof` those about the three modules of ingestion), `MCX` the values of
the constants for TLC. `Subsequences` is the one list operation that both the
collector and the tail hub use: a Python comprehension that keeps some indices. It is
defined by ranks of indices and not by `SelectSeq`, whose recursion the prover cannot
look into.

| Group | Modules | Composes |
|---|---|---|
| quotas | `QuotaPromise` (abstract), `DailyQuota` | |
| ingestion | `Ingest`, `IngestQuota`, `IngestRoutes` | `IngestQuota` = `Ingest` with two instances of `DailyQuota`; `IngestRoutes` = the two routes over it |
| collector | `Collector` | the batch route is its environment |
| tailing | `TailSlots`, `TailStream` | slots and content of the same streams, separately |
| control plane | `Tenants` (tables and checks), `Registry` (abstract), `ControlPlane` | both over `Tenants` |
| reading | `Attachments`, `Search` | |

### Quotas and ingestion

**`DailyQuota`** has one caller per call of `_reserve_daily_redis_counter`
(store 1004-1018). `stage` is where the call stands; `ComputeKey`, `IncrBy`,
`DecrBy` are its commands and `Midnight` the clock. `owner` separates the
counters of different keys, projects or agents. A caller may stop anywhere: no
fairness is assumed. The 48 hours' expiry is left out because no command uses a
key of another date. **`QuotaPromise`** is the quota of the in-memory store
(`store.py` 638-664) without its refusals: a grant fits, and stays.

**`Ingest`** is `ingest_log` (store 376-451). `pc[r]` is the backend operation
request `r` does next; each action is one operation with the decision the code
takes on its result. `Fail` is an operation that raises, `Crash` the death of
the process; an operation that took effect but whose answer was lost is its
action followed by `Fail`. `PublishRaises` is the one operation that may raise
an `APIError` of its own after the log is stored: `TailHub.publish` evaluates
the filters of the subscribers, whose severities nobody checked. `ExpireLog` is
the TTL of the table `logs`, after which a retry finds a row whose log is gone; the TTL
of `audit_logs` is not modelled, and `chAudit` is what was ever written there.
`AcknowledgedEverywhere` is about every 200, of a creation and of a replay, and says
which copies may be missing: a request that failed or died at its last two steps leaves
a log without its ClickHouse audit copy or its publication, and a replay that is
answered with this log does not make up for it. A log and
its audit event are named by the request that made them (the code makes fresh
ids). The resolution of project and source (store 832-892) only reads, and is
the constant `Writable`; its reads are steps in `ControlPlane`. The quota
counters keep one date here. **`IngestQuota`** adds what the quotas are for and
maps each request to a caller of `DailyQuota`, once for the key and once for
the project.

**`IngestRoutes`** is `POST /v1/logs` and `POST /v1/logs/batch`. Request
`<<p, i>>` of `Ingest` is item `i` of post `p`, and `next[p]` the item in work: a
step of the store happens only for that item (`IngestItem`), an `APIError` moves
on (`TakeAnswer`, `RejectItem`), anything else ends the post (`FailItem`). `IdemOf` is
the derived key `batch:index`. A client's retry is another post with the same
contents; the history variable `seen` remembers which posts had ended when it
arrived, and that is all the properties know of time. The rate limiter is the
choice of `Refuse`.

### Collector

**`Collector`** has the threads of `collector.py`: a follower per container (`ReadLine`,
`Put`, `EndOfOutput`), the sender (`Take` to `Retry`) and the main thread (`LoopTest`,
`Discover`, `JoinReturns`). A line is its kind: valid, invalid, blank, or malformed so
that parsing raises. The API is the environment: it answers, or fails after handling any
prefix of a post; a 422 names some of the invalid items or none (the body is cut at 64
KB). Whether a valid item is stored, or listed as rejected for a quota or a size, is
chosen anew for each post, because it depends on what the API holds at that moment; the
collector reads neither list. An answer that comes after the client's timeout is counted
as handled when the post fails. `MissLine` is a line written while nobody follows its
container. `Dies` covers a kill and an exception in `discover_targets`; `Restart` is
systemd's. Two history variables belong to the running process: `parsed` has the records
its followers read and parsed, `lost` what its sender held when it died of an exception
it does not catch. `copies`, `refused` and `dropped` are what became of each record.
`NoSilentLoss` and `StoredInOrder` are about all parsed records, those a follower still
holds in front of a full queue included. `StoredInOrder` counts a record that was
refused as settled: refused in a post that failed, it may still be stored by the retry,
after its successors.

### Tailing

**`TailSlots`** has the tail requests of one key: `Incr`, `Expire`, `Decr` of
`RedisTailAdapter.acquire_stream`, `Audit` and `Close` of `tail_logs`,
`Release` and `Delete` of `release_stream`. `Lose` is every way to end without
releasing: process death, a Redis command that raises, the exception of the
tail backend that the `finally` clause raises again, a body never started.
`Expiry` is Redis dropping the key; `OutliveExpiry` says whether that may
happen under streams that still hold a slot.

**`TailStream`** has what is delivered. Per stream there are two processes, as
in the code: the task that awaits the iterator (`task`: `Subscribe`, `Get`) and
the loop of the response (`pc`: `Begin`, `Take`, `Beat`, `Sent`, `End`). A yield
is a state (`sending`, `beating`) that lasts until the client takes the event,
which is where deadlines pass and queues fill. `held` is the result of a
finished task that the loop has not looked at. `End` is the `finally` clause:
a fetch under way is cancelled, which closes its iterator; a finished one
cannot be, and its iterator stays subscribed until it is collected
(`Finalize`); one that raised raises again. Both backends share the loop: in
memory `PublishMemory` filters in the writer and unsubscribes full queues; over
Redis the connection gets everything (or misses it, `missed`) and the filter runs
in the task. Filters are sets of record numbers and a bit for the unsupported
severity; time is the set `late`. `Way(s)` is all that is on its way to a client, in
order: delivered, being sent, held, queued. `Ungapped` relates it to the records that
are due. `StreamsSettle` says that a matching record that has reached a stream is
delivered, and lists all that may come between: the client goes, the fetch raises, or
the deadline passes while the loop is suspended in a yield (`Overtaken`). The last of
them is not what the documentation says; `ClosedWhenIdle` is, and is violated.

### Control plane

**`Tenants`** has the tables, the checks (`ProjectForKey`, `SourceForKey`, `Candidates`,
`Permitted`) and the rows that each operation writes; both other modules use it.
**`Registry`** is `InMemoryStore` (`store.py` 75-257): valid on arrival, then checks,
rows and audit event in one step or not at all. **`ControlPlane`** is the persistent
store, where every read is an action of its own: `Authenticate`, `GetAgent`, `Resolve`
(a write without a source), `Check` (the n-th of `Checks`), `InsertLog`, `Commit` (the
Postgres transaction), `CopyAudit`. Keys are revoked, expire and are created between
them. Of `ingest_log` it has the steps that depend on the tables, and the writes; of
`tail_logs` its checks and audit event. `KeepsRegistry` is the refinement: `status` of a
request is `done` when its transaction is committed, which needs that all checks made
before would still pass then. They do because no row is ever deleted and none changes
but for `revoked_at`, which no check after the first reads. The mapping hides one thing:
a log that is in ClickHouse and whose Postgres transaction is not made yet, or never,
because its request failed or died in between; the in-memory store has no such half.
`AuditComplete` says when it exists, and `WritesWithinGrants` what holds of it. Rows
that a transaction of another process could delete are outside: the code deletes none.

### Reading

**`Attachments`** has the upload over three stores (`LookForBucket`, `MakeBucket`,
`Put`, `Commit`, `CopyAudit`), listing, download and `get_log`, any of which may
raise or die between two operations, and retention, which drops the log alone.

**`Search`** is one client's walk through the pages of one search or one export.
The count and the page read `table` at different moments; `Orders` leaves open what
the ORDER BY leaves open, chosen anew for each page. Two conversions stand between a
record and the table and are modelled by what they do: a timestamp becomes the second
of a `DateTime` column (`Column`, `Second` ticks to a second), and an attribute
is compared as text, `JSON_VALUE` of the record (`JsonValue`) with `str()` of the filter
(`Str`). `Where` is the persistent store's clause over them, which never looks at the
grants for projects (they were checked before) and takes the key's sources only when
none are asked for. `Matches` and `Precedes` are the in-memory store's filter and sort on
the record as it was sent. The two do not answer alike, and `SameAsMemory` says by
how much: `Blurred` logs (out of the range but in its first or last second, the text
across two fields only, an attribute filter that is not a string or is the text of
a value that is not) may be in one answer and not in the other, all others
may not, and the order may differ within a second; no answer counts or shows a log out
of the key's grants, blurred or not. docs/search.md:31 calls attribute filters exact
matches; between two strings they are.

`NothingSkipped` bounds what offsets miss of the logs that were there from the first
count to the last page: no more than were dropped during the walk or written between
its last count and the page after it. It says nothing of a log that shares its second with
another found one, since ties are open; in production that is common. `start`,
`counted`, `seen` and `lost` are history variables.

## Runs

| Run | Instance | Shows |
|---|---|---|
| `daily_quota` | 3 calls, 2 owners, claims 1-3, limit 2, 2 dates | owned counters, grants within the limit, refusals for cause, refinement of `QuotaPromise` |
| `ingest` | 3 posts of up to 2 items, 2 keys, 2 projects, shared and derived idempotency keys, both quotas, failure anywhere | what the stores hold, what clients are told, what retries store again; both quota refinements |
| `ingest_duplicate` (violation) | 3 requests of one key, `Ingest` alone | two logs for one idempotency key |
| `batch_rejected` (violation) | 1 batch of two items | a stored log reported rejected |
| `collector` | 2 containers, 5 lines, queue 1, batch 2, 1 failure, 1 restart, fairness | the invariants of the sender, and that parsed records are settled |
| `tail_slots` | 4 streams, limit 2, losses and expiry | what the counter keeps |
| `tail_slots_delete` (violation) | the same, no expiry under streams | the cap is exceeded by the race of `DELETE` with `INCR` |
| `tail_stream` | 4 records, queue 1, one stream on either backend with three filters, or two on one hub, fairness | no gap or disorder, streams settle |
| `tail_stream_idle` (violation) | the same | a stream closes as idle with a matching record at hand |
| `control_plane` | 2 orgs, 3 seeded keys, 3 requests from 5, 8 and 11 calls | tenancy, audit, refinement of `Registry` |
| `attachments` | 3 requests, 2 logs, 3 keys | whole attachments, true reads |
| `search` | 4 logs, 2 ticks to a second, 14 requests, pages of 1 or 2, exports of 3, 4 reads, 1 drop | what is alike in memory and what is not, how much a walk misses |

Why these bounds are enough for what they show. A quota needs one call that fits, one
that does not and one that meets the refused claim before it is put back; two dates put
midnight between any two commands. Idempotency needs two overlapping requests and a
later retry; a batch needs an item stored, an item failed and a retry of both, and a
single post with a derived key. The posts of `ingest` are five named workloads
(`MCIngestRoutes`), one per hazard, because all inputs together are too many. The
collector needs a full queue while a batch is in recovery, an invalid record before or
behind a valid one (or all three, when a stop lets the batch grow), and a failure inside
the recovery; more failures and invalid items, and larger queues and batches, are left
to the proofs. A tail slot's race needs one releasing stream and as many others as the
limit, plus one. A tail stream's queue of one overflows while a record is held and
another is on its way to the client, so four records suffice for an eviction and a
record after it; a second stream is needed to have a filter before and behind another's.
A stale check needs a creator, a revoker or second creator, and a user of what they
made: three requests, with calls chosen so that later ones name what earlier ones
create. An attachment's races need two writers of the bucket and a reader. A walk needs
two pages with an insertion or a drop between them, a log written between a count and
its page, two logs that tie in their second only, one that is out of the range but in
its first second, attributes of two types with the same text, and a read quota that ends
it. Bounds are named where they occur: `LastDay`, `MaxFailures`, `MaxRestarts`,
`MaxRecords`, `MaxDrops`, `ReadLimit`, the sizes of the sets. Deadlock checking is off
in every run because each of them ends: every request is answered, the process is out of
restarts, the lines are over, the streams are closed.

Symmetry is used for requests and streams, in runs of safety properties only.

### Fairness

`collector`: the sender is a thread whose every wait has a timeout (`get`, `stop.wait`,
15 s per post), so `Send` is weakly fair; posts fail at most `MaxFailures` times, beyond
which the code's endless retry has nothing to wait for. `LoopTest`, `Discover` and
`JoinReturns` are weakly fair because the main thread waits with timeouts. `Put` is
weakly fair because `queue.Queue` wakes a thread that waits for room and lines are
finite, so room that another follower takes comes again only finitely often. Nothing
else is assumed of followers, and nothing of containers, signals or failures. `Take`
reads a `get` that times out as the end of `flush_seconds`, which is how the timeout is
computed (collector 293).

`tail_stream`, `tail_stream_idle`: a task that can run is run by the event loop
(`Fetch`, `Run`), the wait of 15 seconds and the idle deadline are timers (`Beat`,
`Deadline`), and a yield ends because the server waits for its client no longer than the
connection lives (`Sent` is part of `Run`). Nothing is assumed of publishers,
disconnections and failures. Weak fairness is enough: each of these stays enabled until
it happens.

### What the violations show

- `ingest_duplicate`: the log is in ClickHouse before the idempotency row is
  claimed, and `ON CONFLICT DO NOTHING` is not looked at, so overlapping requests
  and retries after a failure in between store two logs
  (plan/05-log-ingestion-prd.md:57 promises safe retries). `RetryStoresTheRest`
  is what does hold: only the item at which an earlier post broke off.
- `batch_rejected`: a tail stream may be opened with a severity that
  `normalize_severity` does not know. The first record that reaches its filter
  in `TailHub.publish` raises in the writer's request, after the log is stored, audited
  and mapped; the batch reports it rejected (plan/05-log-ingestion-prd.md:74) and
  the subscribers behind that stream do not get it. `ReportedAsStored` and
  `Ungapped` name this as their exception and hold otherwise.
- `tail_slots_delete`: `MAX_CONCURRENT_TAIL_STREAMS` is not a cap
  (docs/tailing.md:33) when a release's `DELETE` follows another stream's
  `INCR`. It is not one either when streams outlive the counter, which
  `CapUpToForgotten` includes in what the counter forgot.
- `tail_stream_idle`: docs/limits.md:30 closes a stream after the timeout "without a
  matching log event". The loop compares the deadline after every yield and before it
  looks at the fetch (routes_logs.py 105), so a stream whose client was slow closes
  with a matching record fetched or queued before the deadline. `StreamsSettle` is
  what does hold: this is the only way to lose it while the client stays
  and the fetch does not raise.

Other things a reader of the models will notice, which no document denies: an evicted
stream is not told (`StreamsSettle` says it ends at its deadline); two first uploads
race for the bucket and one is answered 500 (`MakeBucket`); attachments outlive their
log (`ExpireLog`).

## Proofs

All theorems hold for every finite set of callers, requests, posts or streams and
every limit, from the named assumptions on the constants only.

- `DailyQuota_proof`: `GrantedWithinLimit` is not inductive, because `IncrBy`
  compares the counter and not the grants. `CounterIsOwned` closes the gap: the
  counter is the load of the granted calls and of those that still have their
  `DECRBY` to do, so a value within the limit bounds the grants. The load of a
  set of calls is the cardinality of its units, which gives sums by the
  theorems on finite sets instead of induction; `RefusedForCause` is the same
  invariant read at the step that refuses. `PromiseKept` maps `IncrBy` to
  `Grant` or a stutter and every other action to a stutter.
- `Ingest_proof`: one inductive invariant, `IngestInv`, says what each
  operation may rely on: which copies a request has made by the time it does its
  next operation, and that a found row names a stored log of the same key.
  The quotas are part of it (`IngestQuota`): both refinements, and
  `StoredWithinQuota` from `QuotaSafe` of `DailyQuota_proof` under the refinement
  mapping, because a stored log belongs to a request that was granted both quotas.
  So are the routes (`IngestRoutes`): `RoutesImplementIngest` is the refinement of
  `Ingest` by them, so the invariants of `Ingest` hold of posts. `InTurn` says that
  items before `next` are answered and items behind it have not begun, which gives
  `ReportedAsStored`; the rest is about rows: a row never changes, an answered
  item with a key has one, and a request that starts after a row exists never
  stores. `RetryStoresTheRest` carries that over the history variable `seen`.
- `Collector_proof`: none of the four safety properties is inductive without the
  others. `InOrder` says that queue, batch and pending records are parsed, in the order of
  their container, and the batch before the queue; `Followed` that what was parsed is
  not ahead of its follower, and that nothing is stored before it was queued and taken,
  which makes the first copy the one of this attempt; `Attempted`
  that during an attempt a record of the batch that is no longer pending is settled, and
  that one which the attempt has not handled was stored in failed ones only. That last
  part is what the 422 recovery could break: `PostIndices` keeps it because the indices
  of an answer are applied to the very list that was sent. `NothingLost` is about
  every record that a follower of the living process parsed, and excepts only `lost`,
  which is empty unless the sender is dead. The theorems are for every
  number of containers, lines, failures and restarts, every queue and batch size, and
  every choice the API makes between storing and refusing.
- `TailStream_proof`: `Ungapped` speaks of records that are due, which over Redis is
  known only when the record is fetched, so the invariant (`Delivering`) speaks of all
  that is on its way: increasing, after the subscription, and without a hole before
  its last record; for a subscribed stream, all that is due. `Fetching` says that a stream that
  has not subscribed is no subscriber and has nothing on its way. Each action moves the
  first element of one part of the way to the end of another, or appends a new record,
  larger than every other, at its end.
- `TailSlots_proof`: `CapUpToForgotten` and `NoPhantomPlace` are inductive with
  types and the fact that a stream that lost its slot never acts again. Three lemmas
  say how actions move streams in and out of `Placed`, and the rest is
  arithmetic on cardinalities. `RefusedForCause` (a stream is refused only
  when the limit is reached by streams placed before it) and
  `ForgetsOnlyWithKey` are action properties from the same invariant, proved
  and not listed among the runs' properties.
- `ControlPlane_proof`: the checks of a call and its rows are separate operations,
  and the argument why that is enough is that rows are never removed or changed
  but for `revoked_at` (`Grows`): a check that has passed still passes when the
  transaction commits (`HoldsStays`). The inductive invariant says what each request
  has got past (`Passed`) and what its transaction left (`Wrote`); with it come
  `GrantsWithinOrg`, `WritesWithinGrants` and `AuditComplete`. `RegistryKept` is
  the refinement: `Authenticate` maps to `Admit`, `Resolve` to `Choose`, `Commit`
  to `Perform`, a refusal to `Leave`, the rest to stutters.
- `Attachments_proof`: objects, rows and events only grow as well; the invariant says
  what a request has done by the time it does its next operation (`Reached`),
  what it was told (`Told`) and what it left (`Left`).
- `Search_proof`: a log found by the clause of `_search_where` is in scope
  (`WhereInScope`), and one that is not blurred is found just when
  `record_matches_search` takes it (`FoundIsAlike`, with `ColumnOrder` on seconds and
  `ClauseMatches` on attributes); an order of the ORDER BY is one by the in-memory
  key up to its second (`OrderByKey`). `SameAsMemory` follows for every answer, whatever
  was inserted or dropped meanwhile. `NothingSkipped` is about any number of
  pages. The invariant (`Walked`) counts the logs that a walk has left behind: not shown,
  though fewer than the cursor's number come before them (`Left`). There are at most as many
  as found logs were lost (`Few`), since a write only adds to what comes before a log, a
  page shows what lies within its limit, and a drop moves one log at most across
  the cursor. At the end (`LastPage`) what was written after the last count is all that
  may still lie behind the last page. Of a table that does not change, without ties, what
  was shown is the beginning of its one order (`Shown`).

The two lemmas on ranks are in `Collector_proof` and in `TailStream_proof`, each of
which can be read and checked alone.

Every safety property of the runs is a theorem, with the two refinements of
`IngestQuota`, that of `QuotaPromise` and that of `Registry`. Only model-checked:
`EventuallySettled` and `StreamsSettle`, which are liveness under fairness, and the
four violations, which are counterexamples. The inductive invariants were
checked with TLC on the instances of the runs before they were proved.

## Not modelled

- Rate limiter: one operation that admits or refuses; the window is in the key. Its
  outcome is a choice in `IngestRoutes`.
- `TailHub.acquire_stream` and `release_stream`: no await between read and write, so
  nothing interleaves. `list_sources` and `list_audit_logs` read one table and
  change nothing.
- The in-memory store's `ingest_log` and attachments: atomic under one lock. Its
  quota check, control plane, filter and order are references.
- Redaction, sizes, codecs, representations, severity names: functions on strings
  and JSON values without state; their outcomes are fields of the inputs.
- The equalities of a search on `trace_id`, `span_id`, `request_id` and `logger`, which both
  stores make on the same strings: one bit of a record. Python's `==` of values of
  two types (1 and `True`): such a filter is blurred whatever it matches.
- The TTL of ClickHouse's `audit_logs`: no operation reads that table (`list_audit_logs`
  reads `audit_events` of Postgres).
- IP allowlist, hashing and formats of secrets; documentation endpoints and texts;
  application wiring; migrations and scripts.

In modelled components, formatting, log wording, field mapping of Docker lines
and the payload of a log are abstracted to what the properties tell apart.

## Plan

What the project could still gain, in this order: one composition of `TailSlots`
with `TailStream`, which today share only the ends of a stream; a proof that the
collector's posts are posts of `IngestRoutes`, whose answers are its environment today;
the refinement of the batch route's answers by what the collector takes them for.
