---- MODULE Ingest ----
(***************************************************************************)
(* PostgresClickHouseStore.ingest_log (persistent_store.py): concurrent    *)
(* requests that each store one log in ClickHouse, its idempotency row and *)
(* audit event in Postgres, the audit event again in ClickHouse, and then  *)
(* publish the log to the tail backend.  Every backend operation runs in a *)
(* worker thread and is awaited, so requests interleave between any two of *)
(* them; there is no transaction across the stores.                        *)
(*                                                                         *)
(* pc[r] is the operation request r has to do next; the last ones name     *)
(* what the client is answered.  A log is identified with the request that *)
(* created it (ids are fresh uuids), its audit event likewise.  Retries by *)
(* the client are further requests with the same key and idempotency key.  *)
(*                                                                         *)
(* A request fails when a backend call raises (Fail), and all requests of  *)
(* the process fail with it (Crash).  An operation that took effect but    *)
(* whose answer was lost is one that was done, followed by a failure.      *)
(*                                                                         *)
(* ClickHouse removes a log when its timestamp, which the client chooses,  *)
(* is older than the retention (ExpireLog); the Postgres rows stay.        *)
(* chLogs and chAudit are what was ever written to the two tables.         *)
(*                                                                         *)
(* The two Redis quota counters are abstracted to one UTC date; DailyQuota *)
(* has the dates, and IngestQuota shows that the steps here are its steps. *)
(***************************************************************************)
EXTENDS Integers, FiniteSets

CONSTANTS
    Requests,       \* requests, retries included; also the ids of their logs
    Keys,           \* API keys
    Projects,       \* projects
    IdemKeys,       \* idempotency keys clients send
    NoIdem,         \* the request has no idempotency key
    NoLog,          \* no log id
    Writable,       \* <<k, p>>: the grants of key k resolve to a source of p
    MaxAmount,      \* MAX_LOG_BYTES
    Inputs,         \* the calls that clients make
    KeyLimit,       \* MAX_KEY_DAILY_INGEST_BYTES; zero or less disables it
    ProjectLimit    \* MAX_PROJECT_DAILY_INGEST_BYTES; likewise

Calls == [key : Keys, project : Projects, idem : IdemKeys \union {NoIdem},
          severityKnown : BOOLEAN, size : 1..MaxAmount, old : BOOLEAN]

ASSUME IngestAssumption ==
    /\ Inputs \subseteq Calls
    /\ NoIdem \notin IdemKeys
    /\ NoLog \notin Requests
    /\ IsFiniteSet(Requests)
    /\ Writable \subseteq Keys \X Projects
    /\ MaxAmount \in Nat \ {0}
    /\ KeyLimit \in Int
    /\ ProjectLimit \in Int

VARIABLES
    call,           \* call[r]: what request r asks for
    pc,             \* pc[r]: the operation r does next, or its answer
    found,          \* found[r]: the id the idempotency lookup returned
    dead,           \* requests that raised or whose process died
    keyUsage,       \* Redis: bytes counted today against each key
    projectUsage,   \* Redis: bytes counted today against each project
    chLogs,         \* ClickHouse table logs: every log inserted
    expired,        \* those the table's TTL has removed
    idempotency,    \* Postgres idempotency_keys: (key, idempotency key) -> log
    pgAudit,        \* Postgres audit_events: logs with a logs.write event
    chAudit,        \* ClickHouse table audit_logs: every event inserted
    published       \* logs handed to the tail backend

quotas == <<keyUsage, projectUsage>>
stores == <<chLogs, expired, idempotency, pgAudit, chAudit, published>>
vars == <<call, pc, found, dead, quotas, stores>>

Answers == {"created", "replayed", "missing", "rejected", "keyLimited", "projectLimited",
            "publishRefused"}
Operations == {"lookup", "fetch", "resolve", "reserveKey", "refundKey", "reserveProject",
               "refundProject", "insertLog", "commitPg", "insertAudit", "publish"}

\* Every variable has its type: no operation but those of ingest_log, no row
\* or event but of a request.
TypeOK ==
    /\ call \in [Requests -> Inputs]
    /\ pc \in [Requests -> {"new"} \union Operations \union Answers]
    /\ found \in [Requests -> Requests \union {NoLog}]
    /\ dead \subseteq Requests
    /\ keyUsage \in [Keys -> Int]
    /\ projectUsage \in [Projects -> Int]
    /\ chLogs \subseteq Requests
    /\ expired \subseteq Requests
    /\ idempotency \in [Keys \X IdemKeys -> Requests \union {NoLog}]
    /\ pgAudit \subseteq Requests
    /\ chAudit \subseteq Requests
    /\ published \subseteq Requests

Init ==
    /\ call \in [Requests -> Inputs]
    /\ pc = [r \in Requests |-> "new"]
    /\ found = [r \in Requests |-> NoLog]
    /\ dead = {}
    /\ keyUsage = [k \in Keys |-> 0]
    /\ projectUsage = [p \in Projects |-> 0]
    /\ chLogs = {}
    /\ expired = {}
    /\ idempotency = [x \in Keys \X IdemKeys |-> NoLog]
    /\ pgAudit = {}
    /\ chAudit = {}
    /\ published = {}

-----------------------------------------------------------------------------

InFlight(r) == pc[r] \in Operations /\ r \notin dead

\* Request r is alive and about to do operation op; it goes on with another.
At(r, op) == pc[r] = op /\ r \notin dead
Goto(r, op) == pc' = [pc EXCEPT ![r] = op]

\* The row of idempotency_keys that the call of r is about.
Row(r) == <<call[r].key, call[r].idem>>

\* idem = idempotency_key or log.idempotency_key.  (The mutant looks only at
\* the batch's key.)
ReceiveIgnoresBodyKey(r) ==
    /\ At(r, "new")
    /\ Goto(r, "resolve")
    /\ UNCHANGED <<call, found, dead, quotas, stores>>

Receive(r) ==
    /\ At(r, "new")
    /\ Goto(r, IF call[r].idem # NoIdem THEN "lookup" ELSE "resolve")
    /\ UNCHANGED <<call, found, dead, quotas, stores>>

\* SELECT log_id FROM idempotency_keys WHERE api_key_id and idempotency_key.
\* (The mutant forgets api_key_id.)
LookupAnyKey(r) ==
    /\ At(r, "lookup")
    /\ \E k \in Keys :
         LET row == idempotency[<<k, call[r].idem>>] IN
         /\ found' = [found EXCEPT ![r] = row]
         /\ Goto(r, IF row # NoLog THEN "fetch" ELSE "resolve")
    /\ UNCHANGED <<call, dead, quotas, stores>>

Lookup(r) ==
    LET row == idempotency[Row(r)] IN
    /\ At(r, "lookup")
    /\ found' = [found EXCEPT ![r] = row]
    /\ Goto(r, IF row # NoLog THEN "fetch" ELSE "resolve")
    /\ UNCHANGED <<call, dead, quotas, stores>>

\* _get_log_by_id(existing): the stored log, or 404 when ClickHouse has none.
Fetch(r) ==
    /\ At(r, "fetch")
    /\ Goto(r, IF found[r] \in chLogs \ expired THEN "replayed" ELSE "missing")
    /\ UNCHANGED <<call, found, dead, quotas, stores>>

\* _resolve_project_source, then normalize_severity: only reads.
Resolve(r) ==
    /\ At(r, "resolve")
    /\ Goto(r, IF <<call[r].key, call[r].project>> \in Writable /\ call[r].severityKnown
               THEN "reserveKey" ELSE "rejected")
    /\ UNCHANGED <<call, found, dead, quotas, stores>>

\* What a call counts against a quota: nothing when the quota is disabled.
Claim(r, limit) == IF limit > 0 THEN call[r].size ELSE 0

\* _reserve_key_ingest_quota: INCRBY, and the new value decides.
ReserveKey(r) ==
    LET k == call[r].key
        value == keyUsage[k] + Claim(r, KeyLimit)
    IN
    /\ At(r, "reserveKey")
    /\ keyUsage' = [keyUsage EXCEPT ![k] = value]
    /\ Goto(r, IF KeyLimit > 0 /\ value > KeyLimit THEN "refundKey" ELSE "reserveProject")
    /\ UNCHANGED <<call, found, dead, projectUsage, stores>>

\* DECRBY, then rate_limited is raised.  (The mutant refunds nothing.)
RefundKeyNothing(r) ==
    /\ At(r, "refundKey")
    /\ Goto(r, "keyLimited")
    /\ UNCHANGED <<call, found, dead, quotas, stores>>

RefundKey(r) ==
    /\ At(r, "refundKey")
    /\ keyUsage' = [keyUsage EXCEPT ![call[r].key] = @ - call[r].size]
    /\ Goto(r, "keyLimited")
    /\ UNCHANGED <<call, found, dead, projectUsage, stores>>

\* _reserve_project_ingest_quota.  (The mutant decides on the value it read
\* before its INCRBY.)
ReserveProjectByStaleValue(r) ==
    LET p == call[r].project IN
    /\ At(r, "reserveProject")
    /\ projectUsage' = [projectUsage EXCEPT ![p] = @ + call[r].size]
    /\ Goto(r, IF projectUsage[p] > ProjectLimit THEN "refundProject" ELSE "insertLog")
    /\ UNCHANGED <<call, found, dead, keyUsage, stores>>

ReserveProject(r) ==
    LET p == call[r].project
        value == projectUsage[p] + Claim(r, ProjectLimit)
    IN
    /\ At(r, "reserveProject")
    /\ projectUsage' = [projectUsage EXCEPT ![p] = value]
    /\ Goto(r, IF ProjectLimit > 0 /\ value > ProjectLimit THEN "refundProject" ELSE "insertLog")
    /\ UNCHANGED <<call, found, dead, keyUsage, stores>>

\* The project's charge is put back; the key's charge stays.  (The mutant
\* puts back the wrong counter.)
RefundProjectToKey(r) ==
    /\ At(r, "refundProject")
    /\ keyUsage' = [keyUsage EXCEPT ![call[r].key] = @ - call[r].size]
    /\ Goto(r, "projectLimited")
    /\ UNCHANGED <<call, found, dead, projectUsage, stores>>

RefundProject(r) ==
    /\ At(r, "refundProject")
    /\ projectUsage' = [projectUsage EXCEPT ![call[r].project] = @ - call[r].size]
    /\ Goto(r, "projectLimited")
    /\ UNCHANGED <<call, found, dead, keyUsage, stores>>

\* self.ch.insert("logs", ...): the first half of op().  (The mutant does not
\* wait for it, so that it may be lost.)
InsertLogUnawaited(r) ==
    /\ At(r, "insertLog")
    /\ chLogs' \in {chLogs, chLogs \union {r}}
    /\ Goto(r, "commitPg")
    /\ UNCHANGED <<call, found, dead, quotas, expired, idempotency, pgAudit, chAudit, published>>

InsertLog(r) ==
    /\ At(r, "insertLog")
    /\ chLogs' = chLogs \union {r}
    /\ Goto(r, "commitPg")
    /\ UNCHANGED <<call, found, dead, quotas, expired, idempotency, pgAudit, chAudit, published>>

\* The Postgres transaction of op(): INSERT INTO idempotency_keys ... ON
\* CONFLICT DO NOTHING, and the audit event.  (The mutants are DO
\* UPDATE, a conflict that skips the audit event, and an audit_logs copy left
\* to later.)
CommitPgUpdates(r) ==
    /\ At(r, "commitPg")
    /\ idempotency' = IF call[r].idem # NoIdem
                      THEN [idempotency EXCEPT ![Row(r)] = r] ELSE idempotency
    /\ pgAudit' = pgAudit \union {r}
    /\ Goto(r, "insertAudit")
    /\ UNCHANGED <<call, found, dead, quotas, chLogs, expired, chAudit, published>>

CommitPgSkipsAudit(r) ==
    LET mapped == call[r].idem # NoIdem /\ idempotency[Row(r)] # NoLog IN
    /\ At(r, "commitPg")
    /\ idempotency' = IF call[r].idem # NoIdem /\ ~mapped
                      THEN [idempotency EXCEPT ![Row(r)] = r] ELSE idempotency
    /\ pgAudit' = IF mapped THEN pgAudit ELSE pgAudit \union {r}
    /\ Goto(r, "insertAudit")
    /\ UNCHANGED <<call, found, dead, quotas, chLogs, expired, chAudit, published>>

CommitPgThenPublish(r) ==
    /\ At(r, "commitPg")
    /\ idempotency' = IF call[r].idem # NoIdem /\ idempotency[Row(r)] = NoLog
                      THEN [idempotency EXCEPT ![Row(r)] = r] ELSE idempotency
    /\ pgAudit' = pgAudit \union {r}
    /\ Goto(r, "publish")
    /\ UNCHANGED <<call, found, dead, quotas, chLogs, expired, chAudit, published>>

CommitPg(r) ==
    /\ At(r, "commitPg")
    /\ idempotency' = IF call[r].idem # NoIdem /\ idempotency[Row(r)] = NoLog
                      THEN [idempotency EXCEPT ![Row(r)] = r] ELSE idempotency
    /\ pgAudit' = pgAudit \union {r}
    /\ Goto(r, "insertAudit")
    /\ UNCHANGED <<call, found, dead, quotas, chLogs, expired, chAudit, published>>

\* _insert_audit_ch.  (The mutant names the log that the lookup found.)
InsertAuditOfFound(r) ==
    /\ At(r, "insertAudit")
    /\ chAudit' = chAudit \union {found[r]}
    /\ Goto(r, "publish")
    /\ UNCHANGED <<call, found, dead, quotas, chLogs, expired, idempotency, pgAudit, published>>

InsertAudit(r) ==
    /\ At(r, "insertAudit")
    /\ chAudit' = chAudit \union {r}
    /\ Goto(r, "publish")
    /\ UNCHANGED <<call, found, dead, quotas, chLogs, expired, idempotency, pgAudit, published>>

\* _publish, then the new record is the answer.
Publish(r) ==
    /\ At(r, "publish")
    /\ published' = published \union {r}
    /\ Goto(r, "created")
    /\ UNCHANGED <<call, found, dead, quotas, chLogs, expired, idempotency, pgAudit, chAudit>>

\* TailHub.publish normalises the severities that each subscriber asked for,
\* which nobody did when the stream was opened: an unsupported one raises an
\* APIError here, after some subscribers may have got the record.
PublishRaises(r) ==
    /\ At(r, "publish")
    /\ published' \in {published, published \union {r}}
    /\ Goto(r, "publishRefused")
    /\ UNCHANGED <<call, found, dead, quotas, chLogs, expired, idempotency, pgAudit, chAudit>>

\* The operation r is about to do raises: the exception ends the request.
Fail(r) ==
    /\ InFlight(r)
    /\ dead' = dead \union {r}
    /\ UNCHANGED <<call, pc, found, quotas, stores>>

\* The API process dies with every request it is handling.
Crash ==
    /\ \E r \in Requests : InFlight(r)
    /\ dead' = dead \union {r \in Requests : InFlight(r)}
    /\ UNCHANGED <<call, pc, found, quotas, stores>>

\* TTL timestamp + INTERVAL log_retention_days DAY on the table logs.  The TTL
\* of audit_logs is not modelled: no operation here reads that table, and
\* chAudit holds what was ever written to it.
ExpireLog(l) ==
    /\ l \in chLogs \ expired
    /\ call[l].old
    /\ expired' = expired \union {l}
    /\ UNCHANGED <<call, pc, found, dead, quotas, chLogs, idempotency, pgAudit, chAudit, published>>

Step(r) ==
    \/ Receive(r) \/ Lookup(r) \/ Fetch(r) \/ Resolve(r)
    \/ ReserveKey(r) \/ RefundKey(r) \/ ReserveProject(r) \/ RefundProject(r)
    \/ InsertLog(r) \/ CommitPg(r) \/ InsertAudit(r) \/ Publish(r)
    \/ PublishRaises(r)

Next == (\E r \in Requests : Step(r) \/ Fail(r) \/ ExpireLog(r)) \/ Crash

Spec == Init /\ [][Next]_vars

-----------------------------------------------------------------------------

\* An idempotency row is written after its log: whatever fails or crashes, a
\* mapped id names a log that is in ClickHouse, is audited, and was created
\* by a call with that very key and idempotency key.
MappedLogStored ==
    \A x \in Keys \X IdemKeys :
        idempotency[x] # NoLog =>
            /\ idempotency[x] \in chLogs \intersect pgAudit
            /\ Row(idempotency[x]) = x

\* A retry that hits is answered with a stored log of its own API key and
\* idempotency key, never with another caller's log, and with 404 only when
\* that log has outlived the retention.
ReplayIsOwn ==
    \A r \in Requests :
        pc[r] \in {"replayed", "missing"} =>
            /\ found[r] \in chLogs /\ Row(found[r]) = Row(r)
            /\ pc[r] = "missing" => found[r] \in expired

\* The four copies are written in one order.  After any failure or crash a
\* published log is audited in both stores, an event in ClickHouse is also in
\* Postgres, and no event speaks of a log that was never stored.
AuditTrailOrdered ==
    published \subseteq chAudit /\ chAudit \subseteq pgAudit /\ pgAudit \subseteq chLogs

\* The logs that an answer of 200 was about: those created, and those a retry
\* was answered with.
Acknowledged ==
    {r \in Requests : pc[r] = "created"}
        \union {found[r] : r \in {s \in Requests : pc[s] = "replayed"}}

\* A log that a 200 was about, of its creation or of a replay, was stored and
\* is audited in Postgres, a later call with its idempotency key finds a row,
\* and only a log with a timestamp older than the retention is dropped.  Its
\* audit copy in ClickHouse or its publication can be missing, but only while
\* the request that created it has that very step to do, and for ever when
\* that request failed or died there: a replay does not repair it.  The
\* publication can also have been refused.
AcknowledgedEverywhere ==
    \A l \in Acknowledged :
        /\ l \in chLogs \intersect pgAudit
        /\ l \in expired => call[l].old
        /\ call[l].idem # NoIdem => idempotency[Row(l)] # NoLog
        /\ l \notin chAudit => pc[l] = "insertAudit"
        /\ l \notin published => pc[l] \in {"insertAudit", "publish", "publishRefused"}

\* Once a row maps an idempotency key to a log it does so for ever: every retry
\* gets the same id, also when two requests raced for the row.
MappingStable ==
    [][\A x \in Keys \X IdemKeys :
         idempotency[x] # NoLog => idempotency'[x] = idempotency[x]]_vars

\* What plan/05-log-ingestion-prd.md promises of an idempotency key, "safe
\* retries": no two logs are stored for one.  The code does not keep it.
OneLogPerIdempotencyKey ==
    \A r, s \in chLogs : Row(r) = Row(s) /\ call[r].idem # NoIdem => r = s
====
