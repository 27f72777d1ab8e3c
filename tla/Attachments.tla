---- MODULE Attachments ----
(***************************************************************************)
(* Attachments and single logs in PostgresClickHouseStore: add_attachment, *)
(* list_attachments, get_attachment and get_log (persistent_store.py) as   *)
(* their routes call them (routes_logs.py).  An upload writes to three     *)
(* stores one after the other: the object in MinIO, its row with the audit *)
(* event in Postgres, the copy of the event in ClickHouse.  The readers    *)
(* interleave with it, the log may fall to retention at any moment, every  *)
(* operation may raise and the process may die between any two.            *)
(*                                                                         *)
(* An attachment, its object and its content are named by the upload that  *)
(* made them, an audit event by its request.                               *)
(***************************************************************************)
EXTENDS FiniteSets, Functions

CONSTANTS
    Requests, Logs, Keys,
    Readable,       \* <<key, log>> that assert_log_read_allowed lets pass
    Writable,       \* <<key, log>> that assert_log_write_allowed lets pass
    Workloads       \* the calls of the requests: [Requests -> Calls]

\* target is the attachment that a download names, fits whether the content of
\* an upload is base64 and within MAX_ATTACHMENT_BYTES.
Calls == [op : {"add", "list", "download", "read"}, key : Keys, log : Logs,
          target : Requests, fits : BOOLEAN]

ASSUME AttachmentsAssumption ==
    /\ Readable \subseteq Keys \X Logs /\ Writable \subseteq Keys \X Logs
    /\ Workloads \subseteq [Requests -> Calls]

VARIABLES
    call,           \* call[r]: what request r asks for
    pc,             \* pc[r]: the operation r does next, or how it ended
    dead,           \* requests that raised or whose process died
    answer,         \* answer[r]: the attachments read for the answer to r
    known,          \* known[r]: those of its log acknowledged before r began
    logs,           \* ClickHouse: the logs that retention has left
    bucket,         \* MinIO: whether the bucket exists,
    objects,        \* and the objects
    rows,           \* Postgres log_attachments: the log of each attachment
    audit,          \* Postgres audit_events
    chAudit         \* ClickHouse audit_logs

stores == <<logs, bucket, objects, rows, audit, chAudit>>
vars == <<call, pc, dead, answer, known, stores>>

Stages == {"bucket", "make", "put", "commit", "audit", "copy", "row", "object", "rows"}

\* Every variable has its type, no event is in ClickHouse that is not in
\* Postgres, and there are no objects without the bucket.
TypeOK ==
    /\ call \in Workloads
    /\ pc \in [Requests -> {"new", "done", "refused"} \union Stages]
    /\ dead \subseteq Requests
    /\ answer \in [Requests -> SUBSET Requests] /\ known \in [Requests -> SUBSET Requests]
    /\ logs \subseteq Logs
    /\ bucket \in BOOLEAN /\ objects \subseteq Requests /\ (objects # {} => bucket)
    /\ DOMAIN rows \subseteq Requests /\ rows \in [DOMAIN rows -> Logs]
    /\ chAudit \subseteq audit /\ audit \subseteq Requests

Init ==
    /\ call \in Workloads
    /\ pc = [r \in Requests |-> "new"]
    /\ dead = {}
    /\ answer = [r \in Requests |-> {}] /\ known = [r \in Requests |-> {}]
    /\ logs = Logs
    /\ bucket = FALSE /\ objects = {}
    /\ rows = [r \in {} |-> CHOOSE l \in Logs : TRUE]
    /\ audit = {} /\ chAudit = {}

At(r, stage) == pc[r] = stage /\ r \notin dead
Goto(r, stage) == pc' = [pc EXCEPT ![r] = stage]
InFlight(r) == pc[r] \in Stages /\ r \notin dead
Attached(l) == {a \in DOMAIN rows : rows[a] = l}

-----------------------------------------------------------------------------

\* The checks of the route, _get_log_by_id, and the assertion on the key.
Allowed(r) ==
    LET c == call[r] IN
    IF c.op = "add" THEN c.fits /\ <<c.key, c.log>> \in Writable ELSE <<c.key, c.log>> \in Readable
FirstStage(op) ==
    CASE op = "add" -> "bucket" [] op = "download" -> "row" [] op \in {"list", "read"} -> "audit"

FindLog(r) ==
    /\ At(r, "new")
    /\ Goto(r, IF call[r].log \in logs /\ Allowed(r) THEN FirstStage(call[r].op) ELSE "refused")
    /\ known' = [known EXCEPT ![r] = {a \in Attached(call[r].log) : pc[a] = "done"}]
    /\ UNCHANGED <<call, dead, answer, stores>>

\* bucket_exists
LookForBucket(r) ==
    /\ At(r, "bucket")
    /\ Goto(r, IF bucket THEN "put" ELSE "make")
    /\ UNCHANGED <<call, dead, answer, known, stores>>

\* make_bucket, which raises if another upload has made it since.
MakeBucket(r) ==
    /\ At(r, "make")
    /\ IF bucket THEN dead' = dead \union {r} /\ UNCHANGED <<pc, bucket>>
       ELSE bucket' = TRUE /\ Goto(r, "put") /\ UNCHANGED dead
    /\ UNCHANGED <<call, answer, known, logs, objects, rows, audit, chAudit>>

\* put_object.  (Mutant: the upload is not waited for.)
PutUnawaited(r) ==
    /\ At(r, "put")
    /\ Goto(r, "commit")
    /\ UNCHANGED <<call, dead, answer, known, stores>>

Put(r) ==
    /\ At(r, "put")
    /\ objects' = objects \union {r}
    /\ Goto(r, "commit")
    /\ UNCHANGED <<call, dead, answer, known, logs, bucket, rows, audit, chAudit>>

\* The Postgres transaction: the row and the audit event.  (Mutant: without
\* the event.)
WithRow(r) == [a \in DOMAIN rows \union {r} |-> IF a = r THEN call[r].log ELSE rows[a]]

CommitRowOnly(r) ==
    /\ At(r, "commit")
    /\ rows' = WithRow(r)
    /\ Goto(r, "copy")
    /\ UNCHANGED <<call, dead, answer, known, logs, bucket, objects, audit, chAudit>>

Commit(r) ==
    /\ At(r, "commit")
    /\ rows' = WithRow(r) /\ audit' = audit \union {r}
    /\ Goto(r, "copy")
    /\ UNCHANGED <<call, dead, answer, known, logs, bucket, objects, chAudit>>

\* The row of a download: of the attachment and of the log that it names.
\* (Mutant: of the attachment alone.)
FindRowById(r) ==
    /\ At(r, "row")
    /\ Goto(r, IF call[r].target \in DOMAIN rows THEN "object" ELSE "refused")
    /\ UNCHANGED <<call, dead, answer, known, stores>>

FindRow(r) ==
    /\ At(r, "row")
    /\ Goto(r, IF call[r].target \in Attached(call[r].log) THEN "object" ELSE "refused")
    /\ UNCHANGED <<call, dead, answer, known, stores>>

\* get_object raises if there is none.
GetObject(r) ==
    /\ At(r, "object")
    /\ IF call[r].target \in objects
       THEN answer' = [answer EXCEPT ![r] = {call[r].target}] /\ Goto(r, "audit") /\ UNCHANGED dead
       ELSE dead' = dead \union {r} /\ UNCHANGED <<answer, pc>>
    /\ UNCHANGED <<call, known, stores>>

\* record_audit: Postgres, then ClickHouse.
RecordAudit(r) ==
    /\ At(r, "audit")
    /\ audit' = audit \union {r}
    /\ Goto(r, "copy")
    /\ UNCHANGED <<call, dead, answer, known, logs, bucket, objects, rows, chAudit>>

CopyAudit(r) ==
    /\ At(r, "copy")
    /\ chAudit' = chAudit \union {r}
    /\ Goto(r, IF call[r].op = "list" THEN "rows" ELSE "done")
    /\ UNCHANGED <<call, dead, answer, known, logs, bucket, objects, rows, audit>>

\* The rows of a listing, read after its audit event.
ReadRows(r) ==
    /\ At(r, "rows")
    /\ answer' = [answer EXCEPT ![r] = Attached(call[r].log)]
    /\ Goto(r, "done")
    /\ UNCHANGED <<call, dead, known, stores>>

\* Retention drops a log, and nothing with it.  (The TTL of audit_logs is not
\* modelled: chAudit holds what was ever written there.)
ExpireLog(l) ==
    /\ l \in logs
    /\ logs' = logs \ {l}
    /\ UNCHANGED <<call, pc, dead, answer, known, bucket, objects, rows, audit, chAudit>>

\* The operation that r is about to do raises; the process dies.
Fail(r) == InFlight(r) /\ dead' = dead \union {r} /\ UNCHANGED <<call, pc, answer, known, stores>>
Crash ==
    /\ \E r \in Requests : InFlight(r)
    /\ dead' = dead \union {r \in Requests : InFlight(r)}
    /\ UNCHANGED <<call, pc, answer, known, stores>>

Upload(r) == LookForBucket(r) \/ MakeBucket(r) \/ Put(r) \/ Commit(r)
Read(r) == FindRow(r) \/ GetObject(r) \/ RecordAudit(r) \/ ReadRows(r)

Next ==
    \/ \E r \in Requests : FindLog(r) \/ Upload(r) \/ Read(r) \/ CopyAudit(r) \/ Fail(r)
    \/ Crash
    \/ \E l \in Logs : ExpireLog(l)

Spec == Init /\ [][Next]_vars

-----------------------------------------------------------------------------

\* Whatever fails between the stores, an attachment that has a row is whole:
\* its content is stored and its creation audited, with a key that may write
\* to its log; what failed before the transaction has left neither.
AttachmentsWhole ==
    /\ \A a \in DOMAIN rows : /\ a \in objects \intersect audit
                              /\ rows[a] = call[a].log /\ <<call[a].key, rows[a]>> \in Writable
    /\ \A r \in audit : call[r].op = "add" => r \in DOMAIN rows

\* Every answered read was of a log that the caller's key may read, is audited
\* twice, and shows this log's attachments only: a download the one it names,
\* a listing at least those acknowledged before it began.
ReadsTrue ==
    \A r \in Requests : pc[r] = "done" =>
        /\ r \in audit \intersect chAudit
        /\ call[r].op # "add" => /\ <<call[r].key, call[r].log>> \in Readable
                                 /\ answer[r] \subseteq Attached(call[r].log)
        /\ call[r].op = "list" => known[r] \subseteq answer[r]
        /\ call[r].op = "download" => answer[r] = {call[r].target}
====
