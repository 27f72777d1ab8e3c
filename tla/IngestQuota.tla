---- MODULE IngestQuota ----
(***************************************************************************)
(* Ingest with both quotas enabled, composed with the daily counters of    *)
(* DailyQuota: one instance of it per API key and one per project.         *)
(***************************************************************************)
EXTENDS Ingest

ASSUME QuotasEnabled == KeyLimit > 0 /\ ProjectLimit > 0

\* The bytes of a set of requests, counted as DailyQuota counts them.
Bytes(S) == Cardinality({u \in S \X (1..MaxAmount) : u[2] <= call[u[1]].size})

LogsOfKey(k) == {r \in chLogs : call[r].key = k}
LogsOfProject(p) == {r \in chLogs : call[r].project = p}

\* The logs stored for a key and in a project stay within the daily quotas,
\* with both counters shared by racing, failing and refused requests.
StoredWithinQuota ==
    /\ \A k \in Keys : Bytes(LogsOfKey(k)) <= KeyLimit
    /\ \A p \in Projects : Bytes(LogsOfProject(p)) <= ProjectLimit

-----------------------------------------------------------------------------

\* The operations of a request that holds a charge of its key, of its project.
KeyCharged == {"reserveProject", "refundProject", "projectLimited", "insertLog", "commitPg",
               "insertAudit", "publish", "created", "publishRefused"}
ProjectCharged == {"insertLog", "commitPg", "insertAudit", "publish", "created", "publishRefused"}

\* Where a request stands with the quota of its key and of its project, in the
\* stages of DailyQuota, by what it does next.
KeyStageAt(op) ==
    CASE op = "reserveKey" -> "keyed"
      [] op = "refundKey" -> "over"
      [] op = "keyLimited" -> "refused"
      [] op \in KeyCharged -> "granted"
      [] OTHER -> "idle"

ProjectStageAt(op) ==
    CASE op = "reserveProject" -> "keyed"
      [] op = "refundProject" -> "over"
      [] op = "projectLimited" -> "refused"
      [] op \in ProjectCharged -> "granted"
      [] OTHER -> "idle"

KeyStage == [r \in Requests |-> KeyStageAt(pc[r])]
ProjectStage == [r \in Requests |-> ProjectStageAt(pc[r])]

\* The usages of a quota as counters of DailyQuota, all of the same date.
OneDay(owners, usage) == [x \in owners \X {1} |-> usage[x[1]]]
Sizes == [r \in Requests |-> call[r].size]

KeyQuota == INSTANCE DailyQuota WITH
    Callers <- Requests, Owners <- Keys, Limit <- KeyLimit, LastDay <- 1, today <- 1,
    amount <- Sizes, stage <- KeyStage,
    owner <- [r \in Requests |-> call[r].key],
    key <- [r \in Requests |-> <<call[r].key, 1>>],
    counter <- OneDay(Keys, keyUsage)

ProjectQuota == INSTANCE DailyQuota WITH
    Callers <- Requests, Owners <- Projects, Limit <- ProjectLimit, LastDay <- 1, today <- 1,
    amount <- Sizes, stage <- ProjectStage,
    owner <- [r \in Requests |-> call[r].project],
    key <- [r \in Requests |-> <<call[r].project, 1>>],
    counter <- OneDay(Projects, projectUsage)

\* The quota steps of ingest_log are steps of the key counters of DailyQuota,
\* whatever the handler does in between and wherever it fails: a refused
\* request takes back what it claimed, once, from the counter it charged.
KeyQuotaRefined == KeyQuota!Spec

\* The same for the counters of the projects.
ProjectQuotaRefined == ProjectQuota!Spec
====
