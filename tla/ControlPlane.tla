---- MODULE ControlPlane ----
(***************************************************************************)
(* PostgresClickHouseStore under concurrent control plane requests and log *)
(* writes (auth.py, routes_control.py, persistent_store.py): a request     *)
(* authenticates with one read, finds its agent with another, makes its    *)
(* checks one read at a time, and only then writes its rows and its audit  *)
(* event in one Postgres transaction, and the event again in ClickHouse.   *)
(* Nothing is locked in between: what was checked may be stale when it is  *)
(* used, and a key may be revoked under a request that it authenticated.   *)
(*                                                                         *)
(* Of ingest_log the resolution of the source, the log's insertion, the    *)
(* audit event and its copy are here; its other steps are in Ingest.       *)
(***************************************************************************)
EXTENDS Tenants

VARIABLES
    pc,             \* pc[r]: the operation r does next, or how it ended
    step,           \* step[r]: the check that r makes next
    resolved,       \* resolved[r]: the source found for a write without one
    dead,           \* requests that raised or whose process died
    chLogs,         \* ClickHouse logs: the source of each log
    audit,          \* Postgres audit_events
    chAudit         \* ClickHouse audit_logs

progress == <<call, expired, dead>>
vars == <<call, tables, expired, pc, step, resolved, dead, chLogs, audit, chAudit>>

Stages == {"agent", "resolve", "check", "insert", "commit", "copy"}

TypeOK ==
    /\ call \in Workloads
    /\ orgs \subseteq Ids
    /\ DOMAIN agents \subseteq Ids /\ agents \in [DOMAIN agents -> Ids]
    /\ DOMAIN projects \subseteq Ids /\ projects \in [DOMAIN projects -> Ids]
    /\ DOMAIN sources \subseteq Ids /\ sources \in [DOMAIN sources -> SourceRows]
    /\ DOMAIN keys \subseteq Ids /\ keys \in [DOMAIN keys -> KeyRows]
    /\ revoked \subseteq DOMAIN keys /\ expired \subseteq DOMAIN keys
    /\ pc \in [Requests -> {"new", "done", "refused"} \union Stages]
    /\ step \in [Requests -> Nat \ {0}]
    /\ resolved \in [Requests -> Ids \union {NoId}]
    /\ dead \subseteq Requests
    /\ DOMAIN chLogs \subseteq Requests /\ chLogs \in [DOMAIN chLogs -> Ids]
    /\ audit \subseteq [request : Requests, org : Ids, key : Ids]
    /\ chAudit \subseteq audit

Init ==
    /\ TablesInit
    /\ pc = [r \in Requests |-> "new"]
    /\ step = [r \in Requests |-> 1]
    /\ resolved = [r \in Requests |-> NoId]
    /\ dead = {}
    /\ chLogs = << >>
    /\ audit = {}
    /\ chAudit = {}

At(r, stage) == pc[r] = stage /\ r \notin dead
Goto(r, stage) == pc' = [pc EXCEPT ![r] = stage]
InFlight(r) == pc[r] \in Stages /\ r \notin dead

Target(r) == IF call[r].source # NoId THEN call[r].source ELSE resolved[r]
ChecksOf(r) == Checks(r, Target(r))

\* The secret of a key is in the answer to its creation and nowhere else.
KeyInHand(k) == k \in DOMAIN SeedKeys \/ (k \in Requests /\ pc[k] = "done")

\* create_org_bootstrap checks nothing but the bootstrap token.
Bootstrap(r) ==
    /\ At(r, "new") /\ call[r].op = "orgs.create"
    /\ Goto(r, "commit")
    /\ UNCHANGED <<progress, tables, step, resolved, chLogs, audit, chAudit>>

\* authenticate, and the tests of authenticate_request on the row.  (The
\* mutant does not look at revoked_at.)
AuthenticateRevoked(r) ==
    /\ At(r, "new") /\ KeyInHand(call[r].key)
    /\ Goto(r, IF call[r].key \in DOMAIN keys \ expired THEN "agent" ELSE "refused")
    /\ UNCHANGED <<progress, tables, step, resolved, chLogs, audit, chAudit>>

Authenticate(r) ==
    /\ At(r, "new") /\ KeyInHand(call[r].key)
    /\ Goto(r, IF Valid(call[r].key) THEN "agent" ELSE "refused")
    /\ UNCHANGED <<progress, tables, step, resolved, chLogs, audit, chAudit>>

\* get_agent, require_auth_scope, require_key_org.
GetAgent(r) ==
    /\ At(r, "agent")
    /\ Goto(r, IF KeyOf(r).agent \notin DOMAIN agents \/ ~Permitted(r) THEN "refused"
               ELSE IF call[r].op = "logs.write" /\ call[r].source = NoId THEN "resolve"
               ELSE "check")
    /\ UNCHANGED <<progress, tables, step, resolved, chLogs, audit, chAudit>>

\* _single_source_for_key: exactly one candidate, or source_required.
Resolve(r) ==
    /\ At(r, "resolve")
    /\ IF \E s \in Candidates(r) : Candidates(r) = {s}
       THEN /\ resolved' = [resolved EXCEPT ![r] = CHOOSE s \in Candidates(r) : TRUE]
            /\ Goto(r, "check")
       ELSE Goto(r, "refused") /\ UNCHANGED resolved
    /\ UNCHANGED <<progress, tables, step, chLogs, audit, chAudit>>

\* One read: _ensure_org_exists, get_agent of the new key, _project_for_key,
\* _source_for_key, or the SELECT of the key to revoke.
Check(r) ==
    LET n == step[r] IN
    /\ At(r, "check")
    /\ step' = [step EXCEPT ![r] = n + 1]
    /\ Goto(r, IF ~Passes(r, ChecksOf(r)[n]) THEN "refused"
               ELSE IF n < Len(ChecksOf(r)) THEN "check"
               ELSE IF call[r].op = "logs.write" THEN "insert" ELSE "commit")
    /\ UNCHANGED <<progress, tables, resolved, chLogs, audit, chAudit>>

\* self.ch.insert("logs", ...).
InsertLog(r) ==
    /\ At(r, "insert")
    /\ chLogs' = With(chLogs, r, Target(r))
    /\ Goto(r, "commit")
    /\ UNCHANGED <<progress, tables, step, resolved, audit, chAudit>>

\* The Postgres transaction: the rows and the audit event together.  (The
\* mutant writes the event later.)
CommitRowsOnly(r) ==
    /\ At(r, "commit")
    /\ WriteRows(r)
    /\ Goto(r, "copy")
    /\ UNCHANGED <<progress, step, resolved, chLogs, audit, chAudit>>

Commit(r) ==
    /\ At(r, "commit")
    /\ WriteRows(r)
    /\ audit' = audit \union {EventOf(r)}
    /\ Goto(r, "copy")
    /\ UNCHANGED <<progress, step, resolved, chLogs, chAudit>>

\* _insert_audit_ch, then the answer.
CopyAudit(r) ==
    /\ At(r, "copy")
    /\ chAudit' = chAudit \union {EventOf(r)}
    /\ Goto(r, "done")
    /\ UNCHANGED <<progress, tables, step, resolved, chLogs, audit>>

\* The operation r is about to do raises.
Fail(r) ==
    /\ InFlight(r)
    /\ dead' = dead \union {r}
    /\ UNCHANGED <<call, tables, expired, pc, step, resolved, chLogs, audit, chAudit>>

\* The API process dies with every request it is handling.
Crash ==
    /\ \E r \in Requests : InFlight(r)
    /\ dead' = dead \union {r \in Requests : InFlight(r)}
    /\ UNCHANGED <<call, tables, expired, pc, step, resolved, chLogs, audit, chAudit>>

\* expires_at passes.
Expire(k) ==
    /\ k \in (DOMAIN keys \intersect MayExpire) \ expired
    /\ expired' = expired \union {k}
    /\ UNCHANGED <<call, tables, pc, step, resolved, dead, chLogs, audit, chAudit>>

Handle(r) ==
    \/ Bootstrap(r) \/ Authenticate(r) \/ GetAgent(r) \/ Resolve(r) \/ Check(r)
    \/ InsertLog(r) \/ Commit(r) \/ CopyAudit(r)

Next ==
    \/ \E r \in Requests : Handle(r) \/ Fail(r)
    \/ Crash
    \/ \E k \in DOMAIN keys : Expire(k)

Spec == Init /\ [][Next]_vars

-----------------------------------------------------------------------------

\* No organisation reaches into another: a source lies in a project of its own
\* org, and a key's agent, projects and sources are of the key's org, whatever
\* was created or revoked between the checks of a call and its rows.
GrantsWithinOrg ==
    /\ \A s \in DOMAIN sources :
         sources[s].project \in DOMAIN projects /\ projects[sources[s].project] = sources[s].org
    /\ \A k \in DOMAIN keys : LET key == keys[k] IN
         /\ key.agent \in DOMAIN agents /\ agents[key.agent] = key.org
         /\ \A p \in key.projects : p \in DOMAIN projects /\ projects[p] = key.org
         /\ \A s \in key.sources : s \in DOMAIN sources /\ sources[s].org = key.org

\* A stored log lies in a source that its key is granted and in the project
\* that the call named, also when the source was the key's only one and others
\* were created before the log was stored.
WritesWithinGrants ==
    \A r \in DOMAIN chLogs : LET s == chLogs[r] IN
        /\ SourceForKey(KeyOf(r), s)
        /\ call[r].source \in {NoId, s} /\ call[r].project \in {NoId, sources[s].project}

\* The requests whose operation has left a row.
Effective == {r \in Requests : \/ r \in orgs \union DOMAIN agents \union DOMAIN projects
                               \/ r \in DOMAIN sources \union DOMAIN keys
                               \/ call[r].op = "api_keys.revoke" /\ pc[r] \in {"copy", "done"}}

\* What changed in Postgres is in its audit log, under the org and the key that
\* changed it: every row with its event, no event without its row, and of an
\* answered request both copies.  A log in ClickHouse is without its event only
\* while its request has the transaction to do, which is for ever when that
\* request failed or died there.
AuditComplete ==
    /\ \A r \in Effective : EventOf(r) \in audit
    /\ \A r \in DOMAIN chLogs : EventOf(r) \in audit \/ pc[r] = "commit"
    /\ \A e \in audit : LET op == call[e.request].op IN
         /\ e = EventOf(e.request)
         /\ op = "logs.write" => e.request \in DOMAIN chLogs
         /\ op = "api_keys.revoke" => call[e.request].target \in revoked
         /\ op \notin {"logs.write", "logs.tail.start"} => e.request \in Effective
    /\ \A r \in Requests : pc[r] = "done" => EventOf(r) \in chAudit

-----------------------------------------------------------------------------

\* Where a request stands in Registry.
Performed == {e.request : e \in audit}
StatusOf(r) ==
    IF r \in Performed THEN "done"
    ELSE IF r \in dead \/ pc[r] = "refused" THEN "left"
    ELSE IF pc[r] = "new" \/ call[r].op = "orgs.create" THEN "new"
    ELSE "admitted"

Promise == INSTANCE Registry WITH
    status <- [r \in Requests |-> StatusOf(r)],
    chosen <- resolved,
    logs <- [r \in DOMAIN chLogs \intersect Performed |-> chLogs[r]]

\* The separate reads and writes are as good as one atomic step: at the
\* transaction every check that was made earlier would still pass.  A log that
\* ClickHouse has and whose transaction is not made, or never will be, is
\* hidden by the mapping: the in-memory store has no such half, and what can be
\* said of it is in AuditComplete and WritesWithinGrants.
KeepsRegistry == Promise!Spec
====
