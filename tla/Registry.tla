---- MODULE Registry ----
(***************************************************************************)
(* What the control plane promises, as InMemoryStore keeps it (store.py):  *)
(* a request whose key is valid when it arrives is performed in one step,  *)
(* its checks, its rows and its audit event together, or not at all.  A    *)
(* write that names no source goes to the one that was its only candidate  *)
(* at some moment after it arrived.                                        *)
(***************************************************************************)
EXTENDS Tenants

VARIABLES
    status,         \* status[r]: "new", "admitted", "done" or "left"
    chosen,         \* chosen[r]: the source found for a write without one
    logs,           \* the source of each log
    audit           \* audit events

registryVars == <<call, tables, expired, status, chosen, logs, audit>>

Init ==
    /\ TablesInit
    /\ status = [r \in Requests |-> "new"]
    /\ chosen = [r \in Requests |-> NoId]
    /\ logs = << >>
    /\ audit = {}

Become(r, s) == status' = [status EXCEPT ![r] = s]

Admit(r) ==
    /\ status[r] = "new" /\ call[r].op # "orgs.create"
    /\ Valid(call[r].key)
    /\ Become(r, "admitted")
    /\ UNCHANGED <<call, tables, expired, chosen, logs, audit>>

Choose(r) ==
    /\ status[r] = "admitted" /\ call[r].op = "logs.write" /\ call[r].source = NoId
    /\ \E s \in Candidates(r) : Candidates(r) = {s} /\ chosen' = [chosen EXCEPT ![r] = s]
    /\ UNCHANGED <<call, tables, expired, status, logs, audit>>

Perform(r) ==
    LET s == IF call[r].source # NoId THEN call[r].source ELSE chosen[r] IN
    /\ IF call[r].op = "orgs.create" THEN status[r] = "new"
       ELSE status[r] = "admitted" /\ Permitted(r)
    /\ call[r].op = "logs.write" => s # NoId
    /\ \A i \in DOMAIN Checks(r, s) : Passes(r, Checks(r, s)[i])
    /\ WriteRows(r)
    /\ logs' = IF call[r].op = "logs.write" THEN With(logs, r, s) ELSE logs
    /\ audit' = audit \union {EventOf(r)}
    /\ Become(r, "done")
    /\ UNCHANGED <<call, expired, chosen>>

\* Requests are refused, or fail.
Leave ==
    /\ \E S \in SUBSET {r \in Requests : status[r] \in {"new", "admitted"}} :
         status' = [r \in Requests |-> IF r \in S THEN "left" ELSE status[r]]
    /\ UNCHANGED <<call, tables, expired, chosen, logs, audit>>

Expire(k) ==
    /\ k \in (DOMAIN keys \intersect MayExpire) \ expired
    /\ expired' = expired \union {k}
    /\ UNCHANGED <<call, tables, status, chosen, logs, audit>>

Next ==
    \/ \E r \in Requests : Admit(r) \/ Choose(r) \/ Perform(r)
    \/ Leave
    \/ \E k \in DOMAIN keys : Expire(k)

Spec == Init /\ [][Next]_registryVars
====
