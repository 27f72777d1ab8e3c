---- MODULE Ingest_proof ----
(***************************************************************************)
(* Ingestion for any sets of requests, keys, posts and batches, in three   *)
(* parts: the handler of one log (Ingest), its quotas (IngestQuota), and   *)
(* the two routes that call it (IngestRoutes).  Each part begins with its  *)
(* argument, and uses the theorems of those before it.                     *)
(***************************************************************************)
EXTENDS IngestRoutes, TLAPS

-----------------------------------------------------------------------------
(***************************************************************************)
(* For any sets of requests, keys and idempotency keys: type correctness   *)
(* of Ingest, the order of its writes across the stores, and what holds of *)
(* idempotency rows, replays and acknowledged requests after any failures. *)
(*                                                                         *)
(* None of the properties is inductive alone.  WriteOrder strengthens them *)
(* with what each value of pc says about the writes already done, and      *)
(* LookupsSound with what the id carried from the lookup to the fetch is   *)
(* worth when it is used: the row may have been read long before, so the   *)
(* stability of rows and logs is what keeps it good.                       *)
(***************************************************************************)

\* What a call is made of; the row of a call with an idempotency key is a row.
LEMMA CallTyped ==
    ASSUME TypeOK, NEW r \in Requests
    PROVE  /\ call[r] \in Calls
           /\ call[r].key \in Keys /\ call[r].project \in Projects
           /\ call[r].idem \in IdemKeys \union {NoIdem}
           /\ call[r].size \in Nat \ {0}
           /\ call[r].idem # NoIdem => Row(r) \in Keys \X IdemKeys
<1>1. call[r] \in Calls
  BY IngestAssumption DEF TypeOK
<1> QED
  BY <1>1, IngestAssumption DEF Calls, Row

\* Only requests with an idempotency key look it up.
LookupKeyed == \A r \in Requests : pc[r] = "lookup" => call[r].idem # NoIdem

\* What r has already written, by what it does next, and back.
WriteOrder ==
    \A r \in Requests :
        /\ pc[r] \in {"commitPg", "insertAudit", "publish", "created", "publishRefused"} =>
               r \in chLogs
        /\ pc[r] \in {"insertAudit", "publish", "created", "publishRefused"} =>
               r \in pgAudit /\ (call[r].idem # NoIdem => idempotency[Row(r)] # NoLog)
        /\ pc[r] \in {"publish", "created", "publishRefused"} => r \in chAudit
        /\ pc[r] = "created" => r \in published
        /\ r \in pgAudit => pc[r] \in {"insertAudit", "publish", "created", "publishRefused"}
        /\ r \in expired => call[r].old

\* The id that r took from its row is still good when it is used.
LookupsSound ==
    \A r \in Requests :
        /\ pc[r] \in {"fetch", "replayed", "missing"} =>
               /\ found[r] \in chLogs \intersect pgAudit
               /\ Row(found[r]) = Row(r)
               /\ call[r].idem # NoIdem
               /\ idempotency[Row(r)] # NoLog
        /\ pc[r] = "missing" => found[r] \in expired

\* The inductive invariant.
IngestInv == TypeOK /\ LookupKeyed /\ WriteOrder /\ MappedLogStored /\ AuditTrailOrdered
             /\ LookupsSound

LEMMA TypeInit == Init => TypeOK
BY IngestAssumption DEF Init, TypeOK, Operations, Answers

LEMMA TypeStep == TypeOK /\ LookupKeyed /\ [Next]_vars => TypeOK'
<1> SUFFICES ASSUME TypeOK, LookupKeyed, [Next]_vars PROVE TypeOK'
  OBVIOUS
<1> USE IngestAssumption
        DEF TypeOK, Operations, Answers, At, Goto, quotas, stores
<1>1. ASSUME NEW r \in Requests, Receive(r) PROVE TypeOK'
  BY <1>1 DEF Receive
<1>2. ASSUME NEW r \in Requests, Lookup(r) PROVE TypeOK'
  BY <1>2, CallTyped DEF Lookup, LookupKeyed
<1>3. ASSUME NEW r \in Requests, Fetch(r) PROVE TypeOK'
  BY <1>3 DEF Fetch
<1>4. ASSUME NEW r \in Requests, Resolve(r) PROVE TypeOK'
  BY <1>4 DEF Resolve
<1>5. ASSUME NEW r \in Requests, ReserveKey(r) PROVE TypeOK'
  BY <1>5, CallTyped DEF ReserveKey, Claim
<1>6. ASSUME NEW r \in Requests, RefundKey(r) PROVE TypeOK'
  BY <1>6, CallTyped DEF RefundKey
<1>7. ASSUME NEW r \in Requests, ReserveProject(r) PROVE TypeOK'
  BY <1>7, CallTyped DEF ReserveProject, Claim
<1>8. ASSUME NEW r \in Requests, RefundProject(r) PROVE TypeOK'
  BY <1>8, CallTyped DEF RefundProject
<1>9. ASSUME NEW r \in Requests, InsertLog(r) PROVE TypeOK'
  BY <1>9 DEF InsertLog
<1>10. ASSUME NEW r \in Requests, CommitPg(r) PROVE TypeOK'
  BY <1>10, CallTyped DEF CommitPg
<1>11. ASSUME NEW r \in Requests, InsertAudit(r) PROVE TypeOK'
  BY <1>11 DEF InsertAudit
<1>12. ASSUME NEW r \in Requests, Publish(r) PROVE TypeOK'
  BY <1>12 DEF Publish
<1>16. ASSUME NEW r \in Requests, PublishRaises(r) PROVE TypeOK'
  BY <1>16 DEF PublishRaises
<1>17. ASSUME NEW l \in Requests, ExpireLog(l) PROVE TypeOK'
  BY <1>17 DEF ExpireLog
<1>13. ASSUME NEW r \in Requests, Fail(r) PROVE TypeOK'
  BY <1>13 DEF Fail
<1>14. CASE Crash
  BY <1>14 DEF Crash
<1>15. CASE UNCHANGED vars
  BY <1>15 DEF vars
<1> QED
  BY <1>1, <1>2, <1>3, <1>4, <1>5, <1>6, <1>7, <1>8, <1>9, <1>10, <1>11, <1>12, <1>13,
     <1>14, <1>15, <1>16, <1>17 DEF Next, Step

LEMMA LookupKeyedStep == TypeOK /\ LookupKeyed /\ [Next]_vars => LookupKeyed'
<1> SUFFICES ASSUME TypeOK, LookupKeyed, [Next]_vars PROVE LookupKeyed'
  OBVIOUS
<1> USE DEF TypeOK, LookupKeyed, At, Goto
<1>1. ASSUME NEW r \in Requests, Receive(r) PROVE LookupKeyed'
  BY <1>1 DEF Receive
<1>2. ASSUME NEW r \in Requests, Step(r) \/ Fail(r) \/ ExpireLog(r), ~Receive(r)
      PROVE  LookupKeyed'
  BY <1>2 DEF Step, Fail, ExpireLog, PublishRaises, Lookup, Fetch, Resolve, ReserveKey, RefundKey, ReserveProject,
              RefundProject, InsertLog, CommitPg, InsertAudit, Publish
<1>3. CASE Crash \/ UNCHANGED vars
  BY <1>3 DEF Crash, vars
<1> QED
  BY <1>1, <1>2, <1>3 DEF Next

\* The type invariant: the tables hold only logs of requests, rows map to a
\* log or to nothing, and the quota counters stay integers.
THEOREM TypeCorrect == Spec => []TypeOK
<1>1. Init => LookupKeyed
  BY DEF Init, LookupKeyed
<1> QED
  BY <1>1, TypeInit, TypeStep, LookupKeyedStep, PTL DEF Spec
-----------------------------------------------------------------------------

LEMMA IngestInit == Init => IngestInv
<1> SUFFICES ASSUME Init PROVE IngestInv
  OBVIOUS
<1>1. TypeOK
  BY TypeInit
<1>2. LookupKeyed /\ WriteOrder /\ LookupsSound
  BY DEF Init, LookupKeyed, WriteOrder, LookupsSound
<1>3. MappedLogStored /\ AuditTrailOrdered
  BY DEF Init, MappedLogStored, AuditTrailOrdered
<1> QED
  BY <1>1, <1>2, <1>3 DEF IngestInv

\* The steps that write no store: what holds of the stores goes on holding,
\* and only the request that moved needs looking at.
LEMMA QuietStep ==
    ASSUME IngestInv, [Next]_vars, UNCHANGED <<call, stores>>, WriteOrder', LookupsSound'
    PROVE  IngestInv'
<1>1. TypeOK' /\ LookupKeyed'
  BY TypeStep, LookupKeyedStep DEF IngestInv
<1>2. MappedLogStored' /\ AuditTrailOrdered'
  BY DEF IngestInv, MappedLogStored, AuditTrailOrdered, Row, stores
<1> QED
  BY <1>1, <1>2 DEF IngestInv

LEMMA IngestStep == IngestInv /\ [Next]_vars => IngestInv'
<1> SUFFICES ASSUME IngestInv, [Next]_vars PROVE IngestInv'
  OBVIOUS
<1>0. TypeOK /\ TypeOK' /\ LookupKeyed' /\ WriteOrder /\ LookupsSound /\ MappedLogStored
  BY TypeStep, LookupKeyedStep DEF IngestInv
<1>a. \A r \in Requests : UNCHANGED call => Row(r)' = Row(r)
  BY DEF Row
<1>b. \A r \in Requests : call[r].idem # NoIdem => Row(r) \in Keys \X IdemKeys
  BY <1>0, CallTyped
<1> USE DEF At, Goto
<1>1. ASSUME NEW r \in Requests, Receive(r) PROVE IngestInv'
  <2>1. UNCHANGED <<call, stores>>
    BY <1>1 DEF Receive, stores
  <2>2. WriteOrder'
    BY <1>0, <1>1, <2>1, <1>a DEF Receive, TypeOK, WriteOrder, stores
  <2>3. LookupsSound'
    BY <1>0, <1>1, <2>1, <1>a DEF Receive, TypeOK, LookupsSound, stores
  <2> QED
    BY <2>1, <2>2, <2>3, QuietStep
<1>2. ASSUME NEW r \in Requests, Fetch(r) PROVE IngestInv'
  <2>1. UNCHANGED <<call, stores>>
    BY <1>2 DEF Fetch, stores
  <2>2. WriteOrder'
    BY <1>0, <1>2, <2>1, <1>a DEF Fetch, TypeOK, WriteOrder, stores
  <2>3. LookupsSound'
    BY <1>0, <1>2, <2>1, <1>a DEF Fetch, TypeOK, LookupsSound, stores
  <2> QED
    BY <2>1, <2>2, <2>3, QuietStep
<1>3. ASSUME NEW r \in Requests, Resolve(r) PROVE IngestInv'
  <2>1. UNCHANGED <<call, stores>>
    BY <1>3 DEF Resolve, stores
  <2>2. WriteOrder'
    BY <1>0, <1>3, <2>1, <1>a DEF Resolve, TypeOK, WriteOrder, stores
  <2>3. LookupsSound'
    BY <1>0, <1>3, <2>1, <1>a DEF Resolve, TypeOK, LookupsSound, stores
  <2> QED
    BY <2>1, <2>2, <2>3, QuietStep
<1>4. ASSUME NEW r \in Requests, ReserveKey(r) PROVE IngestInv'
  <2>1. UNCHANGED <<call, stores>>
    BY <1>4 DEF ReserveKey, stores
  <2>2. WriteOrder'
    BY <1>0, <1>4, <2>1, <1>a DEF ReserveKey, TypeOK, WriteOrder, stores
  <2>3. LookupsSound'
    BY <1>0, <1>4, <2>1, <1>a DEF ReserveKey, TypeOK, LookupsSound, stores
  <2> QED
    BY <2>1, <2>2, <2>3, QuietStep
<1>5. ASSUME NEW r \in Requests, RefundKey(r) PROVE IngestInv'
  <2>1. UNCHANGED <<call, stores>>
    BY <1>5 DEF RefundKey, stores
  <2>2. WriteOrder'
    BY <1>0, <1>5, <2>1, <1>a DEF RefundKey, TypeOK, WriteOrder, stores
  <2>3. LookupsSound'
    BY <1>0, <1>5, <2>1, <1>a DEF RefundKey, TypeOK, LookupsSound, stores
  <2> QED
    BY <2>1, <2>2, <2>3, QuietStep
<1>6. ASSUME NEW r \in Requests, ReserveProject(r) PROVE IngestInv'
  <2>1. UNCHANGED <<call, stores>>
    BY <1>6 DEF ReserveProject, stores
  <2>2. WriteOrder'
    BY <1>0, <1>6, <2>1, <1>a DEF ReserveProject, TypeOK, WriteOrder, stores
  <2>3. LookupsSound'
    BY <1>0, <1>6, <2>1, <1>a DEF ReserveProject, TypeOK, LookupsSound, stores
  <2> QED
    BY <2>1, <2>2, <2>3, QuietStep
<1>7. ASSUME NEW r \in Requests, RefundProject(r) PROVE IngestInv'
  <2>1. UNCHANGED <<call, stores>>
    BY <1>7 DEF RefundProject, stores
  <2>2. WriteOrder'
    BY <1>0, <1>7, <2>1, <1>a DEF RefundProject, TypeOK, WriteOrder, stores
  <2>3. LookupsSound'
    BY <1>0, <1>7, <2>1, <1>a DEF RefundProject, TypeOK, LookupsSound, stores
  <2> QED
    BY <2>1, <2>2, <2>3, QuietStep
<1>8. ASSUME NEW r \in Requests, Lookup(r) PROVE IngestInv'
  <2>1. UNCHANGED <<call, stores>>
    BY <1>8 DEF Lookup, stores
  <2>2. WriteOrder'
    BY <1>0, <1>8, <2>1, <1>a DEF Lookup, TypeOK, WriteOrder, stores
  <2>3. idempotency[Row(r)] # NoLog =>
            /\ idempotency[Row(r)] \in chLogs \intersect pgAudit
            /\ Row(idempotency[Row(r)]) = Row(r)
    BY <1>0, <1>8, <1>b DEF Lookup, LookupKeyed, IngestInv, MappedLogStored
  <2>4. \A l \in Requests : Row(l)' = Row(l)
    BY <1>a, <2>1
  <2>5. LookupsSound'
    <3>1. /\ found'[r] = idempotency[Row(r)]
          /\ call[r].idem # NoIdem
      BY <1>0, <1>8 DEF Lookup, LookupKeyed, IngestInv, TypeOK
    <3>5. /\ pc'[r] \in {"fetch", "resolve"}
          /\ pc'[r] = "fetch" => idempotency[Row(r)] # NoLog
      <4> DEFINE row == idempotency[Row(r)]
      <4>1. pc' = [pc EXCEPT ![r] = IF row # NoLog THEN "fetch" ELSE "resolve"]
        BY <1>8 DEF Lookup
      <4> HIDE DEF row
      <4>2. pc'[r] = IF row # NoLog THEN "fetch" ELSE "resolve"
        BY <1>0, <4>1 DEF TypeOK
      <4>3. CASE row = NoLog
        BY <4>2, <4>3
      <4>4. CASE row # NoLog
        BY <4>2, <4>4 DEF row
      <4> QED
        BY <4>3, <4>4
    <3>2. \A s \in Requests \ {r} : pc'[s] = pc[s] /\ found'[s] = found[s]
      BY <1>0, <1>8 DEF Lookup, TypeOK
    <3>3. UNCHANGED <<call, chLogs, pgAudit, idempotency, expired>>
      BY <2>1 DEF stores
    <3>4. \A l \in chLogs : l \in Requests
      BY <1>0 DEF TypeOK
    <3> QED
      BY <1>0, <2>3, <2>4, <3>1, <3>2, <3>3, <3>4, <3>5 DEF LookupsSound
  <2> QED
    BY <2>1, <2>2, <2>5, QuietStep
<1>9. ASSUME NEW r \in Requests, InsertLog(r) PROVE IngestInv'
  <2>1. \A l \in Requests : Row(l)' = Row(l)
    BY <1>a, <1>9 DEF InsertLog
  <2>2. WriteOrder'
    BY <1>0, <1>b, <1>9, <2>1 DEF InsertLog, TypeOK, WriteOrder
  <2>3. LookupsSound'
    BY <1>0, <1>9, <2>1 DEF InsertLog, TypeOK, LookupsSound
  <2>4. MappedLogStored'
    BY <1>0, <1>b, <1>9, <2>1 DEF InsertLog, TypeOK, WriteOrder, MappedLogStored
  <2>5. AuditTrailOrdered'
    BY <1>0, <1>9 DEF InsertLog, TypeOK, WriteOrder, AuditTrailOrdered, IngestInv
  <2> QED
    BY <1>0, <2>2, <2>3, <2>4, <2>5 DEF IngestInv
<1>10. ASSUME NEW r \in Requests, CommitPg(r) PROVE IngestInv'
  <2>1. \A l \in Requests : Row(l)' = Row(l)
    BY <1>a, <1>10 DEF CommitPg
  <2>2. WriteOrder'
    <3>1. \A l \in Requests : call[l].idem # NoIdem /\ idempotency[Row(l)] # NoLog
                              => idempotency'[Row(l)] # NoLog
      BY <1>0, <1>b, <1>10, IngestAssumption DEF CommitPg, TypeOK
    <3>2. call[r].idem # NoIdem => idempotency'[Row(r)] # NoLog
      BY <1>0, <1>b, <1>10, IngestAssumption DEF CommitPg, TypeOK
    <3> QED
      BY <1>0, <1>10, <2>1, <3>1, <3>2 DEF CommitPg, TypeOK, WriteOrder
  <2>3. LookupsSound'
    BY <1>0, <1>10, <2>1 DEF CommitPg, TypeOK, LookupsSound
  <2>4. MappedLogStored'
    BY <1>0, <1>b, <1>10, <2>1 DEF CommitPg, TypeOK, WriteOrder, MappedLogStored
  <2>5. AuditTrailOrdered'
    BY <1>0, <1>10 DEF CommitPg, TypeOK, WriteOrder, AuditTrailOrdered, IngestInv
  <2> QED
    BY <1>0, <2>2, <2>3, <2>4, <2>5 DEF IngestInv
<1>11. ASSUME NEW r \in Requests, InsertAudit(r) PROVE IngestInv'
  <2>1. \A l \in Requests : Row(l)' = Row(l)
    BY <1>a, <1>11 DEF InsertAudit
  <2>2. WriteOrder'
    BY <1>0, <1>b, <1>11, <2>1 DEF InsertAudit, TypeOK, WriteOrder
  <2>3. LookupsSound'
    BY <1>0, <1>11, <2>1 DEF InsertAudit, TypeOK, LookupsSound
  <2>4. MappedLogStored'
    BY <1>0, <1>b, <1>11, <2>1 DEF InsertAudit, TypeOK, WriteOrder, MappedLogStored
  <2>5. AuditTrailOrdered'
    BY <1>0, <1>11 DEF InsertAudit, TypeOK, WriteOrder, AuditTrailOrdered, IngestInv
  <2> QED
    BY <1>0, <2>2, <2>3, <2>4, <2>5 DEF IngestInv
<1>12. ASSUME NEW r \in Requests, Publish(r) PROVE IngestInv'
  <2>1. \A l \in Requests : Row(l)' = Row(l)
    BY <1>a, <1>12 DEF Publish
  <2>2. WriteOrder'
    BY <1>0, <1>b, <1>12, <2>1 DEF Publish, TypeOK, WriteOrder
  <2>3. LookupsSound'
    BY <1>0, <1>12, <2>1 DEF Publish, TypeOK, LookupsSound
  <2>4. MappedLogStored'
    BY <1>0, <1>b, <1>12, <2>1 DEF Publish, TypeOK, WriteOrder, MappedLogStored
  <2>5. AuditTrailOrdered'
    BY <1>0, <1>12 DEF Publish, TypeOK, WriteOrder, AuditTrailOrdered, IngestInv
  <2> QED
    BY <1>0, <2>2, <2>3, <2>4, <2>5 DEF IngestInv
<1>16. ASSUME NEW r \in Requests, PublishRaises(r) PROVE IngestInv'
  <2>1. \A l \in Requests : Row(l)' = Row(l)
    BY <1>a, <1>16 DEF PublishRaises
  <2>2. WriteOrder'
    BY <1>0, <1>b, <1>16, <2>1 DEF PublishRaises, TypeOK, WriteOrder
  <2>3. LookupsSound'
    BY <1>0, <1>16, <2>1 DEF PublishRaises, TypeOK, LookupsSound
  <2>4. MappedLogStored'
    BY <1>0, <1>b, <1>16, <2>1 DEF PublishRaises, TypeOK, WriteOrder, MappedLogStored
  <2>5. AuditTrailOrdered'
    BY <1>0, <1>16 DEF PublishRaises, TypeOK, WriteOrder, AuditTrailOrdered, IngestInv
  <2> QED
    BY <1>0, <2>2, <2>3, <2>4, <2>5 DEF IngestInv
<1>17. ASSUME NEW l \in Requests, ExpireLog(l) PROVE IngestInv'
  <2>1. \A r \in Requests : Row(r)' = Row(r)
    BY <1>a, <1>17 DEF ExpireLog
  <2>2. WriteOrder' /\ LookupsSound'
    BY <1>0, <1>17 DEF ExpireLog, WriteOrder, LookupsSound, Row
  <2>3. MappedLogStored' /\ AuditTrailOrdered'
    BY <1>0, <1>17, <2>1 DEF ExpireLog, TypeOK, MappedLogStored, AuditTrailOrdered, IngestInv
  <2> QED
    BY <1>0, <2>2, <2>3 DEF IngestInv
<1>13. ASSUME NEW r \in Requests, Fail(r) PROVE IngestInv'
  BY <1>0, <1>13, QuietStep DEF Fail, WriteOrder, LookupsSound, Row, stores
<1>14. CASE Crash
  BY <1>0, <1>14, QuietStep DEF Crash, WriteOrder, LookupsSound, Row, stores
<1>15. CASE UNCHANGED vars
  BY <1>0, <1>15, QuietStep DEF vars, WriteOrder, LookupsSound, Row, stores
<1> QED
  BY <1>1, <1>2, <1>3, <1>4, <1>5, <1>6, <1>7, <1>8, <1>9, <1>10, <1>11, <1>12, <1>13, <1>14, <1>15,
     <1>16, <1>17 DEF Next, Step

\* For any number of racing, failing and retried requests, an idempotency row
\* names a log that is stored and audited and was created for that row.
THEOREM RowsNameStoredLogs == Spec => []MappedLogStored
<1>1. IngestInv => MappedLogStored
  BY DEF IngestInv
<1> QED
  BY <1>1, IngestInit, IngestStep, PTL DEF Spec

\* A replay is answered with a stored log of the caller's own row.
THEOREM ReplaysOwn == Spec => []ReplayIsOwn
<1>1. IngestInv => ReplayIsOwn
  BY DEF IngestInv, LookupsSound, ReplayIsOwn
<1> QED
  BY <1>1, IngestInit, IngestStep, PTL DEF Spec

\* The copies of a log and of its audit event are written in one order.
THEOREM CopiesOrdered == Spec => []AuditTrailOrdered
<1>1. IngestInv => AuditTrailOrdered
  BY DEF IngestInv
<1> QED
  BY <1>1, IngestInit, IngestStep, PTL DEF Spec

\* An acknowledged log, created or replayed, was stored and is audited in
\* Postgres, and the copies that follow are missing only where its creator
\* still is, alive or not.
THEOREM AcknowledgedStored == Spec => []AcknowledgedEverywhere
<1>1. IngestInv => AcknowledgedEverywhere
  <2> SUFFICES ASSUME IngestInv, NEW l \in Acknowledged
               PROVE  /\ l \in chLogs \intersect pgAudit
                      /\ l \in expired => call[l].old
                      /\ call[l].idem # NoIdem => idempotency[Row(l)] # NoLog
                      /\ l \notin chAudit => pc[l] = "insertAudit"
                      /\ l \notin published =>
                             pc[l] \in {"insertAudit", "publish", "publishRefused"}
    BY DEF AcknowledgedEverywhere
  <2>1. /\ l \in Requests \intersect chLogs \intersect pgAudit
        /\ call[l].idem # NoIdem => idempotency[Row(l)] # NoLog
    <3>1. CASE l \in Requests /\ pc[l] = "created"
      BY <3>1 DEF IngestInv, WriteOrder
    <3>2. ASSUME NEW r \in Requests, pc[r] = "replayed", l = found[r]
          PROVE  /\ l \in chLogs \intersect pgAudit
                 /\ idempotency[Row(l)] # NoLog
      BY <3>2 DEF IngestInv, LookupsSound
    <3>3. chLogs \subseteq Requests
      BY DEF IngestInv, TypeOK
    <3> QED
      BY <3>1, <3>2, <3>3 DEF Acknowledged
  <2> QED
    BY <2>1 DEF IngestInv, WriteOrder
<1> QED
  BY <1>1, IngestInit, IngestStep, PTL DEF Spec

\* A mapped row never changes.
THEOREM RowsStable == Spec => MappingStable
<1>1. TypeOK /\ [Next]_vars =>
        [\A x \in Keys \X IdemKeys : idempotency[x] # NoLog => idempotency'[x] = idempotency[x]]_vars
  <2> SUFFICES ASSUME TypeOK, Next, NEW x \in Keys \X IdemKeys, idempotency[x] # NoLog
               PROVE  idempotency'[x] = idempotency[x]
    OBVIOUS
  <2>1. ASSUME NEW r \in Requests, CommitPg(r) PROVE idempotency'[x] = idempotency[x]
    BY <2>1 DEF CommitPg, TypeOK
  <2>2. ASSUME NEW r \in Requests, Step(r) \/ Fail(r) \/ ExpireLog(r), ~CommitPg(r)
        PROVE  idempotency'[x] = idempotency[x]
    BY <2>2 DEF Step, Fail, ExpireLog, PublishRaises, Receive, Lookup, Fetch, Resolve, ReserveKey, RefundKey,
                ReserveProject, RefundProject, InsertLog, InsertAudit, Publish, stores
  <2>3. CASE Crash
    BY <2>3 DEF Crash, stores
  <2> QED
    BY <2>1, <2>2, <2>3 DEF Next
<1> QED
  BY <1>1, TypeCorrect, PTL DEF Spec, MappingStable

-----------------------------------------------------------------------------
(***************************************************************************)
(* The composition of Ingest with the daily counters, proved in two steps: *)
(* each step of a request is a step of the key counters, and of the project*)
(* counters, or leaves them alone (KeyQuotaStep, ProjectQuotaStep); so     *)
(* what DailyQuota_proof proves of the counters holds here, and the logs   *)
(* that reached ClickHouse are among the granted claims.                   *)
(***************************************************************************)

\* DailyQuota with its theorems, under the mappings of IngestQuota.
KeyCounter == INSTANCE DailyQuota_proof WITH
    Callers <- Requests, Owners <- Keys, Limit <- KeyLimit, LastDay <- 1, today <- 1,
    amount <- Sizes, stage <- KeyStage,
    owner <- [r \in Requests |-> call[r].key],
    key <- [r \in Requests |-> <<call[r].key, 1>>],
    counter <- OneDay(Keys, keyUsage)

ProjectCounter == INSTANCE DailyQuota_proof WITH
    Callers <- Requests, Owners <- Projects, Limit <- ProjectLimit, LastDay <- 1, today <- 1,
    amount <- Sizes, stage <- ProjectStage,
    owner <- [r \in Requests |-> call[r].project],
    key <- [r \in Requests |-> <<call[r].project, 1>>],
    counter <- OneDay(Projects, projectUsage)

-----------------------------------------------------------------------------

\* A change of one usage is a change of the one counter it stands for.
LEMMA CounterUpdate ==
    ASSUME NEW S, NEW f, NEW g, NEW o, NEW v,
           o \in S, g[o] = v, \A y \in S \ {o} : g[y] = f[y]
    PROVE  \A x \in S \X {1} : g[x[1]] = IF x = <<o, 1>> THEN v ELSE f[x[1]]
<1> SUFFICES ASSUME NEW x \in S \X {1}
             PROVE  g[x[1]] = IF x = <<o, 1>> THEN v ELSE f[x[1]]
  OBVIOUS
<1>1. x[1] \in S /\ x = <<x[1], 1>>
  OBVIOUS
<1>2. CASE x[1] = o
  BY <1>1, <1>2
<1>3. CASE x[1] # o
  <2>1. x # <<o, 1>>
    BY <1>3
  <2> QED
    BY <1>1, <1>3, <2>1
<1> QED
  BY <1>2, <1>3

-----------------------------------------------------------------------------

LEMMA KeyAssumption == KeyCounter!QuotaAssumption
BY IngestAssumption, QuotasEnabled
   DEF KeyCounter!QuotaAssumption, KeyCounter!IsFiniteSet, IsFiniteSet

LEMMA KeyQuotaInit == Init => KeyQuota!Init
<1> SUFFICES ASSUME Init PROVE KeyQuota!Init
  OBVIOUS
<1>1. \A r \in Requests : call[r].size \in 1..MaxAmount /\ call[r].key \in Keys
  BY IngestAssumption DEF Init, Calls
<1>2. KeyStage = [r \in Requests |-> "idle"]
  BY DEF Init, KeyStage, KeyStageAt, KeyCharged
<1> QED
  BY <1>1, <1>2 DEF Init, KeyQuota!Init, KeyQuota!Counters, KeyQuota!Days, Sizes, OneDay

\* A request that moves on moves its stage and no other.
LEMMA KeyStageMoves ==
    ASSUME TypeOK, NEW r \in Requests, NEW op, Goto(r, op)
    PROVE  KeyStage' = [KeyStage EXCEPT ![r] = KeyStageAt(op)]
BY DEF TypeOK, Goto, KeyStage

LEMMA KeyQuotaStep == TypeOK /\ [Next]_vars => [KeyQuota!Next]_(KeyQuota!vars)
<1> SUFFICES ASSUME TypeOK, [Next]_vars PROVE [KeyQuota!Next]_(KeyQuota!vars)
  OBVIOUS
<1>1. ASSUME UNCHANGED <<call, keyUsage>>, KeyStage' = KeyStage PROVE UNCHANGED KeyQuota!vars
  BY <1>1 DEF KeyQuota!vars, Sizes, OneDay
<1>2. ASSUME NEW r \in Requests, NEW op, At(r, op), NEW then, Goto(r, then),
             UNCHANGED <<call, keyUsage>>, KeyStageAt(then) = KeyStageAt(op)
      PROVE  UNCHANGED KeyQuota!vars
  <2>1. KeyStage' = [KeyStage EXCEPT ![r] = KeyStage[r]]
    BY <1>2, KeyStageMoves DEF At, KeyStage
  <2> QED
    BY <1>1, <1>2, <2>1 DEF KeyStage
<1> USE DEF KeyStageAt, KeyCharged
<1>3. ASSUME NEW r \in Requests, Receive(r) PROVE UNCHANGED KeyQuota!vars
  BY <1>3, <1>2 DEF Receive, quotas
<1>4. ASSUME NEW r \in Requests, Lookup(r) PROVE UNCHANGED KeyQuota!vars
  BY <1>4, <1>2 DEF Lookup, quotas
<1>5. ASSUME NEW r \in Requests, Fetch(r) PROVE UNCHANGED KeyQuota!vars
  BY <1>5, <1>2 DEF Fetch, quotas
<1>6. ASSUME NEW r \in Requests, ReserveProject(r) PROVE UNCHANGED KeyQuota!vars
  BY <1>6, <1>2 DEF ReserveProject, quotas
<1>7. ASSUME NEW r \in Requests, RefundProject(r) PROVE UNCHANGED KeyQuota!vars
  BY <1>7, <1>2 DEF RefundProject, quotas
<1>8. ASSUME NEW r \in Requests, InsertLog(r) PROVE UNCHANGED KeyQuota!vars
  BY <1>8, <1>2 DEF InsertLog, quotas
<1>9. ASSUME NEW r \in Requests, CommitPg(r) PROVE UNCHANGED KeyQuota!vars
  BY <1>9, <1>2 DEF CommitPg, quotas
<1>10. ASSUME NEW r \in Requests, InsertAudit(r) PROVE UNCHANGED KeyQuota!vars
  BY <1>10, <1>2 DEF InsertAudit, quotas
<1>11. ASSUME NEW r \in Requests, Publish(r) PROVE UNCHANGED KeyQuota!vars
  BY <1>11, <1>2 DEF Publish, quotas
<1>16. ASSUME NEW r \in Requests, PublishRaises(r) PROVE UNCHANGED KeyQuota!vars
  BY <1>16, <1>2 DEF PublishRaises, quotas
<1>12. ASSUME NEW r \in Requests, Resolve(r) PROVE [KeyQuota!Next]_(KeyQuota!vars)
  <2>1. CASE pc'[r] = "reserveKey"
    <3>1. KeyStage' = [KeyStage EXCEPT ![r] = "keyed"] /\ KeyStage[r] = "idle"
      BY <1>12, <2>1, KeyStageMoves DEF Resolve, At, Goto, TypeOK, KeyStage
    <3>2. KeyQuota!ComputeKey(r)
      BY <1>12, <3>1, CallTyped DEF Resolve, quotas, KeyQuota!ComputeKey, Sizes, OneDay
    <3> QED
      BY <3>2 DEF KeyQuota!Next
  <2>2. CASE pc'[r] # "reserveKey"
    <3>1. At(r, "resolve") /\ Goto(r, "rejected") /\ UNCHANGED <<call, keyUsage>>
      BY <1>12, <2>2, QuotasEnabled DEF Resolve, quotas, Goto, TypeOK
    <3> QED
      BY <1>2, <3>1
  <2> QED
    BY <2>1, <2>2
<1>13. ASSUME NEW r \in Requests, ReserveKey(r) PROVE [KeyQuota!Next]_(KeyQuota!vars)
  <2> DEFINE o == call[r].key
             value == keyUsage[o] + call[r].size
  <2>1. /\ keyUsage' = [keyUsage EXCEPT ![o] = value]
        /\ KeyStage' = [KeyStage EXCEPT ![r] = IF value > KeyLimit THEN "over" ELSE "granted"]
        /\ KeyStage[r] = "keyed"
        /\ UNCHANGED call
    BY <1>13, KeyStageMoves, QuotasEnabled, IngestAssumption DEF ReserveKey, Claim, At, KeyStage
  <2>2. o \in Keys /\ call[r].size \in Nat /\ keyUsage \in [Keys -> Int]
    BY CallTyped DEF TypeOK
  <2> HIDE DEF o
  <2>3. OneDay(Keys, keyUsage')
          = [OneDay(Keys, keyUsage) EXCEPT ![<<o, 1>>] = value]
    <3>1. keyUsage' = [keyUsage EXCEPT ![o] = value]
      BY <2>1
    <3> HIDE DEF value
    <3>2. keyUsage'[o] = value /\ \A y \in Keys \ {o} : keyUsage'[y] = keyUsage[y]
      BY <2>2, <3>1
    <3>3. \A x \in Keys \X {1} :
              keyUsage'[x[1]] = IF x = <<o, 1>> THEN value ELSE keyUsage[x[1]]
      BY <2>2, <3>2, CounterUpdate
    <3> QED
      BY <2>2, <3>3 DEF OneDay
  <2>4. Sizes' = Sizes /\ Sizes[r] = call[r].size
    BY <2>1 DEF Sizes
  <2>5. <<o, 1>> \in Keys \X {1} /\ OneDay(Keys, keyUsage)[<<o, 1>>] = keyUsage[o]
    BY <2>2 DEF OneDay
  <2>6. KeyQuota!IncrBy(r)
    BY <2>1, <2>3, <2>4, <2>5 DEF KeyQuota!IncrBy, o
  <2> QED
    BY <2>6 DEF KeyQuota!Next
<1>14. ASSUME NEW r \in Requests, RefundKey(r) PROVE [KeyQuota!Next]_(KeyQuota!vars)
  <2>1. /\ keyUsage' = [keyUsage EXCEPT ![call[r].key] = @ - call[r].size]
        /\ KeyStage' = [KeyStage EXCEPT ![r] = "refused"]
        /\ KeyStage[r] = "over"
        /\ UNCHANGED call
    BY <1>14, KeyStageMoves DEF RefundKey, At, KeyStage
  <2> DEFINE o == call[r].key
  <2>2. o \in Keys /\ call[r].size \in Nat /\ keyUsage \in [Keys -> Int]
    BY CallTyped DEF TypeOK
  <2> HIDE DEF o
  <2>3. OneDay(Keys, keyUsage')
          = [OneDay(Keys, keyUsage)
                EXCEPT ![<<o, 1>>] = keyUsage[o] - call[r].size]
    <3>1. keyUsage' = [keyUsage EXCEPT ![o] = keyUsage[o] - call[r].size]
      BY <2>1 DEF o
    <3>2. keyUsage'[o] = keyUsage[o] - call[r].size /\ \A y \in Keys \ {o} : keyUsage'[y] = keyUsage[y]
      BY <2>2, <3>1
    <3>3. \A x \in Keys \X {1} :
              keyUsage'[x[1]] = IF x = <<o, 1>> THEN keyUsage[o] - call[r].size ELSE keyUsage[x[1]]
      BY <2>2, <3>2, CounterUpdate
    <3> QED
      BY <2>2, <3>3 DEF OneDay
  <2>4. Sizes' = Sizes /\ Sizes[r] = call[r].size
    BY <2>1 DEF Sizes
  <2>5. <<o, 1>> \in Keys \X {1} /\ OneDay(Keys, keyUsage)[<<o, 1>>] = keyUsage[o]
    BY <2>2 DEF OneDay
  <2>6. KeyQuota!DecrBy(r)
    BY <2>1, <2>3, <2>4, <2>5 DEF KeyQuota!DecrBy, o
  <2> QED
    BY <2>6 DEF KeyQuota!Next
<1>15. ASSUME (\E r \in Requests : Fail(r) \/ ExpireLog(r)) \/ Crash \/ UNCHANGED vars
      PROVE  UNCHANGED KeyQuota!vars
  BY <1>15, <1>1 DEF Fail, ExpireLog, Crash, vars, quotas, KeyStage
<1> QED
  BY <1>3, <1>4, <1>5, <1>6, <1>7, <1>8, <1>9, <1>10, <1>11, <1>12, <1>13, <1>14, <1>15,
     <1>16 DEF Next, Step

-----------------------------------------------------------------------------

LEMMA ProjectAssumption == ProjectCounter!QuotaAssumption
BY IngestAssumption, QuotasEnabled
   DEF ProjectCounter!QuotaAssumption, ProjectCounter!IsFiniteSet, IsFiniteSet

LEMMA ProjectQuotaInit == Init => ProjectQuota!Init
<1> SUFFICES ASSUME Init PROVE ProjectQuota!Init
  OBVIOUS
<1>1. \A r \in Requests : call[r].size \in 1..MaxAmount /\ call[r].project \in Projects
  BY IngestAssumption DEF Init, Calls
<1>2. ProjectStage = [r \in Requests |-> "idle"]
  BY DEF Init, ProjectStage, ProjectStageAt, ProjectCharged
<1> QED
  BY <1>1, <1>2 DEF Init, ProjectQuota!Init, ProjectQuota!Counters, ProjectQuota!Days, Sizes, OneDay

\* A request that moves on moves its stage and no other.
LEMMA ProjectStageMoves ==
    ASSUME TypeOK, NEW r \in Requests, NEW op, Goto(r, op)
    PROVE  ProjectStage' = [ProjectStage EXCEPT ![r] = ProjectStageAt(op)]
BY DEF TypeOK, Goto, ProjectStage

LEMMA ProjectQuotaStep == TypeOK /\ [Next]_vars => [ProjectQuota!Next]_(ProjectQuota!vars)
<1> SUFFICES ASSUME TypeOK, [Next]_vars PROVE [ProjectQuota!Next]_(ProjectQuota!vars)
  OBVIOUS
<1>1. ASSUME UNCHANGED <<call, projectUsage>>, ProjectStage' = ProjectStage PROVE UNCHANGED ProjectQuota!vars
  BY <1>1 DEF ProjectQuota!vars, Sizes, OneDay
<1>2. ASSUME NEW r \in Requests, NEW op, At(r, op), NEW then, Goto(r, then),
             UNCHANGED <<call, projectUsage>>, ProjectStageAt(then) = ProjectStageAt(op)
      PROVE  UNCHANGED ProjectQuota!vars
  <2>1. ProjectStage' = [ProjectStage EXCEPT ![r] = ProjectStage[r]]
    BY <1>2, ProjectStageMoves DEF At, ProjectStage
  <2> QED
    BY <1>1, <1>2, <2>1 DEF ProjectStage
<1> USE DEF ProjectStageAt, ProjectCharged
<1>3. ASSUME NEW r \in Requests, Receive(r) PROVE UNCHANGED ProjectQuota!vars
  BY <1>3, <1>2 DEF Receive, quotas
<1>4. ASSUME NEW r \in Requests, Lookup(r) PROVE UNCHANGED ProjectQuota!vars
  BY <1>4, <1>2 DEF Lookup, quotas
<1>5. ASSUME NEW r \in Requests, Fetch(r) PROVE UNCHANGED ProjectQuota!vars
  BY <1>5, <1>2 DEF Fetch, quotas
<1>6. ASSUME NEW r \in Requests, Resolve(r) PROVE UNCHANGED ProjectQuota!vars
  BY <1>6, <1>2 DEF Resolve, quotas
<1>7. ASSUME NEW r \in Requests, RefundKey(r) PROVE UNCHANGED ProjectQuota!vars
  BY <1>7, <1>2 DEF RefundKey, quotas
<1>8. ASSUME NEW r \in Requests, InsertLog(r) PROVE UNCHANGED ProjectQuota!vars
  BY <1>8, <1>2 DEF InsertLog, quotas
<1>9. ASSUME NEW r \in Requests, CommitPg(r) PROVE UNCHANGED ProjectQuota!vars
  BY <1>9, <1>2 DEF CommitPg, quotas
<1>10. ASSUME NEW r \in Requests, InsertAudit(r) PROVE UNCHANGED ProjectQuota!vars
  BY <1>10, <1>2 DEF InsertAudit, quotas
<1>11. ASSUME NEW r \in Requests, Publish(r) PROVE UNCHANGED ProjectQuota!vars
  BY <1>11, <1>2 DEF Publish, quotas
<1>16. ASSUME NEW r \in Requests, PublishRaises(r) PROVE UNCHANGED ProjectQuota!vars
  BY <1>16, <1>2 DEF PublishRaises, quotas
<1>12. ASSUME NEW r \in Requests, ReserveKey(r) PROVE [ProjectQuota!Next]_(ProjectQuota!vars)
  <2>1. CASE pc'[r] = "reserveProject"
    <3>1. ProjectStage' = [ProjectStage EXCEPT ![r] = "keyed"] /\ ProjectStage[r] = "idle"
      BY <1>12, <2>1, ProjectStageMoves DEF ReserveKey, At, Goto, TypeOK, ProjectStage
    <3>2. ProjectQuota!ComputeKey(r)
      BY <1>12, <3>1, CallTyped DEF ReserveKey, quotas, ProjectQuota!ComputeKey, Sizes, OneDay
    <3> QED
      BY <3>2 DEF ProjectQuota!Next
  <2>2. CASE pc'[r] # "reserveProject"
    <3>1. At(r, "reserveKey") /\ Goto(r, "refundKey") /\ UNCHANGED <<call, projectUsage>>
      BY <1>12, <2>2, QuotasEnabled DEF ReserveKey, quotas, Goto, TypeOK
    <3> QED
      BY <1>2, <3>1
  <2> QED
    BY <2>1, <2>2
<1>13. ASSUME NEW r \in Requests, ReserveProject(r) PROVE [ProjectQuota!Next]_(ProjectQuota!vars)
  <2> DEFINE o == call[r].project
             value == projectUsage[o] + call[r].size
  <2>1. /\ projectUsage' = [projectUsage EXCEPT ![o] = value]
        /\ ProjectStage' = [ProjectStage EXCEPT ![r] = IF value > ProjectLimit THEN "over" ELSE "granted"]
        /\ ProjectStage[r] = "keyed"
        /\ UNCHANGED call
    BY <1>13, ProjectStageMoves, QuotasEnabled, IngestAssumption DEF ReserveProject, Claim, At, ProjectStage
  <2>2. o \in Projects /\ call[r].size \in Nat /\ projectUsage \in [Projects -> Int]
    BY CallTyped DEF TypeOK
  <2> HIDE DEF o
  <2>3. OneDay(Projects, projectUsage')
          = [OneDay(Projects, projectUsage) EXCEPT ![<<o, 1>>] = value]
    <3>1. projectUsage' = [projectUsage EXCEPT ![o] = value]
      BY <2>1
    <3> HIDE DEF value
    <3>2. projectUsage'[o] = value /\ \A y \in Projects \ {o} : projectUsage'[y] = projectUsage[y]
      BY <2>2, <3>1
    <3>3. \A x \in Projects \X {1} :
              projectUsage'[x[1]] = IF x = <<o, 1>> THEN value ELSE projectUsage[x[1]]
      BY <2>2, <3>2, CounterUpdate
    <3> QED
      BY <2>2, <3>3 DEF OneDay
  <2>4. Sizes' = Sizes /\ Sizes[r] = call[r].size
    BY <2>1 DEF Sizes
  <2>5. <<o, 1>> \in Projects \X {1} /\ OneDay(Projects, projectUsage)[<<o, 1>>] = projectUsage[o]
    BY <2>2 DEF OneDay
  <2>6. ProjectQuota!IncrBy(r)
    BY <2>1, <2>3, <2>4, <2>5 DEF ProjectQuota!IncrBy, o
  <2> QED
    BY <2>6 DEF ProjectQuota!Next
<1>14. ASSUME NEW r \in Requests, RefundProject(r) PROVE [ProjectQuota!Next]_(ProjectQuota!vars)
  <2>1. /\ projectUsage' = [projectUsage EXCEPT ![call[r].project] = @ - call[r].size]
        /\ ProjectStage' = [ProjectStage EXCEPT ![r] = "refused"]
        /\ ProjectStage[r] = "over"
        /\ UNCHANGED call
    BY <1>14, ProjectStageMoves DEF RefundProject, At, ProjectStage
  <2> DEFINE o == call[r].project
  <2>2. o \in Projects /\ call[r].size \in Nat /\ projectUsage \in [Projects -> Int]
    BY CallTyped DEF TypeOK
  <2> HIDE DEF o
  <2>3. OneDay(Projects, projectUsage')
          = [OneDay(Projects, projectUsage)
                EXCEPT ![<<o, 1>>] = projectUsage[o] - call[r].size]
    <3>1. projectUsage' = [projectUsage EXCEPT ![o] = projectUsage[o] - call[r].size]
      BY <2>1 DEF o
    <3>2. projectUsage'[o] = projectUsage[o] - call[r].size /\ \A y \in Projects \ {o} : projectUsage'[y] = projectUsage[y]
      BY <2>2, <3>1
    <3>3. \A x \in Projects \X {1} :
              projectUsage'[x[1]] = IF x = <<o, 1>> THEN projectUsage[o] - call[r].size ELSE projectUsage[x[1]]
      BY <2>2, <3>2, CounterUpdate
    <3> QED
      BY <2>2, <3>3 DEF OneDay
  <2>4. Sizes' = Sizes /\ Sizes[r] = call[r].size
    BY <2>1 DEF Sizes
  <2>5. <<o, 1>> \in Projects \X {1} /\ OneDay(Projects, projectUsage)[<<o, 1>>] = projectUsage[o]
    BY <2>2 DEF OneDay
  <2>6. ProjectQuota!DecrBy(r)
    BY <2>1, <2>3, <2>4, <2>5 DEF ProjectQuota!DecrBy, o
  <2> QED
    BY <2>6 DEF ProjectQuota!Next
<1>15. ASSUME (\E r \in Requests : Fail(r) \/ ExpireLog(r)) \/ Crash \/ UNCHANGED vars
      PROVE  UNCHANGED ProjectQuota!vars
  BY <1>15, <1>1 DEF Fail, ExpireLog, Crash, vars, quotas, ProjectStage
<1> QED
  BY <1>3, <1>4, <1>5, <1>6, <1>7, <1>8, <1>9, <1>10, <1>11, <1>12, <1>13, <1>14, <1>15,
     <1>16 DEF Next, Step

-----------------------------------------------------------------------------

\* For every key, the quota steps of ingest_log are those of DailyQuota.
THEOREM KeyRefined == Spec => KeyQuotaRefined
BY KeyQuotaInit, KeyQuotaStep, TypeCorrect, PTL DEF Spec, KeyQuotaRefined, KeyQuota!Spec

\* For every project, the quota steps of ingest_log are those of DailyQuota.
THEOREM ProjectRefined == Spec => ProjectQuotaRefined
BY ProjectQuotaInit, ProjectQuotaStep, TypeCorrect, PTL
   DEF Spec, ProjectQuotaRefined, ProjectQuota!Spec

\* The invariant that DailyQuota_proof finds for the counters holds of these.
LEMMA KeyCounterInv == Spec => []KeyCounter!QuotaInv
<1>1. Init => KeyCounter!QuotaInv
  <2>1. KeyQuota!Init => KeyCounter!Init
    BY DEF KeyQuota!Init, KeyQuota!Counters, KeyQuota!Days,
           KeyCounter!Init, KeyCounter!Counters, KeyCounter!Days
  <2> QED
    BY <2>1, KeyQuotaInit, KeyAssumption, KeyCounter!InitQuotaInv
<1>2. TypeOK /\ KeyCounter!QuotaInv /\ [Next]_vars => KeyCounter!QuotaInv'
  <2>1. [KeyQuota!Next]_(KeyQuota!vars) => [KeyCounter!Next]_(KeyCounter!vars)
    BY DEF KeyQuota!Next, KeyQuota!vars, KeyQuota!ComputeKey, KeyQuota!IncrBy, KeyQuota!DecrBy, KeyQuota!Midnight,
           KeyCounter!Next, KeyCounter!vars, KeyCounter!ComputeKey, KeyCounter!IncrBy, KeyCounter!DecrBy, KeyCounter!Midnight
  <2> QED
    BY <2>1, KeyQuotaStep, KeyAssumption, KeyCounter!QuotaStep
<1> QED
  BY <1>1, <1>2, TypeCorrect, PTL DEF Spec

\* The invariant that DailyQuota_proof finds for the counters holds of these.
LEMMA ProjectCounterInv == Spec => []ProjectCounter!QuotaInv
<1>1. Init => ProjectCounter!QuotaInv
  <2>1. ProjectQuota!Init => ProjectCounter!Init
    BY DEF ProjectQuota!Init, ProjectQuota!Counters, ProjectQuota!Days,
           ProjectCounter!Init, ProjectCounter!Counters, ProjectCounter!Days
  <2> QED
    BY <2>1, ProjectQuotaInit, ProjectAssumption, ProjectCounter!InitQuotaInv
<1>2. TypeOK /\ ProjectCounter!QuotaInv /\ [Next]_vars => ProjectCounter!QuotaInv'
  <2>1. [ProjectQuota!Next]_(ProjectQuota!vars) => [ProjectCounter!Next]_(ProjectCounter!vars)
    BY DEF ProjectQuota!Next, ProjectQuota!vars, ProjectQuota!ComputeKey, ProjectQuota!IncrBy, ProjectQuota!DecrBy, ProjectQuota!Midnight,
           ProjectCounter!Next, ProjectCounter!vars, ProjectCounter!ComputeKey, ProjectCounter!IncrBy, ProjectCounter!DecrBy, ProjectCounter!Midnight
  <2> QED
    BY <2>1, ProjectQuotaStep, ProjectAssumption, ProjectCounter!QuotaStep
<1> QED
  BY <1>1, <1>2, TypeCorrect, PTL DEF Spec

-----------------------------------------------------------------------------

\* A log in ClickHouse belongs to a request that was granted both claims.
StoredWereGranted ==
    \A r \in chLogs : pc[r] \in {"commitPg", "insertAudit", "publish", "created", "publishRefused"}

LEMMA StoredStep == TypeOK /\ StoredWereGranted /\ [Next]_vars => StoredWereGranted'
<1> SUFFICES ASSUME TypeOK, StoredWereGranted, [Next]_vars PROVE StoredWereGranted'
  OBVIOUS
<1> USE DEF TypeOK, StoredWereGranted, At, Goto, stores
<1>1. ASSUME NEW r \in Requests, InsertLog(r) PROVE StoredWereGranted'
  BY <1>1 DEF InsertLog
<1>2. ASSUME NEW r \in Requests, Step(r) \/ Fail(r) \/ ExpireLog(r), ~InsertLog(r)
      PROVE  StoredWereGranted'
  BY <1>2 DEF Step, Fail, ExpireLog, PublishRaises, Receive, Lookup, Fetch, Resolve, ReserveKey, RefundKey, ReserveProject,
              RefundProject, CommitPg, InsertAudit, Publish
<1>3. CASE Crash \/ UNCHANGED vars
  BY <1>3 DEF Crash, vars
<1> QED
  BY <1>1, <1>2, <1>3 DEF Next

LEMMA StoredBounded ==
    ASSUME TypeOK, StoredWereGranted, KeyCounter!QuotaInv, ProjectCounter!QuotaInv
    PROVE  StoredWithinQuota
<1>1. ASSUME NEW k \in Keys PROVE Bytes(LogsOfKey(k)) <= KeyLimit
  <2> DEFINE x == <<k, 1>>
             logs == LogsOfKey(k)
             granted == KeyCounter!GrantedOn(x)
  <2>1. logs \in SUBSET granted
    BY DEF TypeOK, StoredWereGranted, LogsOfKey, KeyCounter!GrantedOn, KeyStage, KeyStageAt, KeyCharged
  <2>2. Bytes(logs) = KeyCounter!Load(logs)
    <3>1. {u \in logs \X (1..MaxAmount) : u[2] <= call[u[1]].size} = KeyCounter!Units(logs)
      BY <2>1 DEF KeyCounter!Units, KeyCounter!GrantedOn, Sizes
    <3>2. \A S : KeyCounter!Cardinality(S) = Cardinality(S)
      BY DEF KeyCounter!Cardinality, Cardinality, KeyCounter!IsFiniteSet, IsFiniteSet
    <3> QED
      BY <3>1, <3>2 DEF Bytes, KeyCounter!Load
  <2>3. granted \in SUBSET Requests /\ KeyCounter!TypeOK
    BY DEF KeyCounter!GrantedOn, KeyCounter!QuotaInv
  <2>4. KeyCounter!Load(logs) <= KeyCounter!Load(granted)
    BY <2>1, <2>3, KeyAssumption, KeyCounter!LoadMonotone
  <2>5. KeyCounter!Load(granted) <= KeyLimit
    BY DEF KeyCounter!QuotaInv, KeyCounter!GrantedWithinLimit, KeyCounter!Counters, KeyCounter!Days
  <2>6. KeyCounter!Load(logs) \in Nat /\ KeyCounter!Load(granted) \in Nat
    BY <2>1, <2>3, KeyAssumption, KeyCounter!UnitsFinite
  <2> HIDE DEF logs, granted
  <2> QED
    BY <2>2, <2>4, <2>5, <2>6, IngestAssumption DEF logs
<1>2. ASSUME NEW p \in Projects PROVE Bytes(LogsOfProject(p)) <= ProjectLimit
  <2> DEFINE x == <<p, 1>>
             logs == LogsOfProject(p)
             granted == ProjectCounter!GrantedOn(x)
  <2>1. logs \in SUBSET granted
    BY DEF TypeOK, StoredWereGranted, LogsOfProject, ProjectCounter!GrantedOn, ProjectStage, ProjectStageAt, ProjectCharged
  <2>2. Bytes(logs) = ProjectCounter!Load(logs)
    <3>1. {u \in logs \X (1..MaxAmount) : u[2] <= call[u[1]].size} = ProjectCounter!Units(logs)
      BY <2>1 DEF ProjectCounter!Units, ProjectCounter!GrantedOn, Sizes
    <3>2. \A S : ProjectCounter!Cardinality(S) = Cardinality(S)
      BY DEF ProjectCounter!Cardinality, Cardinality, ProjectCounter!IsFiniteSet, IsFiniteSet
    <3> QED
      BY <3>1, <3>2 DEF Bytes, ProjectCounter!Load
  <2>3. granted \in SUBSET Requests /\ ProjectCounter!TypeOK
    BY DEF ProjectCounter!GrantedOn, ProjectCounter!QuotaInv
  <2>4. ProjectCounter!Load(logs) <= ProjectCounter!Load(granted)
    BY <2>1, <2>3, ProjectAssumption, ProjectCounter!LoadMonotone
  <2>5. ProjectCounter!Load(granted) <= ProjectLimit
    BY DEF ProjectCounter!QuotaInv, ProjectCounter!GrantedWithinLimit, ProjectCounter!Counters, ProjectCounter!Days
  <2>6. ProjectCounter!Load(logs) \in Nat /\ ProjectCounter!Load(granted) \in Nat
    BY <2>1, <2>3, ProjectAssumption, ProjectCounter!UnitsFinite
  <2> HIDE DEF logs, granted
  <2> QED
    BY <2>2, <2>4, <2>5, <2>6, IngestAssumption DEF logs
<1> QED
  BY <1>1, <1>2 DEF StoredWithinQuota

\* The logs stored for a key, and in a project, never exceed their daily
\* quotas, for any number of racing, refused and failing requests.
THEOREM QuotasKept == Spec => []StoredWithinQuota
<1>1. Init => StoredWereGranted
  BY DEF Init, StoredWereGranted
<1>2. Spec => []StoredWereGranted
  BY <1>1, StoredStep, TypeCorrect, PTL DEF Spec
<1> QED
  BY <1>2, TypeCorrect, KeyCounterInv, ProjectCounterInv, StoredBounded, PTL

-----------------------------------------------------------------------------
(***************************************************************************)
(* For any posts, batches of any length and any keys: the routes only take *)
(* steps of ingest_log, so that what the parts above show of single        *)
(* requests holds of posts; and what an answer says, and a retry stores,   *)
(* follows from the order in which the loop takes the items (InTurn) and   *)
(* from what a row found by the retry is worth (RetriesHit).               *)
(***************************************************************************)

\* The loop takes the items in order: none is begun before its turn, and those
\* whose turn has passed are answered or were never handed to the store.
InTurn ==
    \A p \in Posts :
        /\ stage[p] = "items" => next[p] \in Items(p)
        /\ stage[p] = "items" /\ TooLarge(p) => pc[<<p, next[p]>>] = "new"
        /\ stage[p] \in {"arrives", "refused"} => next[p] = 1 /\ \A i \in Items(p) : pc[<<p, i>>] = "new"
        /\ stage[p] = "answered" => next[p] = Len(post[p].items) + 1
        /\ \A i \in Items(p) : i > next[p] => pc[<<p, i>>] = "new"
        /\ \A i \in Items(p) : i < next[p] => pc[<<p, i>>] \in Answers \union {"new"}

\* The part of the type invariant that the steps of the store do not touch.
RouteTypes ==
    /\ post \in Workloads
    /\ stage \in [Posts -> {"arrives", "items"} \union Ended]
    /\ next \in [Posts -> 1..(MaxItems + 1)]
    /\ seen \in [Posts -> SUBSET Posts]

\* A post has at most MaxItems items, and their requests are the store's.
LEMMA ItemRequest ==
    ASSUME post \in Workloads, NEW p \in Posts
    PROVE  /\ Len(post[p].items) \in 0..MaxItems
           /\ Len(post[p].items) \in Nat
           /\ \A i \in Items(p) : i \in Nat \ {0} /\ i \in 1..MaxItems /\ <<p, i>> \in Requests
<1>1. Len(post[p].items) \in 0..MaxItems
  BY RoutesAssumption
<1>2. Len(post[p].items) \in Nat /\ \A i \in Items(p) : i \in 1..MaxItems
  BY <1>1, RoutesAssumption DEF Items
<1> QED
  BY <1>1, <1>2, RoutesAssumption

-----------------------------------------------------------------------------

\* What a step of request r may touch.
LEMMA StepLocal ==
    ASSUME TypeOK, NEW r \in Requests, Step(r)
    PROVE  /\ call' = call
           /\ pc[r] \in {"new"} \union Operations
           /\ \A s \in Requests \ {r} : pc'[s] = pc[s] /\ (s \in chLogs' <=> s \in chLogs)
BY DEF Step, Receive, Lookup, Fetch, Resolve, ReserveKey, RefundKey, ReserveProject, RefundProject,
       InsertLog, CommitPg, InsertAudit, Publish, PublishRaises, At, Goto, TypeOK, Operations, stores

\* A request whose row is mapped before its lookup is answered from the row.
LEMMA ReplayPath ==
    ASSUME TypeOK, NEW r \in Requests, Step(r), pc[r] \in {"new", "lookup", "fetch"},
           call[r].idem # NoIdem, idempotency[Row(r)] # NoLog
    PROVE  pc'[r] \in {"lookup", "fetch", "replayed", "missing"}
BY DEF Step, Receive, Lookup, Fetch, Resolve, ReserveKey, RefundKey, ReserveProject, RefundProject,
       InsertLog, CommitPg, InsertAudit, Publish, PublishRaises, At, Goto, TypeOK

LEMMA TypesInit == RoutesInit => Init /\ RouteTypes /\ InTurn
<1> SUFFICES ASSUME RoutesInit PROVE Init /\ RouteTypes /\ InTurn
  OBVIOUS
<1>1. Init /\ RouteTypes
  BY RoutesAssumption DEF RoutesInit, RouteTypes, Ended
<1>2. \A p \in Posts : \A i \in Items(p) : <<p, i>> \in Requests /\ i \in Nat \ {0}
  BY <1>1, ItemRequest DEF RouteTypes
<1>3. \A p \in Posts : \A i \in Items(p) : pc[<<p, i>>] = "new" /\ ~(i < 1)
  <2> SUFFICES ASSUME NEW p \in Posts, NEW i \in Items(p)
               PROVE  pc[<<p, i>>] = "new" /\ ~(i < 1)
    OBVIOUS
  <2>1. <<p, i>> \in Requests /\ ~(i < 1)
    BY <1>2
  <2> QED
    BY <2>1 DEF RoutesInit, Init
<1> QED
  BY <1>1, <1>3 DEF RoutesInit, InTurn

\* A crash of the process is a crash of the requests in flight, if any; every
\* other step is one of a request, or leaves the store alone.
LEMMA RoutesStepIsStep == RouteTypes /\ InTurn /\ [RoutesNext]_allVars => [Next]_vars
<1> SUFFICES ASSUME RouteTypes, InTurn, [RoutesNext]_allVars PROVE [Next]_vars
  OBVIOUS
<1>0. \A p \in Posts : stage[p] = "items" => <<p, next[p]>> \in Requests
  BY ItemRequest DEF InTurn, RouteTypes
<1>1. ASSUME NEW p \in Posts, Arrive(p) \/ Refuse(p) \/ RejectItem(p) \/ TakeAnswer(p)
      PROVE  UNCHANGED vars
  BY <1>1 DEF Arrive, Refuse, RejectItem, TakeAnswer, Advance
<1>2. ASSUME NEW p \in Posts, IngestItem(p) \/ FailItem(p) PROVE Next
  BY <1>0, <1>2 DEF IngestItem, FailItem, Next
<1>3. ASSUME CrashPosts PROVE [Next]_vars
  <2>1. CASE \E r \in Requests : InFlight(r)
    BY <1>3, <2>1 DEF CrashPosts, Crash, Next
  <2>2. CASE ~\E r \in Requests : InFlight(r)
    <3>1. {r \in Requests : InFlight(r)} = {}
      BY <2>2
    <3>2. dead' = dead
      BY <1>3, <3>1 DEF CrashPosts
    <3> QED
      BY <1>3, <3>2 DEF CrashPosts, vars
  <2> QED
    BY <2>1, <2>2
<1>4. ASSUME NEW l \in Requests, ExpireLog(l) PROVE Next
  BY <1>4 DEF Next
<1> QED
  BY <1>1, <1>2, <1>3, <1>4 DEF RoutesNext, allVars

LEMMA RouteTypesStep ==
    TypeOK /\ RouteTypes /\ InTurn /\ [RoutesNext]_allVars => RouteTypes' /\ InTurn'
<1> SUFFICES ASSUME TypeOK, RouteTypes, InTurn, [RoutesNext]_allVars
             PROVE  RouteTypes' /\ InTurn'
  OBVIOUS
<1>a. \A p \in Posts : /\ Len(post[p].items) \in Nat /\ Len(post[p].items) <= MaxItems
                       /\ \A i \in Items(p) : i \in Nat \ {0} /\ <<p, i>> \in Requests
                       /\ next[p] \in Nat /\ next[p] # 0
  BY ItemRequest, RoutesAssumption DEF RouteTypes
<1>b. post' = post
  BY DEF RoutesNext, allVars, routeVars, Arrive, Refuse, RejectItem, IngestItem, TakeAnswer,
         Advance, FailItem, CrashPosts
<1>c. \A p \in Posts : Items(p)' = Items(p)
  BY <1>b DEF Items
<1>1. ASSUME NEW p \in Posts, Arrive(p) PROVE RouteTypes' /\ InTurn'
  <2>1. RouteTypes' /\ UNCHANGED <<pc, next>>
    BY <1>1 DEF Arrive, RouteTypes, Ended, vars
  <2>2. 1 \in Items(p)
    BY <1>a, <1>1 DEF Arrive, Items
  <2> QED
    BY <1>1, <1>b, <1>c, <2>1, <2>2 DEF Arrive, InTurn, RouteTypes, TooLarge
<1>2. ASSUME NEW p \in Posts, Refuse(p) PROVE RouteTypes' /\ InTurn'
  <2>1. RouteTypes' /\ UNCHANGED <<pc, next>>
    BY <1>2 DEF Refuse, RouteTypes, Ended, vars
  <2> QED
    BY <1>2, <1>b, <1>c, <2>1 DEF Refuse, InTurn, RouteTypes, TooLarge
<1>3. ASSUME NEW p \in Posts, RejectItem(p) \/ TakeAnswer(p) PROVE RouteTypes' /\ InTurn'
  <2>1. /\ stage[p] = "items" /\ next[p] \in Items(p) /\ UNCHANGED <<pc, post, seen>>
        /\ next' = [next EXCEPT ![p] = @ + 1]
        /\ stage' = [stage EXCEPT ![p] = IF next[p] = Len(post[p].items) THEN "answered" ELSE @]
        /\ pc[<<p, next[p]>>] \in Answers \union {"new"}
    <3>1. stage[p] = "items" /\ Advance(p)
      BY <1>3 DEF RejectItem, TakeAnswer
    <3> QED
      BY <1>3, <3>1 DEF Advance, InTurn, vars, RejectItem, TakeAnswer
  <2>2. RouteTypes'
    BY <1>a, <2>1, RoutesAssumption DEF RouteTypes, Ended, Items
  <2>3. /\ next'[p] = next[p] + 1
        /\ next[p] # Len(post[p].items) => next[p] + 1 \in Items(p)
        /\ \A i \in Items(p) : /\ i > next[p] + 1 => i > next[p]
                               /\ i < next[p] + 1 => i < next[p] \/ i = next[p]
    BY <1>a, <2>1 DEF RouteTypes, Items
  <2> QED
    BY <1>b, <1>c, <2>1, <2>2, <2>3 DEF InTurn, RouteTypes, TooLarge
<1>4. ASSUME NEW p \in Posts, IngestItem(p) PROVE RouteTypes' /\ InTurn'
  <2>1. stage[p] = "items" /\ next[p] \in Items(p) /\ ~TooLarge(p) /\ UNCHANGED routeVars
        /\ <<p, next[p]>> \in Requests /\ Step(<<p, next[p]>>)
    BY <1>4, <1>a DEF IngestItem, InTurn
  <2>2. \A s \in Requests \ {<<p, next[p]>>} : pc'[s] = pc[s]
    BY <2>1, StepLocal
  <2>3. \A q \in Posts : \A i \in Items(q) :
            (q # p \/ i > next[p] \/ i < next[p]) => pc'[<<q, i>>] = pc[<<q, i>>]
    BY <1>a, <2>2
  <2> QED
    BY <1>c, <2>1, <2>3 DEF InTurn, RouteTypes, routeVars, TooLarge
<1>5. ASSUME NEW p \in Posts, FailItem(p) PROVE RouteTypes' /\ InTurn'
  <2>1. RouteTypes' /\ UNCHANGED <<pc, next>>
    BY <1>5 DEF FailItem, Fail, RouteTypes, Ended
  <2> QED
    BY <1>5, <1>b, <1>c, <2>1 DEF FailItem, InTurn, RouteTypes, TooLarge
<1>6. CASE CrashPosts
  <2>1. RouteTypes' /\ UNCHANGED <<pc, next>>
    BY <1>6 DEF CrashPosts, RouteTypes, Ended
  <2>2. \A p \in Posts : stage'[p] = stage[p] \/ stage'[p] = "failed"
    BY <1>6 DEF CrashPosts
  <2> QED
    BY <1>b, <1>c, <2>1, <2>2 DEF InTurn, TooLarge
<1>7. CASE UNCHANGED <<pc, routeVars>>
  BY <1>7, <1>c DEF routeVars, RouteTypes, InTurn, TooLarge
<1>8. ASSUME NEW l \in Requests, ExpireLog(l), UNCHANGED routeVars PROVE UNCHANGED <<pc, routeVars>>
  BY <1>8 DEF ExpireLog
<1> QED
  BY <1>1, <1>2, <1>3, <1>4, <1>5, <1>6, <1>7, <1>8 DEF RoutesNext, allVars, vars

\* The routes implement the store's ingest_log: whatever is proved of Ingest
\* and IngestQuota for single requests holds of the items of posts.
THEOREM RoutesImplementIngest == RoutesSpec => Spec
<1>1. Init => TypeOK
  BY TypeInit
<1>2. TypeOK /\ LookupKeyed /\ RouteTypes /\ InTurn /\ [RoutesNext]_allVars
      => (TypeOK /\ LookupKeyed /\ RouteTypes /\ InTurn)'
  BY RoutesStepIsStep, RouteTypesStep, TypeStep, LookupKeyedStep
<1>3. Init => LookupKeyed
  BY DEF Init, LookupKeyed
<1> QED
  BY <1>1, <1>2, <1>3, TypesInit, RoutesStepIsStep, PTL DEF RoutesSpec, Spec

-----------------------------------------------------------------------------

\* Item i of post p is stored, p has ended and did not break off at i.
Settled(p, i) ==
    /\ stage[p] \in Ended
    /\ <<p, i>> \in chLogs
    /\ ~(stage[p] = "failed" /\ i = next[p])
    /\ call[<<p, i>>].idem # NoIdem

\* The items of a post that find the row of an earlier post's settled item are
\* on the path of a replay.
RetriesHit ==
    \A q \in Posts : \A p \in seen[q] :
        /\ stage[p] \in Ended
        /\ \A i \in Items(p), j \in Items(q) :
             Settled(p, i) /\ Row(<<p, i>>) = Row(<<q, j>>)
             => pc[<<q, j>>] \in {"new", "lookup", "fetch", "replayed", "missing"}

RoutesInv == IngestInv /\ StoredWereGranted /\ RouteTypes /\ InTurn /\ RetriesHit

\* A settled item has committed its row.
LEMMA SettledMapped ==
    ASSUME RoutesInv, NEW p \in Posts, NEW i \in Items(p), Settled(p, i)
    PROVE  idempotency[Row(<<p, i>>)] # NoLog
<1>1. i \in Nat /\ next[p] \in Nat /\ Len(post[p].items) \in Nat /\ <<p, i>> \in Requests
      /\ i <= Len(post[p].items)
  BY ItemRequest, RoutesAssumption DEF RoutesInv, RouteTypes, Items
<1>2. pc[<<p, i>>] # "new"
  BY DEF Settled, RoutesInv, StoredWereGranted
<1>3. i < next[p]
  <2>1. InTurn /\ stage[p] \in Ended /\ ~(stage[p] = "failed" /\ i = next[p])
    BY DEF Settled, RoutesInv
  <2>2. stage[p] # "refused" /\ ~(i > next[p])
    BY <1>2, <2>1 DEF InTurn
  <2>3. stage[p] = "answered" => next[p] = Len(post[p].items) + 1
    BY <2>1 DEF InTurn
  <2> QED
    BY <1>1, <2>1, <2>2, <2>3 DEF Ended
<1>4. pc[<<p, i>>] \in Answers
  BY <1>2, <1>3 DEF RoutesInv, InTurn
<1>5. pc[<<p, i>>] \in {"created", "publishRefused"}
  BY <1>4 DEF Settled, RoutesInv, StoredWereGranted, Answers
<1> QED
  BY <1>1, <1>5 DEF Settled, RoutesInv, IngestInv, WriteOrder

LEMMA RetriesHitStep == RoutesInv /\ [RoutesNext]_allVars => RetriesHit'
<1> SUFFICES ASSUME RoutesInv, [RoutesNext]_allVars PROVE RetriesHit'
  OBVIOUS
<1>a. TypeOK /\ RouteTypes /\ InTurn /\ RetriesHit
  BY DEF RoutesInv, IngestInv
<1>b. \A p \in Posts : \A i \in Items(p) : <<p, i>> \in Requests
  BY <1>a, ItemRequest DEF RouteTypes
<1>c. \A p \in Posts : seen[p] \subseteq Posts
  BY <1>a DEF RouteTypes
\* The steps of the routes proper: what has ended stays as it is.
<1>1. ASSUME UNCHANGED <<call, pc, chLogs, post>>,
             \A p \in Posts : stage[p] \in Ended => stage'[p] = stage[p] /\ next'[p] = next[p],
             \A q \in Posts : \/ seen'[q] = seen[q]
                              \/ /\ seen'[q] = {p \in Posts : stage[p] \in Ended}
                                 /\ \A j \in Items(q) : pc[<<q, j>>] = "new"
      PROVE  RetriesHit'
  <2> SUFFICES ASSUME NEW q \in Posts, NEW p \in seen'[q]
               PROVE  /\ stage'[p] \in Ended
                      /\ \A i \in Items(p), j \in Items(q) :
                           Settled(p, i)' /\ Row(<<p, i>>) = Row(<<q, j>>)
                           => pc[<<q, j>>] \in {"new", "lookup", "fetch", "replayed", "missing"}
    BY <1>1 DEF RetriesHit, Items, Row, Ended
  <2>1. p \in Posts /\ stage[p] \in Ended
    BY <1>1, <1>a, <1>c DEF RetriesHit
  <2>2. stage'[p] \in Ended /\ \A i \in Items(p) : Settled(p, i)' => Settled(p, i)
    BY <1>1, <2>1 DEF Settled, Ended
  <2> QED
    BY <1>1, <1>a, <2>1, <2>2 DEF RetriesHit
<1>2. ASSUME NEW p \in Posts, Arrive(p) PROVE RetriesHit'
  <2>1. UNCHANGED <<call, pc, chLogs, post>> /\ UNCHANGED next /\ stage[p] = "arrives"
    BY <1>2 DEF Arrive, vars, stores
  <2>2. \A q \in Posts : stage[q] \in Ended => stage'[q] = stage[q]
    BY <1>2 DEF Arrive, Ended
  <2>3. \A q \in Posts : \/ seen'[q] = seen[q]
                         \/ /\ seen'[q] = {o \in Posts : stage[o] \in Ended}
                            /\ \A j \in Items(q) : pc[<<q, j>>] = "new"
    BY <1>2, <1>a, <2>1 DEF Arrive, InTurn, RouteTypes
  <2> QED
    BY <1>1, <2>1, <2>2, <2>3
<1>3. ASSUME NEW p \in Posts, Refuse(p) \/ RejectItem(p) \/ TakeAnswer(p) \/ FailItem(p)
      PROVE  RetriesHit'
  <2>1. UNCHANGED <<call, pc, chLogs, post>> /\ seen' = seen /\ stage[p] \in {"arrives", "items"}
    BY <1>3 DEF Refuse, RejectItem, TakeAnswer, FailItem, Fail, Advance, vars, stores
  <2>2. \A q \in Posts : stage[q] \in Ended => stage'[q] = stage[q] /\ next'[q] = next[q]
    BY <1>3, <1>a, <2>1 DEF Refuse, RejectItem, TakeAnswer, FailItem, Advance, Ended, RouteTypes
  <2> QED
    BY <1>1, <2>1, <2>2
<1>4. CASE CrashPosts
  <2>1. UNCHANGED <<call, pc, chLogs, post, seen, next>>
    BY <1>4 DEF CrashPosts, stores
  <2>2. \A q \in Posts : stage[q] \in Ended => stage'[q] = stage[q]
    BY <1>4 DEF CrashPosts, Ended
  <2> QED
    BY <1>1, <2>1, <2>2
<1>5. ASSUME NEW l \in Requests, ExpireLog(l), UNCHANGED routeVars PROVE RetriesHit'
  BY <1>1, <1>5 DEF ExpireLog, routeVars
<1>6. CASE UNCHANGED allVars
  BY <1>1, <1>6 DEF allVars, vars, routeVars, stores
\* A step of the store is one of a post that has not ended: it touches no
\* settled item, and an item that finds the row of one goes on to its replay.
<1>7. ASSUME NEW o \in Posts, IngestItem(o) PROVE RetriesHit'
  <2> DEFINE r == <<o, next[o]>>
  <2>1. stage[o] = "items" /\ r \in Requests /\ Step(r) /\ UNCHANGED routeVars
    BY <1>7, <1>a, <1>b DEF IngestItem, InTurn
  <2>2. call' = call /\ \A s \in Requests \ {r} : pc'[s] = pc[s] /\ (s \in chLogs' <=> s \in chLogs)
    BY <1>a, <2>1, StepLocal
  <2> SUFFICES ASSUME NEW q \in Posts, NEW p \in seen[q], NEW i \in Items(p), NEW j \in Items(q),
                      Settled(p, i)', Row(<<p, i>>) = Row(<<q, j>>)
               PROVE  pc'[<<q, j>>] \in {"new", "lookup", "fetch", "replayed", "missing"}
    BY <1>a, <2>1, <2>2 DEF RetriesHit, Items, Row, Ended, routeVars
  <2>3. p \in Posts /\ stage[p] \in Ended /\ p # o /\ <<p, i>> \in Requests \ {r}
    BY <1>a, <1>b, <1>c, <2>1 DEF RetriesHit, Ended
  <2>4. Settled(p, i)
    BY <2>1, <2>2, <2>3 DEF Settled, routeVars, Ended
  <2>5. pc[<<q, j>>] \in {"new", "lookup", "fetch", "replayed", "missing"}
    BY <1>a, <2>4 DEF RetriesHit
  <2>6. CASE <<q, j>> # r
    BY <1>b, <2>2, <2>5, <2>6
  <2>7. CASE <<q, j>> = r
    <3>1. idempotency[Row(r)] # NoLog
      BY <2>3, <2>4, <2>7, SettledMapped
    <3>2. call[r].idem # NoIdem
      <4>1. Row(<<p, i>>)[2] = call[<<p, i>>].idem /\ Row(r)[2] = call[r].idem
        BY DEF Row
      <4> QED
        BY <2>4, <2>7, <4>1 DEF Settled
    <3>3. pc[r] \in {"new", "lookup", "fetch"}
      BY <1>a, <2>1, <2>5, <2>7, StepLocal DEF Operations
    <3> HIDE DEF r
    <3> QED
      BY <1>a, <2>1, <2>7, <3>1, <3>2, <3>3, ReplayPath
  <2> QED
    BY <2>6, <2>7
<1> QED
  BY <1>2, <1>3, <1>4, <1>5, <1>6, <1>7 DEF RoutesNext

LEMMA RoutesInvariant == RoutesSpec => []RoutesInv
<1>1. RoutesInit => RoutesInv
  <2>1. RoutesInit => IngestInv /\ StoredWereGranted /\ RouteTypes /\ InTurn
    BY TypesInit, IngestInit DEF Init, StoredWereGranted
  <2>2. RoutesInit => RetriesHit
    BY DEF RoutesInit, RetriesHit
  <2> QED
    BY <2>1, <2>2 DEF RoutesInv
<1>2. RoutesInv /\ [RoutesNext]_allVars => RoutesInv'
  <2> SUFFICES ASSUME RoutesInv, [RoutesNext]_allVars PROVE RoutesInv'
    OBVIOUS
  <2>1. TypeOK /\ RouteTypes /\ InTurn /\ IngestInv /\ StoredWereGranted
    BY DEF RoutesInv, IngestInv
  <2>2. [Next]_vars
    BY <2>1, RoutesStepIsStep
  <2>3. IngestInv' /\ StoredWereGranted'
    BY <2>1, <2>2, IngestStep, StoredStep
  <2>4. RouteTypes' /\ InTurn'
    BY <2>1, RouteTypesStep
  <2>5. RetriesHit'
    BY RetriesHitStep
  <2> QED
    BY <2>3, <2>4, <2>5 DEF RoutesInv
<1> QED
  BY <1>1, <1>2, PTL DEF RoutesSpec

\* The variables of posts and of the store have their types, for batches of
\* any length.
THEOREM RoutesTypeCorrect == RoutesSpec => []RoutesTypeOK
<1>1. RoutesInv => RoutesTypeOK
  BY DEF RoutesInv, IngestInv, RouteTypes, RoutesTypeOK
<1> QED
  BY <1>1, RoutesInvariant, PTL

\* What a post reports of its items is what the store holds of them.
THEOREM ReportsTrue == RoutesSpec => []ReportedAsStored
<1>1. ASSUME RoutesInv, NEW p \in Posts
      PROVE  /\ \A i \in Accepted(p) : LogOf(p, i) \in chLogs
             /\ \A i \in Rejected(p) : <<p, i>> \in chLogs => pc[<<p, i>>] = "publishRefused"
             /\ \A i \in Items(p) : i > next[p] => <<p, i>> \notin chLogs
  <2>1. \A i \in Items(p) : <<p, i>> \in Requests
    BY <1>1, ItemRequest DEF RoutesInv, RouteTypes
  <2>2. WriteOrder /\ LookupsSound /\ InTurn /\ StoredWereGranted
    BY <1>1 DEF RoutesInv, IngestInv
  <2>3. \A i \in Accepted(p) : LogOf(p, i) \in chLogs
    BY <2>1, <2>2 DEF Accepted, LogOf, WriteOrder, LookupsSound
  <2>4. \A i \in Rejected(p) : <<p, i>> \in chLogs => pc[<<p, i>>] = "publishRefused"
    BY <2>1, <2>2 DEF Rejected, Accepted, InTurn, StoredWereGranted, Answers
  <2>5. \A i \in Items(p) : i > next[p] => <<p, i>> \notin chLogs
    BY <2>1, <2>2 DEF InTurn, StoredWereGranted
  <2> QED
    BY <2>3, <2>4, <2>5
<1>2. RoutesInv => ReportedAsStored
  BY <1>1 DEF ReportedAsStored
<1> QED
  BY <1>2, RoutesInvariant, PTL

\* A retry that arrives after a post has ended stores again at most the item at
\* which that post broke off.
THEOREM RetriesStoreTheRest == RoutesSpec => []RetryStoresTheRest
<1>1. ASSUME RoutesInv, NEW q \in Posts, NEW p \in seen[q], NEW i \in Items(p), NEW j \in Items(q),
             Row(<<p, i>>) = Row(<<q, j>>), call[<<p, i>>].idem # NoIdem,
             {<<p, i>>, <<q, j>>} \subseteq chLogs, ~(stage[p] = "failed" /\ i = next[p])
      PROVE  FALSE
  <2>1. Settled(p, i)
    BY <1>1 DEF Settled, RoutesInv, RetriesHit
  <2>2. pc[<<q, j>>] \in {"new", "lookup", "fetch", "replayed", "missing"}
    BY <1>1, <2>1 DEF RoutesInv, RetriesHit
  <2> QED
    BY <1>1, <2>2 DEF RoutesInv, StoredWereGranted
<1>2. RoutesInv => RetryStoresTheRest
  BY <1>1 DEF RetryStoresTheRest
<1> QED
  BY <1>2, RoutesInvariant, PTL

\* The requests of a post ask for what its items say.
CallsAsPosted == \A p \in Posts : \A i \in Items(p) : call[<<p, i>>] = CallOf(post[p], i)

\* No two items of a batch with a batch key are answered with the same log.
THEOREM ItemsApart == RoutesSpec => []ItemsKeptApart
<1>1. RoutesInit => CallsAsPosted
  <2> SUFFICES ASSUME RoutesInit, NEW p \in Posts, NEW i \in Items(p)
               PROVE  call[<<p, i>>] = CallOf(post[p], i)
    BY DEF CallsAsPosted
  <2>1. <<p, i>> \in Requests
    BY ItemRequest DEF RoutesInit
  <2> QED
    BY <2>1 DEF RoutesInit
<1>2. RoutesInv /\ CallsAsPosted /\ [RoutesNext]_allVars => CallsAsPosted'
  <2> SUFFICES ASSUME RoutesInv, CallsAsPosted, [RoutesNext]_allVars PROVE CallsAsPosted'
    OBVIOUS
  <2>1. post' = post
    BY DEF RoutesNext, allVars, routeVars, Arrive, Refuse, RejectItem, IngestItem, TakeAnswer,
           Advance, FailItem, CrashPosts
  <2>2. [Next]_vars /\ TypeOK
    BY RoutesStepIsStep DEF RoutesInv, IngestInv
  <2>3. call' = call
    BY <2>2, StepLocal DEF Next, Fail, Crash, ExpireLog, vars
  <2> QED
    BY <2>1, <2>3 DEF CallsAsPosted, Items, CallOf, ItemCall, IdemOf
<1>3. ASSUME RoutesInv, CallsAsPosted, NEW p \in Posts, post[p].batchKey # NoIdem,
             NEW i \in Accepted(p), NEW j \in Accepted(p), i # j
      PROVE  LogOf(p, i) # LogOf(p, j)
  <2>1. \A k \in Items(p) : k <= Len(post[p].items) /\ <<p, k>> \in Requests /\ k \in Nat
    BY <1>3, ItemRequest DEF RoutesInv, RouteTypes, Items
  <2>2. LookupsSound
    BY <1>3 DEF RoutesInv, IngestInv
  <2>3. \A k \in Accepted(p) : Row(LogOf(p, k)) = Row(<<p, k>>)
    BY <2>1, <2>2 DEF Accepted, LogOf, LookupsSound
  <2>4. \A k \in Items(p) : Row(<<p, k>>)[2] = <<post[p].batchKey, k>>
    <3> SUFFICES ASSUME NEW k \in Items(p) PROVE call[<<p, k>>].idem = <<post[p].batchKey, k>>
      BY DEF Row
    <3>1. call[<<p, k>>] = CallOf(post[p], k) /\ ~(k > Len(post[p].items))
      BY <1>3, <2>1, ItemRequest DEF CallsAsPosted, RoutesInv, RouteTypes
    <3>2. call[<<p, k>>].idem = IdemOf(post[p], k)
      BY <3>1 DEF CallOf, ItemCall
    <3> QED
      BY <1>3, <3>2 DEF IdemOf
  <2>5. i \in Items(p) /\ j \in Items(p)
    BY DEF Accepted
  <2>6. Row(<<p, i>>)[2] # Row(<<p, j>>)[2]
    BY <1>3, <2>4, <2>5
  <2> QED
    BY <2>3, <2>6
<1>4. RoutesInv /\ CallsAsPosted => ItemsKeptApart
  BY <1>3 DEF ItemsKeptApart
<1> QED
  BY <1>1, <1>2, <1>4, RoutesInvariant, PTL DEF RoutesSpec
====
