---- MODULE Attachments_proof ----
(***************************************************************************)
(* Type correctness, whole attachments and true reads, for every set of    *)
(* requests, logs, keys and grants.  Rows, objects and events only grow    *)
(* (Grows), an action of one request leaves the others where they are      *)
(* (Others), and so what a request knows stays true until it acts.         *)
(***************************************************************************)
EXTENDS Attachments, TLAPS

\* What a request has done by the time it does its next operation.
Reached(r) ==
    /\ pc[r] \in {"bucket", "make", "put", "commit"} => call[r].op = "add"
    /\ pc[r] \in {"row", "object"} => call[r].op = "download"
    /\ pc[r] = "audit" => call[r].op # "add"
    /\ pc[r] = "rows" => call[r].op = "list"
    /\ pc[r] \notin {"new", "refused"} => Allowed(r)
    /\ pc[r] = "put" => bucket
    /\ pc[r] = "commit" => r \in objects
    /\ pc[r] \in {"copy", "rows", "done"} => r \in audit
    /\ pc[r] \in {"rows", "done"} => r \in chAudit
    /\ pc[r] = "object" => call[r].target \in Attached(call[r].log)

\* What it has read.
Told(r) ==
    /\ known[r] \subseteq Attached(call[r].log)
    /\ call[r].op # "add" => answer[r] \subseteq Attached(call[r].log)
    /\ call[r].op = "download" /\ pc[r] \in {"audit", "copy", "done"} => answer[r] = {call[r].target}
    /\ call[r].op = "list" /\ pc[r] = "done" => known[r] \subseteq answer[r]

\* What it has left in the stores.
Left(r) ==
    /\ r \in DOMAIN rows => /\ call[r].op = "add" /\ rows[r] = call[r].log
                            /\ r \in objects /\ r \in audit /\ Allowed(r)
    /\ r \in audit /\ call[r].op = "add" => r \in DOMAIN rows

IInv == TypeOK /\ \A r \in Requests : Reached(r) /\ Told(r) /\ Left(r)

\* The stores that only grow.
Grows ==
    /\ call' = call
    /\ DOMAIN rows \subseteq DOMAIN rows' /\ \A a \in DOMAIN rows : rows'[a] = rows[a]
    /\ objects \subseteq objects' /\ audit \subseteq audit' /\ chAudit \subseteq chAudit'
    /\ bucket => bucket'

\* Every request but r stays where it is.
Others(r) ==
    \A s \in Requests \ {r} : pc'[s] = pc[s] /\ answer'[s] = answer[s] /\ known'[s] = known[s]

-----------------------------------------------------------------------------

LEMMA AttachedGrows == ASSUME Grows, NEW l PROVE Attached(l) \subseteq Attached(l)'
BY DEF Grows, Attached

\* What holds of a request that stays where it is still holds when the stores grow.
LEMMA StaysTrue ==
    ASSUME Grows, NEW s \in Requests, Reached(s), Told(s),
           pc'[s] = pc[s], answer'[s] = answer[s], known'[s] = known[s]
    PROVE  Reached(s)' /\ Told(s)'
<1>1. call' = call
  BY DEF Grows
<1>2. Allowed(s)' = Allowed(s)
  BY <1>1 DEF Allowed
<1>3. Attached(call[s].log) \subseteq Attached(call[s].log)'
  BY <1>1, AttachedGrows
<1>4. Reached(s)'
  BY <1>1, <1>2, <1>3 DEF Reached, Grows
<1>5. Told(s)'
  BY <1>1, <1>3 DEF Told
<1> QED
  BY <1>4, <1>5

LEMMA CallTypes == TypeOK => /\ call \in [Requests -> Calls]
BY AttachmentsAssumption DEF TypeOK

LEMMA InvInit == Init => IInv
<1> SUFFICES ASSUME Init PROVE IInv
  OBVIOUS
<1>1. TypeOK
  BY DEF Init, TypeOK
<1>2. ASSUME NEW r \in Requests PROVE Reached(r) /\ Told(r) /\ Left(r)
  <2>1. pc[r] = "new" /\ answer[r] = {} /\ known[r] = {} /\ DOMAIN rows = {} /\ audit = {}
    BY DEF Init
  <2> QED
    BY <2>1 DEF Reached, Told, Left
<1> QED
  BY <1>1, <1>2 DEF IInv

\* An action of one request that leaves rows and Postgres's events alone.
LEMMA ReadOnlyStep ==
    ASSUME IInv, NEW r \in Requests, Grows, Others(r), UNCHANGED <<rows, audit>>,
           TypeOK', Reached(r)', Told(r)'
    PROVE  IInv'
<1>1. ASSUME NEW s \in Requests PROVE Reached(s)' /\ Told(s)'
  <2>1. CASE s = r
    BY <2>1
  <2>2. CASE s # r
    BY <2>2, StaysTrue DEF IInv, Others
  <2> QED
    BY <2>1, <2>2
<1>2. ASSUME NEW s \in Requests PROVE Left(s)'
  <2>1. Left(s) /\ call' = call /\ objects \subseteq objects'
    BY DEF IInv, Grows
  <2> QED
    BY <2>1 DEF Left, Allowed
<1> QED
  BY <1>1, <1>2 DEF IInv

LEMMA FindLogKeeps == ASSUME IInv, NEW r \in Requests, FindLog(r) PROVE IInv'
<1>0. Grows /\ Others(r) /\ UNCHANGED <<rows, audit>>
  BY DEF FindLog, Goto, IInv, TypeOK, Grows, Others, stores
<1>1. /\ pc[r] = "new" /\ call[r] \in Calls /\ answer' = answer
      /\ pc'[r] = IF call[r].log \in logs /\ Allowed(r) THEN FirstStage(call[r].op) ELSE "refused"
      /\ known'[r] = {a \in Attached(call[r].log) : pc[a] = "done"}
  BY CallTypes DEF FindLog, At, Goto, IInv, TypeOK
<1>2. TypeOK'
  <2>1. Attached(call[r].log) \subseteq Requests /\ FirstStage(call[r].op) \in Stages
    BY <1>1 DEF Attached, IInv, TypeOK, FirstStage, Stages, Calls
  <2> QED
    BY <2>1 DEF FindLog, Goto, IInv, TypeOK, stores
<1>3. Reached(r)'
  <2>1. call' = call /\ Allowed(r)' = Allowed(r)
    BY <1>0 DEF Grows, Allowed
  <2>2. CASE pc'[r] = "refused"
    BY <2>2 DEF Reached
  <2>3. CASE pc'[r] # "refused"
    <3>1. pc'[r] = FirstStage(call[r].op) /\ Allowed(r)
      BY <1>1, <2>3
    <3> QED
      BY <1>1, <2>1, <3>1 DEF Reached, FirstStage, Calls
  <2> QED
    BY <2>2, <2>3
<1>4. Told(r)'
  <2>1. call' = call /\ Attached(call[r].log)' = Attached(call[r].log)
    BY <1>0 DEF Grows, Attached
  <2>2. call[r].op \in {"list", "download"} => pc'[r] \notin {"copy", "done"}
    BY <1>1 DEF FirstStage, Calls
  <2>3. call[r].op = "download" => pc'[r] # "audit"
    BY <1>1 DEF FirstStage
  <2> QED
    BY <1>1, <2>1, <2>2, <2>3 DEF Told, IInv
<1> QED
  BY <1>0, <1>2, <1>3, <1>4, ReadOnlyStep

LEMMA BucketKeeps ==
    ASSUME IInv, NEW r \in Requests, LookForBucket(r) \/ MakeBucket(r) \/ Put(r) PROVE IInv'
<1>0. Grows /\ Others(r) /\ UNCHANGED <<rows, audit, answer, known>>
  BY DEF LookForBucket, MakeBucket, Put, Goto, IInv, TypeOK, Grows, Others, stores
<1>1. TypeOK'
  <2>1. pc[r] = "put" => bucket
    BY DEF IInv, Reached
  <2> QED
    BY <2>1 DEF LookForBucket, MakeBucket, Put, At, Goto, IInv, TypeOK, Stages, stores
<1>2. /\ pc[r] \in {"bucket", "make", "put"} /\ pc'[r] \in {"make", "put", "commit"}
      /\ pc'[r] = "put" => bucket'
      /\ pc'[r] = "commit" => r \in objects'
  BY DEF LookForBucket, MakeBucket, Put, At, Goto, IInv, TypeOK, stores
<1>3. call[r].op = "add" /\ Allowed(r) /\ Told(r) /\ call' = call
  BY <1>0, <1>2 DEF IInv, Reached, Grows
<1>4. Reached(r)'
  BY <1>2, <1>3 DEF Reached, Allowed
<1>5. Told(r)'
  BY <1>0, <1>2, <1>3 DEF Told, Attached
<1> QED
  BY <1>0, <1>1, <1>4, <1>5, ReadOnlyStep

LEMMA CommitKeeps == ASSUME IInv, NEW r \in Requests, Commit(r) PROVE IInv'
<1>1. /\ pc[r] = "commit" /\ call[r].op = "add" /\ Allowed(r) /\ r \in objects
      /\ r \in DOMAIN rows => rows[r] = call[r].log
  BY DEF Commit, At, IInv, Reached, Left
<1>2. /\ DOMAIN rows' = DOMAIN rows \union {r} /\ rows'[r] = call[r].log
      /\ \A a \in DOMAIN rows : rows'[a] = rows[a]
      /\ audit' = audit \union {r} /\ pc' = [pc EXCEPT ![r] = "copy"]
      /\ UNCHANGED <<call, dead, answer, known, logs, bucket, objects, chAudit>>
  BY <1>1 DEF Commit, WithRow, Goto
<1>3. Grows /\ Others(r)
  BY <1>2 DEF Grows, Others, IInv, TypeOK
<1>4. TypeOK'
  <2>1. call[r].log \in Logs
    BY CallTypes DEF IInv, Calls
  <2>2. rows' = [a \in DOMAIN rows' |-> rows'[a]]
    BY DEF Commit, WithRow
  <2>3. rows' \in [DOMAIN rows' -> Logs] /\ DOMAIN rows' \subseteq Requests
    BY <1>2, <2>1, <2>2 DEF IInv, TypeOK
  <2> QED
    BY <1>2, <2>3 DEF IInv, TypeOK, Stages
<1>5. Allowed(r)' = Allowed(r)
  BY <1>2 DEF Allowed
<1>6. Reached(r)'
  <2>1. pc'[r] = "copy"
    BY <1>2 DEF IInv, TypeOK
  <2> QED
    BY <1>1, <1>2, <1>5, <2>1 DEF Reached
<1>7. Told(r)'
  <2>1. Attached(call[r].log) \subseteq Attached(call[r].log)'
    BY <1>2, <1>3, AttachedGrows
  <2> QED
    BY <1>1, <1>2, <2>1 DEF Told, IInv
<1>8. ASSUME NEW s \in Requests PROVE Reached(s)' /\ Told(s)' /\ Left(s)'
  <2>1. Reached(s)' /\ Told(s)'
    <3>1. CASE s = r
      BY <1>6, <1>7, <3>1
    <3>2. CASE s # r
      BY <1>3, <3>2, StaysTrue DEF IInv, Others
    <3> QED
      BY <3>1, <3>2
  <2>2. Left(s)'
    <3>1. CASE s = r
      BY <1>1, <1>2, <1>5, <3>1 DEF Left
    <3>2. CASE s # r
      <4>1. Left(s) /\ Allowed(s)' = Allowed(s)
        BY <1>2 DEF IInv, Allowed
      <4> QED
        BY <1>2, <3>2, <4>1 DEF Left
    <3> QED
      BY <3>1, <3>2
  <2> QED
    BY <2>1, <2>2
<1> QED
  BY <1>4, <1>8 DEF IInv

LEMMA DownloadKeeps ==
    ASSUME IInv, NEW r \in Requests, FindRow(r) \/ GetObject(r) PROVE IInv'
<1>0. Grows /\ Others(r) /\ UNCHANGED <<rows, audit, known, call>>
  BY DEF FindRow, GetObject, Goto, IInv, TypeOK, Grows, Others, stores
<1>1. /\ pc[r] \in {"row", "object"} /\ call[r].op = "download" /\ Allowed(r)
      /\ call[r] \in Calls /\ Reached(r) /\ Told(r)
  BY CallTypes DEF FindRow, GetObject, At, IInv, Reached
<1>2. TypeOK'
  BY <1>1 DEF FindRow, GetObject, Goto, IInv, TypeOK, Stages, stores, Calls
<1>3. Allowed(r)' = Allowed(r) /\ Attached(call[r].log)' = Attached(call[r].log)
  BY <1>0 DEF Allowed, Attached
<1>4. CASE FindRow(r)
  <2>1. /\ answer' = answer
        /\ \/ pc'[r] = "object" /\ call[r].target \in Attached(call[r].log)
           \/ pc'[r] = "refused"
    BY <1>4 DEF FindRow, Goto, IInv, TypeOK
  <2>2. Reached(r)'
    BY <1>0, <1>1, <1>3, <2>1 DEF Reached
  <2>3. Told(r)'
    BY <1>0, <1>1, <1>3, <2>1 DEF Told
  <2> QED
    BY <1>0, <1>2, <2>2, <2>3, ReadOnlyStep
<1>5. CASE GetObject(r)
  <2>1. call[r].target \in Attached(call[r].log)
    BY <1>1, <1>5 DEF GetObject, At, Reached
  <2>2. \/ pc'[r] = "audit" /\ answer'[r] = {call[r].target}
        \/ UNCHANGED <<pc, answer>> /\ pc[r] = "object"
    BY <1>5 DEF GetObject, At, Goto, IInv, TypeOK
  <2>3. Reached(r)'
    BY <1>0, <1>1, <1>3, <2>1, <2>2 DEF Reached
  <2>4. Told(r)'
    BY <1>0, <1>1, <1>3, <2>1, <2>2 DEF Told
  <2> QED
    BY <1>0, <1>2, <2>3, <2>4, ReadOnlyStep
<1> QED
  BY <1>4, <1>5

LEMMA RecordAuditKeeps == ASSUME IInv, NEW r \in Requests, RecordAudit(r) PROVE IInv'
<1>0. Grows /\ Others(r) /\ UNCHANGED <<call, rows, objects, answer, known, chAudit>>
  BY DEF RecordAudit, Goto, IInv, TypeOK, Grows, Others
<1>1. /\ call[r].op # "add" /\ Allowed(r) /\ pc[r] = "audit" /\ pc'[r] = "copy"
      /\ audit' = audit \union {r} /\ Told(r)
  BY DEF RecordAudit, At, Goto, IInv, TypeOK, Reached
<1>2. TypeOK'
  BY DEF RecordAudit, Goto, IInv, TypeOK, Stages
<1>3. Reached(r)' /\ Told(r)'
  <2>1. Allowed(r)' = Allowed(r) /\ Attached(call[r].log)' = Attached(call[r].log)
    BY <1>0 DEF Allowed, Attached
  <2> QED
    BY <1>0, <1>1, <2>1 DEF Reached, Told
<1>4. ASSUME NEW s \in Requests PROVE Reached(s)' /\ Told(s)' /\ Left(s)'
  <2>1. Reached(s)' /\ Told(s)'
    <3>1. CASE s = r
      BY <1>3, <3>1
    <3>2. CASE s # r
      BY <1>0, <3>2, StaysTrue DEF IInv, Others
    <3> QED
      BY <3>1, <3>2
  <2>2. Left(s)'
    <3>1. Left(s) /\ Allowed(s)' = Allowed(s)
      BY <1>0 DEF IInv, Allowed
    <3> QED
      BY <1>0, <1>1, <3>1 DEF Left
  <2> QED
    BY <2>1, <2>2
<1> QED
  BY <1>2, <1>4 DEF IInv

LEMMA CopyAuditKeeps == ASSUME IInv, NEW r \in Requests, CopyAudit(r) PROVE IInv'
<1>0. Grows /\ Others(r) /\ UNCHANGED <<rows, audit, call, objects, answer, known>>
  BY DEF CopyAudit, Goto, IInv, TypeOK, Grows, Others
<1>1. /\ pc[r] = "copy" /\ r \in audit /\ chAudit' = chAudit \union {r} /\ Reached(r) /\ Told(r)
      /\ pc'[r] = IF call[r].op = "list" THEN "rows" ELSE "done"
  BY DEF CopyAudit, At, Goto, IInv, TypeOK, Reached
<1>2. TypeOK'
  BY <1>1 DEF CopyAudit, Goto, IInv, TypeOK, Stages
<1>3. Allowed(r)' = Allowed(r) /\ Attached(call[r].log)' = Attached(call[r].log)
  BY <1>0 DEF Allowed, Attached
<1>4. Reached(r)'
  BY <1>0, <1>1, <1>3 DEF Reached
<1>5. Told(r)'
  BY <1>0, <1>1, <1>3 DEF Told
<1> QED
  BY <1>0, <1>2, <1>4, <1>5, ReadOnlyStep

LEMMA ReadRowsKeeps == ASSUME IInv, NEW r \in Requests, ReadRows(r) PROVE IInv'
<1>0. Grows /\ Others(r) /\ UNCHANGED <<rows, audit, chAudit, call, known>>
  BY DEF ReadRows, Goto, IInv, TypeOK, Grows, Others, stores
<1>1. /\ pc[r] = "rows" /\ call[r].op = "list" /\ Reached(r) /\ Told(r)
      /\ pc'[r] = "done" /\ answer'[r] = Attached(call[r].log)
  BY DEF ReadRows, At, Goto, IInv, TypeOK, Reached
<1>2. TypeOK'
  <2>1. Attached(call[r].log) \subseteq Requests
    BY DEF Attached, IInv, TypeOK
  <2> QED
    BY <2>1 DEF ReadRows, Goto, IInv, TypeOK, stores
<1>3. Allowed(r)' = Allowed(r) /\ Attached(call[r].log)' = Attached(call[r].log)
  BY <1>0 DEF Allowed, Attached
<1>4. Reached(r)'
  BY <1>0, <1>1, <1>3 DEF Reached
<1>5. Told(r)'
  BY <1>0, <1>1, <1>3 DEF Told
<1> QED
  BY <1>0, <1>2, <1>4, <1>5, ReadOnlyStep

\* Failures, the death of the process, retention and steps of other variables
\* touch nothing that the invariant speaks of.
LEMMA RestKeeps ==
    ASSUME IInv, TypeOK', UNCHANGED <<call, pc, answer, known, bucket, objects, rows, audit, chAudit>>
    PROVE  IInv'
<1>1. ASSUME NEW s \in Requests PROVE Reached(s)' /\ Told(s)' /\ Left(s)'
  <2>1. Reached(s) /\ Told(s) /\ Left(s)
    BY DEF IInv
  <2>2. Allowed(s)' = Allowed(s) /\ Attached(call[s].log)' = Attached(call[s].log)
    BY DEF Allowed, Attached
  <2> QED
    BY <2>1, <2>2 DEF Reached, Told, Left
<1> QED
  BY <1>1 DEF IInv

LEMMA InvStep == IInv /\ [Next]_vars => IInv'
<1> SUFFICES ASSUME IInv, [Next]_vars PROVE IInv'
  OBVIOUS
<1>1. ASSUME NEW r \in Requests,
             FindLog(r) \/ Upload(r) \/ Read(r) \/ CopyAudit(r)
      PROVE  IInv'
  BY <1>1, FindLogKeeps, BucketKeeps, CommitKeeps, DownloadKeeps, RecordAuditKeeps,
     CopyAuditKeeps, ReadRowsKeeps DEF Upload, Read
<1>2. ASSUME \/ \E r \in Requests : Fail(r)
             \/ Crash
             \/ \E l \in Logs : ExpireLog(l)
             \/ UNCHANGED vars
      PROVE  IInv'
  <2>1. UNCHANGED <<call, pc, answer, known, bucket, objects, rows, audit, chAudit>>
    BY <1>2 DEF Fail, Crash, ExpireLog, vars, stores
  <2>2. logs' \subseteq logs /\ dead' \subseteq dead \union Requests
    BY <1>2 DEF Fail, Crash, ExpireLog, vars, stores
  <2>3. TypeOK'
    BY <2>1, <2>2 DEF IInv, TypeOK
  <2> QED
    BY <2>1, <2>3, RestKeeps
<1> QED
  BY <1>1, <1>2 DEF Next

LEMMA InvHolds == Spec => []IInv
<1> QED
  BY InvInit, InvStep, PTL DEF Spec

-----------------------------------------------------------------------------

\* Every variable keeps its type; no event is in ClickHouse that is not in
\* Postgres, and there are no objects without the bucket.
THEOREM TypeCorrect == Spec => []TypeOK
<1>1. IInv => TypeOK
  BY DEF IInv
<1> QED
  BY <1>1, InvHolds, PTL

\* Whatever fails between MinIO and Postgres, an attachment with a row is
\* stored and audited, by a key that may write to its log.
THEOREM Whole == Spec => []AttachmentsWhole
<1>1. IInv => AttachmentsWhole
  <2> SUFFICES ASSUME IInv PROVE AttachmentsWhole
    OBVIOUS
  <2>1. DOMAIN rows \subseteq Requests /\ audit \subseteq Requests
    BY DEF IInv, TypeOK
  <2>2. ASSUME NEW a \in DOMAIN rows
        PROVE  /\ a \in objects \intersect audit
               /\ rows[a] = call[a].log /\ <<call[a].key, rows[a]>> \in Writable
    BY <2>1, <2>2 DEF IInv, Left, Allowed
  <2>3. ASSUME NEW r \in audit, call[r].op = "add" PROVE r \in DOMAIN rows
    BY <2>1, <2>3 DEF IInv, Left
  <2> QED
    BY <2>2, <2>3 DEF AttachmentsWhole
<1> QED
  BY <1>1, InvHolds, PTL

\* An answered read was allowed and is audited twice; it shows its log's
\* attachments only, and those that were acknowledged before it began.
THEOREM ReadsAreTrue == Spec => []ReadsTrue
<1>1. IInv => ReadsTrue
  <2> SUFFICES ASSUME IInv, NEW r \in Requests, pc[r] = "done"
               PROVE  /\ r \in audit \intersect chAudit
                      /\ call[r].op # "add" => /\ <<call[r].key, call[r].log>> \in Readable
                                               /\ answer[r] \subseteq Attached(call[r].log)
                      /\ call[r].op = "list" => known[r] \subseteq answer[r]
                      /\ call[r].op = "download" => answer[r] = {call[r].target}
    BY DEF ReadsTrue
  <2>1. Reached(r) /\ Told(r)
    BY DEF IInv
  <2> QED
    BY <2>1 DEF Reached, Told, Allowed
<1> QED
  BY <1>1, InvHolds, PTL
====
