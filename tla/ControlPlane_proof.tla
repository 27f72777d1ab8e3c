---- MODULE ControlPlane_proof ----
(***************************************************************************)
(* The isolation of organisations, the grants of every stored log, the     *)
(* audit log and the refinement of Registry, for every set of requests,    *)
(* calls and seeded rows.  Rows are never removed or changed (Grows), so a *)
(* check that has passed would still pass when the request writes (Stays): *)
(* that is why the handlers need no lock between their reads and their     *)
(* transaction.                                                            *)
(***************************************************************************)
EXTENDS ControlPlane, SequenceTheorems, TLAPS

\* The checks that the creation of a key may make.
CheckSet == {"agent", "project", "source"} \X (Ids \union {NoId})

\* A check that passed, on a row that exists.
Holds(r, check) == Passes(r, check) /\ (check[1] = "projectOf" => check[2] \in DOMAIN sources)

\* The key that authenticated r is there and permits what r asks for.
Admitted(r) == call[r].key \in DOMAIN keys /\ Permitted(r)

\* r is a write that has been given a source of the key's.
OnlySource(r) == call[r].op = "logs.write" /\ call[r].source = NoId => resolved[r] \in Candidates(r)

\* The checks that r has made, and the ones it makes.
Checked(r) == \A i \in DOMAIN ChecksOf(r) : i < step[r] => Holds(r, ChecksOf(r)[i])
Cleared(r) == \A i \in DOMAIN ChecksOf(r) : Holds(r, ChecksOf(r)[i])

\* What a request has got past, by the operation it does next.
Passed(r) ==
    /\ pc[r] \in {"new", "agent", "resolve"} => step[r] = 1
    /\ pc[r] = "agent" => call[r].key \in DOMAIN keys
    /\ pc[r] \in {"resolve", "check", "insert"} => Admitted(r)
    /\ pc[r] \in {"commit", "copy", "done"} => Admitted(r) \/ call[r].op = "orgs.create"
    /\ pc[r] = "insert" => call[r].op = "logs.write"
    /\ pc[r] = "resolve" => call[r].op = "logs.write" /\ call[r].source = NoId
    /\ pc[r] \in {"check", "insert", "commit", "copy", "done"} => OnlySource(r)
    /\ pc[r] = "check" => Checked(r)
    /\ pc[r] \in {"insert", "commit", "copy", "done"} => Cleared(r)

\* The requests that a table may name, and what its transaction left.
Wrote(r) ==
    /\ pc[r] \in {"commit", "copy", "done"} /\ call[r].op = "logs.write" => r \in DOMAIN chLogs
    /\ r \in DOMAIN chLogs => /\ pc[r] \in {"commit", "copy", "done"}
                              /\ call[r].op = "logs.write" /\ chLogs[r] = Target(r)
    /\ r \in Effective => pc[r] \in {"copy", "done"}
    /\ pc[r] \in {"copy", "done"} =>
         /\ EventOf(r) \in audit
         /\ call[r].op = "api_keys.revoke" => call[r].target \in revoked
         /\ call[r].op \notin {"logs.write", "logs.tail.start"} => r \in Effective
    /\ pc[r] = "done" => EventOf(r) \in chAudit

Events == \A e \in audit : pc[e.request] \in {"copy", "done"} /\ e = EventOf(e.request)

IInv ==
    /\ TypeOK /\ GrantsWithinOrg /\ Events
    /\ \A r \in Requests : Passed(r) /\ Wrote(r)

\* No row is removed or changed.
Grows ==
    /\ call' = call
    /\ orgs \subseteq orgs' /\ revoked \subseteq revoked'
    /\ DOMAIN agents \subseteq DOMAIN agents' /\ \A x \in DOMAIN agents : agents'[x] = agents[x]
    /\ DOMAIN projects \subseteq DOMAIN projects' /\ \A x \in DOMAIN projects : projects'[x] = projects[x]
    /\ DOMAIN sources \subseteq DOMAIN sources' /\ \A x \in DOMAIN sources : sources'[x] = sources[x]
    /\ DOMAIN keys \subseteq DOMAIN keys' /\ \A x \in DOMAIN keys : keys'[x] = keys[x]

-----------------------------------------------------------------------------

LEMMA CallTypes == ASSUME TypeOK, NEW r \in Requests PROVE call[r] \in Calls
BY TenantsAssumption DEF TypeOK

Has(seq, x) == \E n \in DOMAIN seq : seq[n] = x

\* The parts of a sequence made of three are found in it.
LEMMA ThreeParts ==
    ASSUME NEW S, NEW a \in Seq(S), NEW p \in Seq(S), NEW q \in Seq(S), Len(a) = 1,
           NEW w, w = a \o p \o q
    PROVE  /\ w \in Seq(S) /\ Has(w, a[1])
           /\ \A i \in 1..Len(p) : Has(w, p[i])
           /\ \A i \in 1..Len(q) : Has(w, q[i])
<1>1. Len(p) \in Nat /\ Len(q) \in Nat
  BY LenProperties
<1>2. /\ a \o p \in Seq(S) /\ Len(a \o p) = 1 + Len(p)
      /\ \A i \in 1 .. 1 + Len(p) : (a \o p)[i] = IF i <= 1 THEN a[i] ELSE p[i - 1]
  <2>1. /\ a \o p \in Seq(S) /\ Len(a \o p) = Len(a) + Len(p)
        /\ \A i \in 1 .. Len(a) + Len(p) : (a \o p)[i] = IF i <= Len(a) THEN a[i] ELSE p[i - Len(a)]
    BY ConcatProperties, Zenon
  <2> QED
    BY <2>1, Zenon
<1>3. /\ w \in Seq(S) /\ Len(w) = 1 + Len(p) + Len(q) /\ DOMAIN w = 1 .. Len(w)
      /\ \A i \in 1 .. 1 + Len(p) + Len(q) :
           w[i] = IF i <= 1 + Len(p) THEN (a \o p)[i] ELSE q[i - (1 + Len(p))]
  <2>1. /\ (a \o p) \o q \in Seq(S) /\ Len((a \o p) \o q) = Len(a \o p) + Len(q)
        /\ \A i \in 1 .. Len(a \o p) + Len(q) :
             ((a \o p) \o q)[i] = IF i <= Len(a \o p) THEN (a \o p)[i] ELSE q[i - Len(a \o p)]
    BY <1>2, ConcatProperties, Zenon
  <2>2. DOMAIN w = 1..Len(w)
    BY <2>1, LenProperties
  <2> QED
    BY <1>2, <2>1, <2>2, Zenon
<1>4. 1 \in DOMAIN w /\ w[1] = a[1]
  BY <1>1, <1>2, <1>3
<1>5. ASSUME NEW i \in 1..Len(p) PROVE 1 + i \in DOMAIN w /\ w[1 + i] = p[i]
  <2>1. 1 + i \in DOMAIN w /\ w[1 + i] = (a \o p)[1 + i]
    BY <1>1, <1>3
  <2>2. (a \o p)[1 + i] = p[(1 + i) - 1] /\ (1 + i) - 1 = i
    BY <1>1, <1>2
  <2> QED
    BY <2>1, <2>2
<1>6. ASSUME NEW i \in 1..Len(q) PROVE Has(w, q[i])
  <2>1. (1 + Len(p) + i) - (1 + Len(p)) = i
    BY <1>1
  <2>2. 1 + Len(p) + i \in DOMAIN w /\ w[1 + Len(p) + i] = q[i]
    BY <1>1, <1>3, <2>1
  <2> QED
    BY <2>2 DEF Has
<1> QED
  BY <1>3, <1>4, <1>5, <1>6 DEF Has

\* Ids turned into checks of one kind.
Tagged(tag, s) == [i \in DOMAIN s |-> <<tag, s[i]>>]

LEMMA TaggedIds ==
    ASSUME NEW tag \in {"project", "source"}, NEW s \in Seq(Ids)
    PROVE  LET t == Tagged(tag, s) IN
           /\ t \in Seq(CheckSet) /\ Len(t) = Len(s) /\ DOMAIN s = 1..Len(s)
           /\ \A i \in 1..Len(s) : t[i] = <<tag, s[i]>>
<1> DEFINE t == Tagged(tag, s)
<1>1. Len(s) \in Nat /\ DOMAIN s = 1..Len(s) /\ \A i \in 1..Len(s) : s[i] \in Ids
  BY LenProperties
<1>2. \A i \in 1..Len(s) : t[i] = <<tag, s[i]>> /\ <<tag, s[i]>> \in CheckSet
  BY <1>1 DEF CheckSet, Tagged
<1>3. t \in [1..Len(s) -> CheckSet]
  BY <1>1, <1>2 DEF Tagged
<1> HIDE DEF t
<1>4. t \in Seq(CheckSet) /\ Len(t) = Len(s)
  BY <1>1, <1>3
<1> QED
  BY <1>1, <1>2, <1>4 DEF t

\* The checks of create_api_key: the agent, then the projects, then the sources.
LEMMA KeyChecksElements ==
    ASSUME NEW c \in Calls
    PROVE  /\ KeyChecks(c) \in Seq(CheckSet) /\ Has(KeyChecks(c), <<"agent", c.agent>>)
           /\ \A i \in 1..Len(c.projects) : Has(KeyChecks(c), <<"project", c.projects[i]>>)
           /\ \A i \in 1..Len(c.sources) : Has(KeyChecks(c), <<"source", c.sources[i]>>)
<1>1. c.projects \in Seq(Ids) /\ c.sources \in Seq(Ids) /\ c.agent \in Ids \union {NoId}
  BY DEF Calls
<1>2. PICK a : a = << <<"agent", c.agent>> >>
  OBVIOUS
<1>3. PICK ps : ps = Tagged("project", c.projects)
  OBVIOUS
<1>4. PICK ss : ss = Tagged("source", c.sources)
  OBVIOUS
<1>5. a \in Seq(CheckSet) /\ Len(a) = 1 /\ a[1] = <<"agent", c.agent>>
  <2>1. <<"agent", c.agent>> \in CheckSet
    BY <1>1 DEF CheckSet
  <2> QED
    BY <1>2, <2>1
<1>6. /\ ps \in Seq(CheckSet) /\ Len(ps) = Len(c.projects)
      /\ \A i \in 1..Len(c.projects) : ps[i] = <<"project", c.projects[i]>>
  BY <1>1, <1>3, TaggedIds
<1>7. /\ ss \in Seq(CheckSet) /\ Len(ss) = Len(c.sources)
      /\ \A i \in 1..Len(c.sources) : ss[i] = <<"source", c.sources[i]>>
  BY <1>1, <1>4, TaggedIds
<1>8. KeyChecks(c) = a \o ps \o ss
  BY <1>2, <1>3, <1>4 DEF KeyChecks, Tagged
<1>9. a \in Seq(CheckSet) /\ ps \in Seq(CheckSet) /\ ss \in Seq(CheckSet) /\ Len(a) = 1
  BY <1>5, <1>6, <1>7
<1>10. /\ KeyChecks(c) \in Seq(CheckSet) /\ Has(KeyChecks(c), a[1])
       /\ \A i \in 1..Len(ps) : Has(KeyChecks(c), ps[i])
       /\ \A i \in 1..Len(ss) : Has(KeyChecks(c), ss[i])
  BY <1>8, <1>9, ThreeParts
<1> QED
  BY <1>5, <1>6, <1>7, <1>10

LEMMA KeyChecksKinds ==
    ASSUME NEW c \in Calls, NEW i \in DOMAIN KeyChecks(c)
    PROVE  KeyChecks(c)[i][1] \in {"agent", "project", "source"}
<1>1. i \in 1..Len(KeyChecks(c)) /\ KeyChecks(c) \in Seq(CheckSet)
  BY KeyChecksElements, LenProperties
<1>2. KeyChecks(c)[i] \in CheckSet
  BY <1>1, ElementOfSeq
<1> QED
  BY <1>2 DEF CheckSet

LEMMA ChecksAreSeq ==
    ASSUME TypeOK, NEW r \in Requests, NEW s
    PROVE  Len(Checks(r, s)) \in Nat /\ DOMAIN Checks(r, s) = 1..Len(Checks(r, s))
<1>1. call[r] \in Calls
  BY CallTypes
<1>2. CASE call[r].op = "api_keys.create"
  <2>1. Checks(r, s) = KeyChecks(call[r])
    BY <1>2 DEF Checks, WriteChecks, TailChecks
  <2> QED
    BY <1>1, <2>1, KeyChecksElements, LenProperties
<1>3. CASE call[r].op # "api_keys.create"
  <2>1. \/ Checks(r, s) = << >>
        \/ \E x : Checks(r, s) = <<x>>
        \/ \E x, y : Checks(r, s) = <<x, y>>
    BY <1>3 DEF Checks, WriteChecks, TailChecks
  <2> QED
    BY <2>1
<1> QED
  BY <1>2, <1>3

\* A passed check would pass in any later state.
LEMMA HoldsStays ==
    ASSUME Grows, NEW r, call[r].key \in DOMAIN keys, NEW check, Holds(r, check)
    PROVE  Holds(r, check)'
<1>1. KeyOf(r)' = KeyOf(r) /\ call' = call
  BY DEF KeyOf, Grows
<1>2. \A p : ProjectForKey(KeyOf(r), p) => ProjectForKey(KeyOf(r), p)'
  BY <1>1 DEF ProjectForKey, ProjectAllowed, Grows
<1>3. \A s : SourceForKey(KeyOf(r), s) => SourceForKey(KeyOf(r), s)'
  BY <1>1 DEF SourceForKey, ProjectAllowed, SourceAllowed, Grows
<1>4. \A s \in DOMAIN sources : InNamedProject(r, s)' = InNamedProject(r, s) /\ sources'[s] = sources[s]
  BY <1>1 DEF InNamedProject, Grows
<1>5. \A s : SourceForKey(KeyOf(r), s) => s \in DOMAIN sources
  BY DEF SourceForKey
<1> QED
  BY <1>1, <1>2, <1>3, <1>4, <1>5 DEF Holds, Passes, Grows

\* What the checks of an operation establish.
LEMMA ClearedMeans ==
    ASSUME TypeOK, NEW r \in Requests, Cleared(r)
    PROVE  /\ call[r].op \in {"projects.create", "agents.create"} => call[r].org \in orgs
           /\ call[r].op = "sources.create" => ProjectForKey(KeyOf(r), call[r].project)
           /\ call[r].op = "api_keys.create" =>
                /\ call[r].agent \in DOMAIN agents /\ agents[call[r].agent] = call[r].org
                /\ \A p \in Range(call[r].projects) : ProjectForKey(KeyOf(r), p)
                /\ \A s \in Range(call[r].sources) : SourceForKey(KeyOf(r), s)
           /\ call[r].op = "api_keys.revoke" => call[r].target \in DOMAIN keys
           /\ call[r].op = "logs.write" /\ call[r].source # NoId =>
                SourceForKey(KeyOf(r), call[r].source) /\ InNamedProject(r, call[r].source)
<1> DEFINE c == call[r]
<1>1. c \in Calls
  BY CallTypes
<1>2. \A x : Has(ChecksOf(r), x) => Holds(r, x)
  BY DEF Has, Cleared
<1>3. CASE c.op \in {"projects.create", "agents.create"}
  <2>1. ChecksOf(r) = << <<"org", c.org>> >>
    BY <1>3 DEF ChecksOf, Checks, WriteChecks, TailChecks
  <2>2. Holds(r, <<"org", c.org>>)
    BY <1>2, <2>1 DEF Has
  <2> QED
    BY <1>3, <2>2 DEF Holds, Passes
<1>4. CASE c.op = "sources.create"
  <2>1. ChecksOf(r) = << <<"project", c.project>> >>
    BY <1>4 DEF ChecksOf, Checks, WriteChecks, TailChecks
  <2>2. Holds(r, <<"project", c.project>>)
    BY <1>2, <2>1 DEF Has
  <2> QED
    BY <1>4, <2>2 DEF Holds, Passes
<1>5. CASE c.op = "api_keys.create"
  <2>1. ChecksOf(r) = KeyChecks(c)
    BY <1>5 DEF ChecksOf, Checks, WriteChecks, TailChecks
  <2>2. /\ Holds(r, <<"agent", c.agent>>)
        /\ \A i \in 1..Len(c.projects) : Holds(r, <<"project", c.projects[i]>>)
        /\ \A i \in 1..Len(c.sources) : Holds(r, <<"source", c.sources[i]>>)
    BY <1>1, <1>2, <2>1, KeyChecksElements
  <2>3. c.agent \in DOMAIN agents /\ agents[c.agent] = c.org
    BY <2>2 DEF Holds, Passes
  <2>4. c.projects \in Seq(Ids) /\ c.sources \in Seq(Ids)
    BY <1>1 DEF Calls
  <2>5. ASSUME NEW p \in Range(c.projects) PROVE ProjectForKey(KeyOf(r), p)
    <3>1. PICK i \in 1..Len(c.projects) : p = c.projects[i]
      BY <2>4, LenProperties DEF Range
    <3>2. Holds(r, <<"project", p>>)
      BY <2>2, <3>1
    <3> QED
      BY <3>2 DEF Holds, Passes
  <2>6. ASSUME NEW x \in Range(c.sources) PROVE SourceForKey(KeyOf(r), x)
    <3>1. PICK i \in 1..Len(c.sources) : x = c.sources[i]
      BY <2>4, LenProperties DEF Range
    <3>2. Holds(r, <<"source", x>>)
      BY <2>2, <3>1
    <3> QED
      BY <3>2 DEF Holds, Passes
  <2> QED
    BY <1>5, <2>3, <2>5, <2>6
<1>6. CASE c.op = "api_keys.revoke"
  <2>1. ChecksOf(r) = << <<"key", c.target>> >>
    BY <1>6 DEF ChecksOf, Checks, WriteChecks, TailChecks
  <2>2. Holds(r, <<"key", c.target>>)
    BY <1>2, <2>1 DEF Has
  <2> QED
    BY <1>6, <2>2 DEF Holds, Passes
<1>7. CASE c.op = "logs.write" /\ c.source # NoId
  <2>1. ChecksOf(r) = << <<"source", c.source>>, <<"projectOf", c.source>> >>
    BY <1>7 DEF ChecksOf, Checks, WriteChecks, TailChecks, Target
  <2>2. Holds(r, <<"source", c.source>>) /\ Holds(r, <<"projectOf", c.source>>)
    BY <1>2, <2>1 DEF Has
  <2> QED
    BY <1>7, <2>2 DEF Holds, Passes
<1>8. CASE \/ c.op \in {"orgs.create", "logs.tail.start"}
           \/ c.op = "logs.write" /\ c.source = NoId
  BY <1>8
<1> QED
  BY <1>1, <1>3, <1>4, <1>5, <1>6, <1>7, <1>8 DEF Calls, Operations, Scopes

\* Of a bootstrap nothing is checked.
LEMMA NoChecks ==
    ASSUME NEW r, call[r].op = "orgs.create"
    PROVE  ChecksOf(r) = << >> /\ DOMAIN ChecksOf(r) = {}
BY DEF ChecksOf, Checks, WriteChecks, TailChecks

-----------------------------------------------------------------------------

\* What r's step leaves to the others.
OnlyMine(r) ==
    /\ \A s \in Requests \ {r} : pc'[s] = pc[s] /\ step'[s] = step[s] /\ resolved'[s] = resolved[s]
    /\ orgs' \subseteq orgs \union {r} /\ DOMAIN agents' \subseteq DOMAIN agents \union {r}
    /\ DOMAIN projects' \subseteq DOMAIN projects \union {r}
    /\ DOMAIN sources' \subseteq DOMAIN sources \union {r} /\ DOMAIN keys' \subseteq DOMAIN keys \union {r}
    /\ DOMAIN chLogs \subseteq DOMAIN chLogs' /\ DOMAIN chLogs' \subseteq DOMAIN chLogs \union {r}
    /\ \A x \in DOMAIN chLogs : chLogs'[x] = chLogs[x]
    /\ audit \subseteq audit' /\ audit' \subseteq audit \union {EventOf(r)'}
    /\ chAudit \subseteq chAudit'

\* What a key was found to allow stays so.
LEMMA KeyStays ==
    ASSUME Grows, NEW r, call[r].key \in DOMAIN keys
    PROVE  /\ call[r].key \in DOMAIN keys' /\ KeyOf(r)' = KeyOf(r)
           /\ Permitted(r)' = Permitted(r) /\ EventOf(r)' = EventOf(r)
           /\ Candidates(r) \subseteq Candidates(r)'
<1>1. call[r].key \in DOMAIN keys' /\ KeyOf(r)' = KeyOf(r) /\ call' = call
  BY DEF KeyOf, Grows
<1>2. Permitted(r)' = Permitted(r)
  BY <1>1 DEF Permitted
<1>3. EventOf(r)' = EventOf(r)
  BY <1>1 DEF EventOf
<1>4. Candidates(r) \subseteq Candidates(r)'
  BY <1>1 DEF Candidates, SourceForKey, ProjectAllowed, SourceAllowed, InNamedProject, Grows
<1> QED
  BY <1>1, <1>2, <1>3, <1>4

LEMMA BootstrapEvent ==
    ASSUME Grows, NEW r, call[r].op = "orgs.create" PROVE EventOf(r)' = EventOf(r)
BY DEF Grows, EventOf

LEMMA PassedStays ==
    ASSUME TypeOK, Grows, NEW s \in Requests, Passed(s),
           pc'[s] = pc[s], step'[s] = step[s], resolved'[s] = resolved[s]
    PROVE  Passed(s)'
<1>1. call' = call
  BY DEF Grows
<1>2. ChecksOf(s)' = ChecksOf(s)
  BY <1>1 DEF ChecksOf, Checks, WriteChecks, TailChecks, Target, KeyChecks
<1>3. CASE call[s].key \in DOMAIN keys
  <2>1. Admitted(s)' = Admitted(s) /\ call[s].key \in DOMAIN keys'
    BY <1>1, <1>3, KeyStays DEF Admitted
  <2>2. OnlySource(s) => OnlySource(s)'
    BY <1>1, <1>3, KeyStays DEF OnlySource
  <2>3. Checked(s) => Checked(s)'
    BY <1>2, <1>3, HoldsStays DEF Checked
  <2>4. Cleared(s) => Cleared(s)'
    BY <1>2, <1>3, HoldsStays DEF Cleared
  <2> QED
    BY <1>1, <2>1, <2>2, <2>3, <2>4 DEF Passed
<1>4. CASE call[s].key \notin DOMAIN keys
  <2>1. pc[s] \notin {"agent", "resolve", "check", "insert"}
    BY <1>4 DEF Passed, Admitted
  <2>2. pc[s] \in {"commit", "copy", "done"} => call[s].op = "orgs.create"
    BY <1>4 DEF Passed, Admitted
  <2>3. call[s].op = "orgs.create" => Cleared(s)' /\ OnlySource(s)'
    BY <1>1, <1>2, NoChecks DEF Cleared, OnlySource
  <2> QED
    BY <1>1, <2>1, <2>2, <2>3 DEF Passed
<1> QED
  BY <1>3, <1>4

LEMMA WroteStays ==
    ASSUME TypeOK, NEW r \in Requests, NEW s \in Requests \ {r}, Grows, OnlyMine(r), Passed(s), Wrote(s)
    PROVE  Wrote(s)'
<1>1. call' = call /\ pc'[s] = pc[s] /\ resolved'[s] = resolved[s]
  BY DEF Grows, OnlyMine
<1>2. Target(s)' = Target(s)
  BY <1>1 DEF Target
<1>3. (s \in Effective)' = (s \in Effective)
  <2>1. (s \in orgs') = (s \in orgs) /\ (s \in DOMAIN agents') = (s \in DOMAIN agents)
    BY DEF Grows, OnlyMine
  <2>2. (s \in DOMAIN projects') = (s \in DOMAIN projects) /\ (s \in DOMAIN sources') = (s \in DOMAIN sources)
    BY DEF Grows, OnlyMine
  <2>3. (s \in DOMAIN keys') = (s \in DOMAIN keys)
    BY DEF Grows, OnlyMine
  <2> QED
    BY <1>1, <2>1, <2>2, <2>3 DEF Effective
<1>4. pc[s] \in {"copy", "done"} => EventOf(s)' = EventOf(s)
  BY KeyStays, BootstrapEvent DEF Passed, Admitted
<1>5. (s \in DOMAIN chLogs') = (s \in DOMAIN chLogs) /\ (s \in DOMAIN chLogs => chLogs'[s] = chLogs[s])
  BY DEF OnlyMine
<1>6. audit \subseteq audit' /\ chAudit \subseteq chAudit' /\ revoked \subseteq revoked'
  BY DEF OnlyMine, Grows
<1> QED
  BY <1>1, <1>2, <1>3, <1>4, <1>5, <1>6 DEF Wrote

\* One request's step, which keeps what is known of that request.
LEMMA StepKeeps ==
    ASSUME IInv, NEW r \in Requests, Grows, OnlyMine(r),
           TypeOK', GrantsWithinOrg', Passed(r)', Wrote(r)',
           (pc[r] \in {"copy", "done"} \/ EventOf(r)' \in audit' \ audit) => pc'[r] \in {"copy", "done"}
    PROVE  IInv'
<1>1. ASSUME NEW s \in Requests PROVE Passed(s)' /\ Wrote(s)'
  <2>1. CASE s = r
    BY <2>1
  <2>2. CASE s # r
    <3>1. TypeOK /\ Passed(s) /\ Wrote(s)
      BY DEF IInv
    <3>2. pc'[s] = pc[s] /\ step'[s] = step[s] /\ resolved'[s] = resolved[s]
      BY <2>2 DEF OnlyMine
    <3> QED
      BY <2>2, <3>1, <3>2, PassedStays, WroteStays
  <2> QED
    BY <2>1, <2>2
<1>2. ASSUME NEW e \in audit' PROVE pc'[e.request] \in {"copy", "done"} /\ e = EventOf(e.request)'
  <2>1. CASE e \in audit
    <3>1. e.request \in Requests /\ pc[e.request] \in {"copy", "done"} /\ e = EventOf(e.request)
      BY <2>1 DEF IInv, TypeOK, Events
    <3>2. EventOf(e.request)' = EventOf(e.request)
      BY <3>1, KeyStays, BootstrapEvent DEF IInv, Passed, Admitted
    <3>3. pc'[e.request] \in {"copy", "done"}
      BY <3>1 DEF OnlyMine
    <3> QED
      BY <3>1, <3>2, <3>3
  <2>2. CASE e \notin audit
    <3>1. e = EventOf(r)'
      BY <2>2 DEF OnlyMine
    <3>2. e.request = r
      BY <3>1 DEF EventOf
    <3> QED
      BY <2>2, <3>1, <3>2
  <2> QED
    BY <2>1, <2>2
<1> QED
  BY <1>1, <1>2 DEF IInv, Events

-----------------------------------------------------------------------------

LEMMA SeedTypes ==
    /\ SeedAgents \in [DOMAIN SeedAgents -> Ids] /\ SeedProjects \in [DOMAIN SeedProjects -> Ids]
    /\ DOMAIN SeedAgents \subseteq Ids /\ DOMAIN SeedProjects \subseteq Ids
    /\ DOMAIN SeedSources \subseteq Ids /\ DOMAIN SeedKeys \subseteq Ids /\ SeedOrgs \subseteq Ids
BY SeedsAssumption DEF Ids

LEMMA InvInit == Init => IInv
<1> SUFFICES ASSUME Init PROVE IInv
  OBVIOUS
<1>1. TypeOK
  BY SeedTypes, SeedsAssumption DEF Init, TablesInit, TypeOK
<1>2. GrantsWithinOrg
  BY SeedsAssumption DEF Init, TablesInit, GrantsWithinOrg
<1>3. Events
  BY DEF Init, Events
<1>4. ASSUME NEW r \in Requests PROVE Passed(r) /\ Wrote(r)
  <2>1. pc[r] = "new" /\ step[r] = 1 /\ DOMAIN chLogs = {}
    BY DEF Init
  <2>2. r \notin Effective
    BY <2>1, TenantsAssumption DEF Init, TablesInit, Effective
  <2> QED
    BY <2>1, <2>2 DEF Passed, Wrote
<1> QED
  BY <1>1, <1>2, <1>3, <1>4 DEF IInv

\* A step that leaves the tables and the stores of Postgres alone.
LEMMA QuietStep ==
    ASSUME IInv, UNCHANGED <<call, tables>>
    PROVE  /\ Grows /\ GrantsWithinOrg'
           /\ \A r \in Requests : /\ KeyOf(r)' = KeyOf(r) /\ EventOf(r)' = EventOf(r)
                                  /\ Candidates(r)' = Candidates(r) /\ Admitted(r)' = Admitted(r)
<1>1. Grows
  BY DEF Grows, tables
<1>2. GrantsWithinOrg'
  BY DEF IInv, GrantsWithinOrg, tables
<1>3. ASSUME NEW r \in Requests
      PROVE  /\ KeyOf(r)' = KeyOf(r) /\ EventOf(r)' = EventOf(r)
             /\ Candidates(r)' = Candidates(r) /\ Admitted(r)' = Admitted(r)
  BY DEF tables, KeyOf, EventOf, Candidates, SourceForKey, ProjectAllowed, SourceAllowed,
         InNamedProject, Admitted, Permitted
<1> QED
  BY <1>1, <1>2, <1>3

\* A step to a stage before the insertion, which leaves every store alone.
LEMMA ReadStep ==
    ASSUME IInv, NEW r \in Requests, OnlyMine(r), TypeOK', Passed(r)',
           UNCHANGED <<call, tables, chLogs, audit, chAudit>>,
           pc[r] \notin {"commit", "copy", "done"}, pc'[r] \notin {"copy", "done"},
           pc'[r] = "commit" => call[r].op # "logs.write"
    PROVE  IInv'
<1>1. Grows /\ GrantsWithinOrg'
  BY QuietStep
<1>2. Wrote(r) /\ r \notin DOMAIN chLogs /\ r \notin Effective
  BY DEF IInv, Wrote
<1>3. r \notin Effective'
  BY <1>2 DEF Effective, tables
<1>4. Wrote(r)'
  BY <1>2, <1>3 DEF Wrote
<1> QED
  BY <1>1, <1>4, StepKeeps

LEMMA BootstrapKeeps == ASSUME IInv, NEW r \in Requests, Bootstrap(r) PROVE IInv'
<1>1. OnlyMine(r)
  BY DEF Bootstrap, Goto, OnlyMine, IInv, TypeOK, tables, progress
<1>2. TypeOK'
  BY DEF Bootstrap, Goto, IInv, TypeOK, tables, progress, Stages
<1>3. pc[r] = "new" /\ pc'[r] = "commit" /\ call[r].op = "orgs.create"
  BY DEF Bootstrap, At, Goto, IInv, TypeOK
<1>4. Passed(r)'
  <2>1. call'[r].op = "orgs.create"
    BY <1>3 DEF Bootstrap, progress
  <2>2. Cleared(r)' /\ OnlySource(r)'
    BY <2>1 DEF Cleared, OnlySource, ChecksOf, Checks, WriteChecks, TailChecks
  <2> QED
    BY <1>3, <2>1, <2>2 DEF Passed
<1> QED
  BY <1>1, <1>2, <1>3, <1>4, ReadStep DEF Bootstrap, progress

LEMMA AuthenticateKeeps == ASSUME IInv, NEW r \in Requests, Authenticate(r) PROVE IInv'
<1>1. OnlyMine(r)
  BY DEF Authenticate, Goto, OnlyMine, IInv, TypeOK, tables, progress
<1>2. TypeOK'
  BY DEF Authenticate, Goto, IInv, TypeOK, tables, progress, Stages
<1>3. pc[r] = "new" /\ pc'[r] = (IF Valid(call[r].key) THEN "agent" ELSE "refused") /\ step' = step
  BY DEF Authenticate, At, Goto, IInv, TypeOK
<1>4. Passed(r)'
  <2>1. Valid(call[r].key) => call'[r].key \in DOMAIN keys'
    BY DEF Authenticate, progress, tables, Valid
  <2>2. step[r] = 1
    BY <1>3 DEF IInv, Passed
  <2> QED
    BY <1>3, <2>1, <2>2 DEF Passed
<1> QED
  BY <1>1, <1>2, <1>3, <1>4, ReadStep DEF Authenticate, progress

\* Before the first check there is nothing that could have failed.
LEMMA NothingChecked ==
    ASSUME TypeOK, NEW r \in Requests, call' = call, step'[r] = 1 PROVE Checked(r)'
<1>1. ChecksOf(r)' = Checks(r, Target(r)')
  BY DEF ChecksOf, Checks, WriteChecks, TailChecks, KeyChecks
<1>2. DOMAIN ChecksOf(r)' = 1..Len(ChecksOf(r)') /\ Len(ChecksOf(r)') \in Nat
  BY <1>1, ChecksAreSeq
<1> QED
  BY <1>2 DEF Checked

LEMMA GetAgentKeeps == ASSUME IInv, NEW r \in Requests, GetAgent(r) PROVE IInv'
<1>1. OnlyMine(r)
  BY DEF GetAgent, Goto, OnlyMine, IInv, TypeOK, tables, progress
<1>2. TypeOK'
  BY DEF GetAgent, Goto, IInv, TypeOK, tables, progress, Stages
<1>3. /\ pc[r] = "agent" /\ step' = step /\ step[r] = 1 /\ call[r].key \in DOMAIN keys
      /\ pc'[r] \in {"refused", "resolve", "check"}
      /\ pc'[r] # "refused" => Permitted(r)
      /\ pc'[r] = "resolve" <=> pc'[r] # "refused" /\ call[r].op = "logs.write" /\ call[r].source = NoId
  BY DEF GetAgent, At, Goto, IInv, TypeOK, Passed
<1>4. Passed(r)'
  <2>1. UNCHANGED <<call, tables>> /\ call' = call
    BY DEF GetAgent, progress
  <2>2. pc'[r] # "refused" => Admitted(r)'
    BY <1>3, <2>1, QuietStep DEF Admitted
  <2>3. pc'[r] = "check" => OnlySource(r)'
    BY <1>3, <2>1 DEF OnlySource
  <2>4. step'[r] = 1 => Checked(r)'
    BY <2>1, NothingChecked DEF IInv
  <2> QED
    BY <1>3, <2>1, <2>2, <2>3, <2>4 DEF Passed
<1> QED
  BY <1>1, <1>2, <1>3, <1>4, ReadStep DEF GetAgent, progress

LEMMA ResolveKeeps == ASSUME IInv, NEW r \in Requests, Resolve(r) PROVE IInv'
<1>0. UNCHANGED <<call, tables>> /\ call' = call /\ pc[r] = "resolve" /\ step' = step /\ step[r] = 1
  BY DEF Resolve, progress, At, IInv, Passed
<1>1. OnlyMine(r)
  BY DEF Resolve, Goto, OnlyMine, IInv, TypeOK, tables, progress
<1>2. /\ pc'[r] \in {"check", "refused"}
      /\ pc'[r] = "check" => resolved'[r] \in Candidates(r)
      /\ pc' \in [Requests -> {"check", "refused", pc[r]} \union {pc[s] : s \in Requests}]
  BY DEF Resolve, Goto, IInv, TypeOK
<1>3. TypeOK'
  <2>1. resolved' \in [Requests -> Ids \union {NoId}]
    <3>1. Candidates(r) \subseteq Ids
      BY DEF Candidates, IInv, TypeOK
    <3> QED
      BY <3>1 DEF Resolve, IInv, TypeOK
  <2> QED
    BY <2>1 DEF Resolve, Goto, IInv, TypeOK, tables, progress, Stages
<1>4. Passed(r)'
  <2>1. Admitted(r)'
    BY <1>0, QuietStep DEF IInv, Passed
  <2>2. pc'[r] = "check" => OnlySource(r)'
    BY <1>0, <1>2, QuietStep DEF OnlySource
  <2>3. Checked(r)'
    BY <1>0, NothingChecked DEF IInv
  <2> QED
    BY <1>0, <1>2, <2>1, <2>2, <2>3 DEF Passed
<1> QED
  BY <1>0, <1>1, <1>2, <1>3, <1>4, ReadStep DEF Resolve

LEMMA CheckKeeps == ASSUME IInv, NEW r \in Requests, Check(r) PROVE IInv'
<1> DEFINE n == step[r]
           x == ChecksOf(r)[n]
<1>0. UNCHANGED <<call, tables>> /\ call' = call /\ pc[r] = "check" /\ resolved' = resolved /\ n \in Nat \ {0}
  BY DEF Check, progress, At, IInv, TypeOK
<1>1. OnlyMine(r)
  BY DEF Check, Goto, OnlyMine, IInv, TypeOK, tables, progress
<1>2. /\ pc'[r] = (IF ~Passes(r, x) THEN "refused"
                   ELSE IF n < Len(ChecksOf(r)) THEN "check"
                   ELSE IF call[r].op = "logs.write" THEN "insert" ELSE "commit")
      /\ step'[r] = n + 1
  BY DEF Check, Goto, IInv, TypeOK
<1>3. TypeOK'
  BY DEF Check, Goto, IInv, TypeOK, tables, progress, Stages
<1>4. Admitted(r) /\ OnlySource(r) /\ Checked(r)
  BY <1>0 DEF IInv, Passed
<1>5. ChecksOf(r)' = ChecksOf(r)
  BY <1>0 DEF ChecksOf, Checks, WriteChecks, TailChecks, Target, KeyChecks
<1>6. DOMAIN ChecksOf(r) = 1..Len(ChecksOf(r)) /\ Len(ChecksOf(r)) \in Nat
  BY ChecksAreSeq DEF ChecksOf, IInv
<1>7. ASSUME Passes(r, x), n \in DOMAIN ChecksOf(r) PROVE Holds(r, x)
  <2>1. CASE x[1] # "projectOf"
    BY <1>7, <2>1 DEF Holds
  <2>2. CASE x[1] = "projectOf"
    <3>1. call[r].op = "logs.write" /\ x = <<"projectOf", Target(r)>>
      <4>1. call[r] \in Calls
        BY CallTypes DEF IInv
      <4>2. call[r].op # "api_keys.create"
        <5> SUFFICES ASSUME call[r].op = "api_keys.create" PROVE x[1] # "projectOf"
          BY <2>2
        <5>1. ChecksOf(r) = KeyChecks(call[r])
          BY DEF ChecksOf, Checks, WriteChecks, TailChecks
        <5> QED
          BY <1>7, <4>1, <5>1, KeyChecksKinds
      <4> QED
        <5>1. call[r].op \in Operations
          BY <4>1 DEF Calls
        <5>2. CASE call[r].op \in {"projects.create", "agents.create"}
          <6>1. ChecksOf(r) = << <<"org", call[r].org>> >>
            BY <5>2 DEF ChecksOf, Checks, WriteChecks, TailChecks
          <6> QED
            BY <1>7, <2>2, <6>1
        <5>3. CASE call[r].op = "sources.create"
          <6>1. ChecksOf(r) = << <<"project", call[r].project>> >>
            BY <5>3 DEF ChecksOf, Checks, WriteChecks, TailChecks
          <6> QED
            BY <1>7, <2>2, <6>1
        <5>4. CASE call[r].op = "api_keys.revoke"
          <6>1. ChecksOf(r) = << <<"key", call[r].target>> >>
            BY <5>4 DEF ChecksOf, Checks, WriteChecks, TailChecks
          <6> QED
            BY <1>7, <2>2, <6>1
        <5>5. CASE call[r].op = "logs.tail.start"
          <6>1. \/ ChecksOf(r) = << <<"source", call[r].source>> >>
                \/ ChecksOf(r) = << <<"project", call[r].project>> >>
            BY <5>5 DEF ChecksOf, Checks, WriteChecks, TailChecks
          <6> QED
            BY <1>7, <2>2, <6>1
        <5>6. CASE call[r].op = "orgs.create"
          BY <1>7, <5>6, NoChecks
        <5>7. CASE call[r].op = "logs.write"
          <6>1. \/ ChecksOf(r) = << <<"source", Target(r)>>, <<"projectOf", Target(r)>> >>
                \/ ChecksOf(r) = << <<"projectOf", Target(r)>> >>
            BY <5>7 DEF ChecksOf, Checks, WriteChecks, TailChecks, Target
          <6> QED
            BY <1>7, <2>2, <5>7, <6>1
        <5> QED
          BY <4>2, <5>1, <5>2, <5>3, <5>4, <5>5, <5>6, <5>7 DEF Operations, Scopes
    <3>2. Target(r) \in DOMAIN sources
      <4>1. CASE call[r].source = NoId
        BY <1>4, <3>1, <4>1 DEF OnlySource, Candidates, Target
      <4>2. CASE call[r].source # NoId
        <5>1. ChecksOf(r) = << <<"source", Target(r)>>, <<"projectOf", Target(r)>> >>
          BY <3>1, <4>2 DEF ChecksOf, Checks, WriteChecks, TailChecks
        <5>2. n = 2 /\ ChecksOf(r)[1] = <<"source", Target(r)>>
          BY <1>7, <2>2, <5>1
        <5>3. Holds(r, <<"source", Target(r)>>)
          BY <1>4, <5>1, <5>2 DEF Checked
        <5> QED
          BY <5>3 DEF Holds, Passes, SourceForKey
      <4> QED
        BY <4>1, <4>2
    <3> QED
      BY <1>7, <3>1, <3>2 DEF Holds
  <2> QED
    BY <2>1, <2>2
<1>8. ASSUME Passes(r, x), NEW i \in DOMAIN ChecksOf(r), i < n + 1 PROVE Holds(r, ChecksOf(r)[i])'
  <2>1. Holds(r, ChecksOf(r)[i])
    BY <1>0, <1>4, <1>6, <1>7, <1>8 DEF Checked
  <2>2. Grows /\ call[r].key \in DOMAIN keys
    BY <1>0, <1>4, QuietStep DEF Admitted
  <2> QED
    BY <1>5, <2>1, <2>2, HoldsStays
<1>9. Passed(r)'
  <2>1. Admitted(r)' /\ OnlySource(r)'
    BY <1>0, <1>4, QuietStep DEF OnlySource
  <2>2. Passes(r, x) => Checked(r)'
    BY <1>2, <1>5, <1>8 DEF Checked
  <2>3. Passes(r, x) /\ ~(n < Len(ChecksOf(r))) => Cleared(r)'
    BY <1>0, <1>5, <1>6, <1>8 DEF Cleared
  <2> QED
    BY <1>0, <1>2, <2>1, <2>2, <2>3 DEF Passed
<1> QED
  BY <1>0, <1>1, <1>2, <1>3, <1>9, ReadStep DEF Check

LEMMA InsertLogKeeps == ASSUME IInv, NEW r \in Requests, InsertLog(r) PROVE IInv'
<1>0. UNCHANGED <<call, tables>> /\ call' = call /\ resolved' = resolved /\ step' = step
      /\ pc[r] = "insert" /\ call[r].op = "logs.write" /\ audit' = audit
  BY DEF InsertLog, progress, At, IInv, Passed
<1>1. r \notin DOMAIN chLogs /\ r \notin Effective
  BY <1>0 DEF IInv, Wrote
<1>2. Grows /\ GrantsWithinOrg' /\ OnlySource(r) /\ Admitted(r) /\ Cleared(r)
  BY <1>0, QuietStep DEF IInv, Passed
<1>3. DOMAIN chLogs' = DOMAIN chLogs \union {r} /\ chLogs'[r] = Target(r)
      /\ \A x \in DOMAIN chLogs : chLogs'[x] = chLogs[x]
  BY <1>1 DEF InsertLog, With
<1>4. OnlyMine(r)
  BY <1>0, <1>3 DEF InsertLog, Goto, OnlyMine, IInv, TypeOK, tables, progress
<1>5. pc'[r] = "commit" /\ Target(r)' = Target(r)
  BY <1>0 DEF InsertLog, Goto, IInv, TypeOK, Target
<1>6. TypeOK'
  <2>1. Target(r) \in Ids
    <3>1. call[r] \in Calls
      BY CallTypes DEF IInv
    <3>2. Candidates(r) \subseteq Ids
      BY DEF Candidates, IInv, TypeOK
    <3> QED
      BY <1>0, <1>2, <3>1, <3>2 DEF Target, OnlySource, Calls
  <2>2. DOMAIN chLogs' \subseteq Requests /\ chLogs' \in [DOMAIN chLogs' -> Ids]
    BY <2>1 DEF InsertLog, With, IInv, TypeOK
  <2> QED
    BY <1>0, <2>2 DEF InsertLog, Goto, IInv, TypeOK, tables, progress, Stages
<1>7. Passed(r)'
  <2>1. Admitted(r)' /\ OnlySource(r)'
    BY <1>0, <1>2, QuietStep DEF OnlySource
  <2>2. Cleared(r)'
    <3>1. ChecksOf(r)' = ChecksOf(r)
      BY <1>0 DEF ChecksOf, Checks, WriteChecks, TailChecks, Target, KeyChecks
    <3> QED
      BY <1>2, <3>1, HoldsStays DEF Cleared, Admitted
  <2> QED
    BY <1>5, <2>1, <2>2 DEF Passed
<1>8. Wrote(r)'
  <2>1. r \notin Effective'
    BY <1>0, <1>1 DEF Effective, tables
  <2> QED
    BY <1>0, <1>3, <1>5, <2>1 DEF Wrote
<1> QED
  BY <1>0, <1>2, <1>4, <1>5, <1>6, <1>7, <1>8, StepKeeps

\* The rows of a request that has been cleared.
LEMMA RowsWritten ==
    ASSUME IInv, NEW r \in Requests, pc[r] = "commit", WriteRows(r), call' = call
    PROVE  /\ Grows /\ GrantsWithinOrg'
           /\ orgs' \subseteq orgs \union {r} /\ DOMAIN agents' \subseteq DOMAIN agents \union {r}
           /\ DOMAIN projects' \subseteq DOMAIN projects \union {r}
           /\ DOMAIN sources' \subseteq DOMAIN sources \union {r}
           /\ DOMAIN keys' \subseteq DOMAIN keys \union {r}
           /\ orgs' \subseteq Ids
           /\ DOMAIN agents' \subseteq Ids /\ agents' \in [DOMAIN agents' -> Ids]
           /\ DOMAIN projects' \subseteq Ids /\ projects' \in [DOMAIN projects' -> Ids]
           /\ DOMAIN sources' \subseteq Ids /\ sources' \in [DOMAIN sources' -> SourceRows]
           /\ DOMAIN keys' \subseteq Ids /\ keys' \in [DOMAIN keys' -> KeyRows]
           /\ revoked' \subseteq DOMAIN keys'
           /\ call[r].op = "api_keys.revoke" => call[r].target \in revoked'
           /\ call[r].op \in {"orgs.create", "projects.create", "agents.create", "sources.create",
                              "api_keys.create"} =>
                r \in orgs' \union DOMAIN agents' \union DOMAIN projects' \union DOMAIN sources'
                      \union DOMAIN keys'
<1> DEFINE c == call[r]
<1>1. /\ TypeOK /\ GrantsWithinOrg /\ c \in Calls /\ r \in Ids
      /\ c.op # "orgs.create" => c.key \in DOMAIN keys /\ Permitted(r)
  BY CallTypes DEF IInv, Ids, Passed, Admitted
<1>2. /\ r \notin orgs /\ r \notin DOMAIN agents /\ r \notin DOMAIN projects
      /\ r \notin DOMAIN sources /\ r \notin DOMAIN keys
  BY DEF IInv, Wrote, Effective
<1>3. Cleared(r)
  BY DEF IInv, Passed
<1>4. CASE c.op = "orgs.create"
  <2>1. /\ orgs' = orgs \union {r} /\ agents' = With(agents, r, r) /\ keys' = With(keys, r, OwnerKey(r))
        /\ UNCHANGED <<projects, sources, revoked>>
    BY <1>4 DEF WriteRows
  <2>2. OwnerKey(r) \in KeyRows
    BY <1>1 DEF OwnerKey, KeyRows
  <2>3. /\ DOMAIN agents' = DOMAIN agents \union {r} /\ agents'[r] = r
        /\ (\A y \in DOMAIN agents : agents'[y] = agents[y]) /\ agents' \in [DOMAIN agents' -> Ids]
    BY <1>1, <1>2, <2>1 DEF With, TypeOK
  <2>4. /\ DOMAIN keys' = DOMAIN keys \union {r} /\ keys'[r] = OwnerKey(r)
        /\ (\A y \in DOMAIN keys : keys'[y] = keys[y]) /\ keys' \in [DOMAIN keys' -> KeyRows]
    BY <1>1, <1>2, <2>1, <2>2 DEF With, TypeOK
  <2>5. Grows
    BY <2>1, <2>3, <2>4 DEF Grows
  <2>6. GrantsWithinOrg'
    <3>1. /\ OwnerKey(r).agent = r /\ OwnerKey(r).org = r
          /\ OwnerKey(r).projects = {} /\ OwnerKey(r).sources = {}
      BY DEF OwnerKey
    <3>2. ASSUME NEW k \in DOMAIN keys' PROVE keys'[k].agent \in DOMAIN agents'
                                           /\ agents'[keys'[k].agent] = keys'[k].org
      <4>1. CASE k = r
        BY <2>3, <2>4, <3>1, <4>1
      <4>2. CASE k \in DOMAIN keys
        BY <1>1, <2>3, <2>4, <4>2 DEF GrantsWithinOrg
      <4> QED
        BY <2>4, <4>1, <4>2
    <3>3. ASSUME NEW k \in DOMAIN keys'
          PROVE  /\ \A p \in keys'[k].projects : p \in DOMAIN projects /\ projects[p] = keys'[k].org
                 /\ \A x \in keys'[k].sources : x \in DOMAIN sources /\ sources[x].org = keys'[k].org
      <4>1. CASE k = r
        BY <2>4, <3>1, <4>1
      <4>2. CASE k \in DOMAIN keys
        BY <1>1, <2>4, <4>2 DEF GrantsWithinOrg
      <4> QED
        BY <2>4, <4>1, <4>2
    <3> QED
      BY <1>1, <2>1, <3>2, <3>3 DEF GrantsWithinOrg
  <2> QED
    BY <1>1, <1>4, <2>1, <2>3, <2>4, <2>5, <2>6 DEF TypeOK
<1>5. CASE c.op = "projects.create"
  <2>1. projects' = With(projects, r, c.org) /\ UNCHANGED <<orgs, agents, sources, keys, revoked>>
    BY <1>5 DEF WriteRows
  <2>2. c.org \in Ids
    BY <1>1, <1>3, <1>5, ClearedMeans DEF TypeOK
  <2>3. /\ DOMAIN projects' = DOMAIN projects \union {r}
        /\ (\A y \in DOMAIN projects : projects'[y] = projects[y])
        /\ projects' \in [DOMAIN projects' -> Ids]
    BY <1>1, <1>2, <2>1, <2>2 DEF With, TypeOK
  <2>5. Grows
    BY <2>1, <2>3 DEF Grows
  <2>6. GrantsWithinOrg'
    BY <1>1, <2>1, <2>3 DEF GrantsWithinOrg
  <2> QED
    BY <1>1, <1>5, <2>1, <2>3, <2>5, <2>6 DEF TypeOK
<1>6. CASE c.op = "agents.create"
  <2>1. agents' = With(agents, r, c.org) /\ UNCHANGED <<orgs, projects, sources, keys, revoked>>
    BY <1>6 DEF WriteRows
  <2>2. c.org \in Ids
    BY <1>1, <1>3, <1>6, ClearedMeans DEF TypeOK
  <2>3. /\ DOMAIN agents' = DOMAIN agents \union {r}
        /\ (\A y \in DOMAIN agents : agents'[y] = agents[y])
        /\ agents' \in [DOMAIN agents' -> Ids]
    BY <1>1, <1>2, <2>1, <2>2 DEF With, TypeOK
  <2>5. Grows
    BY <2>1, <2>3 DEF Grows
  <2>6. GrantsWithinOrg'
    BY <1>1, <2>1, <2>3 DEF GrantsWithinOrg
  <2> QED
    BY <1>1, <1>6, <2>1, <2>3, <2>5, <2>6 DEF TypeOK
<1>7. CASE c.op = "sources.create"
  <2>1. /\ sources' = With(sources, r, [org |-> projects[c.project], project |-> c.project])
        /\ UNCHANGED <<orgs, agents, projects, keys, revoked>>
    BY <1>7 DEF WriteRows
  <2>2. c.project \in DOMAIN projects
    BY <1>1, <1>3, <1>7, ClearedMeans DEF ProjectForKey
  <2>3. [org |-> projects[c.project], project |-> c.project] \in SourceRows
    BY <1>1, <2>2 DEF SourceRows, TypeOK
  <2>4. /\ DOMAIN sources' = DOMAIN sources \union {r}
        /\ sources'[r] = [org |-> projects[c.project], project |-> c.project]
        /\ (\A y \in DOMAIN sources : sources'[y] = sources[y])
        /\ sources' \in [DOMAIN sources' -> SourceRows]
    BY <1>1, <1>2, <2>1, <2>3 DEF With, TypeOK
  <2>5. Grows
    BY <2>1, <2>4 DEF Grows
  <2>6. GrantsWithinOrg'
    BY <1>1, <2>1, <2>2, <2>4 DEF GrantsWithinOrg
  <2> QED
    BY <1>1, <1>7, <2>1, <2>4, <2>5, <2>6 DEF TypeOK
<1>8. CASE c.op = "api_keys.create"
  <2>1. keys' = With(keys, r, NewKey(r)) /\ UNCHANGED <<orgs, agents, projects, sources, revoked>>
    BY <1>8 DEF WriteRows
  <2>2. /\ c.agent \in DOMAIN agents /\ agents[c.agent] = c.org
        /\ \A p \in Range(c.projects) : ProjectForKey(KeyOf(r), p)
        /\ \A s \in Range(c.sources) : SourceForKey(KeyOf(r), s)
    BY <1>1, <1>3, <1>8, ClearedMeans
  <2>3. c.org \in Ids /\ KeyOf(r).org = c.org
    <3>1. agents[c.agent] \in Ids
      BY <1>1, <2>2 DEF TypeOK
    <3> QED
      BY <1>1, <1>8, <2>2, <3>1, TenantsAssumption DEF Permitted
  <2>4. NewKey(r) \in KeyRows
    <3>1. Range(c.projects) \subseteq Ids /\ Range(c.sources) \subseteq Ids /\ c.agent \in Ids
      BY <1>1, <2>2 DEF TypeOK, ProjectForKey, SourceForKey
    <3> QED
      BY <1>1, <2>3, <3>1 DEF NewKey, KeyRows, Calls
  <2>5. /\ DOMAIN keys' = DOMAIN keys \union {r} /\ keys'[r] = NewKey(r)
        /\ (\A y \in DOMAIN keys : keys'[y] = keys[y]) /\ keys' \in [DOMAIN keys' -> KeyRows]
    BY <1>1, <1>2, <2>1, <2>4 DEF With, TypeOK
  <2>6. Grows
    BY <2>1, <2>5 DEF Grows
  <2>7. GrantsWithinOrg'
    <3>1. /\ NewKey(r).agent \in DOMAIN agents /\ agents[NewKey(r).agent] = NewKey(r).org
          /\ \A p \in NewKey(r).projects : p \in DOMAIN projects /\ projects[p] = NewKey(r).org
          /\ \A s \in NewKey(r).sources : s \in DOMAIN sources /\ sources[s].org = NewKey(r).org
      BY <2>2, <2>3 DEF NewKey, ProjectForKey, SourceForKey
    <3> QED
      BY <1>1, <2>1, <2>5, <3>1 DEF GrantsWithinOrg
  <2> QED
    BY <1>1, <1>8, <2>1, <2>5, <2>6, <2>7 DEF TypeOK
<1>9. CASE c.op = "api_keys.revoke"
  <2>1. revoked' = revoked \union {c.target} /\ UNCHANGED <<orgs, agents, projects, sources, keys>>
    BY <1>9 DEF WriteRows
  <2>2. c.target \in DOMAIN keys
    BY <1>1, <1>3, <1>9, ClearedMeans
  <2>3. Grows
    BY <2>1 DEF Grows
  <2>4. GrantsWithinOrg'
    BY <1>1, <2>1 DEF GrantsWithinOrg
  <2> QED
    BY <1>1, <1>9, <2>1, <2>2, <2>3, <2>4 DEF TypeOK
<1>10. CASE c.op \in {"logs.write", "logs.tail.start"}
  <2>1. UNCHANGED <<orgs, agents, projects, sources, keys, revoked>>
    BY <1>10 DEF WriteRows, tables
  <2>2. Grows
    BY <2>1 DEF Grows
  <2>3. GrantsWithinOrg'
    BY <1>1, <2>1 DEF GrantsWithinOrg
  <2> QED
    BY <1>1, <1>10, <2>1, <2>2, <2>3 DEF TypeOK
<1> QED
  BY <1>1, <1>4, <1>5, <1>6, <1>7, <1>8, <1>9, <1>10 DEF Calls, Operations, Scopes

LEMMA CommitKeeps == ASSUME IInv, NEW r \in Requests, Commit(r) PROVE IInv'
<1>0. /\ pc[r] = "commit" /\ WriteRows(r) /\ call' = call /\ expired' = expired /\ dead' = dead
      /\ UNCHANGED <<step, resolved, chLogs, chAudit>>
      /\ audit' = audit \union {EventOf(r)} /\ pc' = [pc EXCEPT ![r] = "copy"] /\ pc'[r] = "copy"
  BY DEF Commit, At, progress, Goto, IInv, TypeOK
<1>1. Passed(r) /\ Wrote(r) /\ TypeOK /\ (Admitted(r) \/ call[r].op = "orgs.create")
  BY <1>0 DEF IInv, Passed
<1>2. Grows /\ GrantsWithinOrg'
  BY <1>0, RowsWritten
<1>3. EventOf(r)' = EventOf(r)
  BY <1>1, <1>2, KeyStays, BootstrapEvent DEF Admitted
<1>4. OnlyMine(r)
  <2>1. \A s \in Requests \ {r} : pc'[s] = pc[s]
    BY <1>0, <1>1 DEF TypeOK
  <2>2. /\ orgs' \subseteq orgs \union {r} /\ DOMAIN agents' \subseteq DOMAIN agents \union {r}
        /\ DOMAIN projects' \subseteq DOMAIN projects \union {r}
        /\ DOMAIN sources' \subseteq DOMAIN sources \union {r}
        /\ DOMAIN keys' \subseteq DOMAIN keys \union {r}
    BY <1>0, RowsWritten
  <2> QED
    BY <1>0, <1>3, <2>1, <2>2 DEF OnlyMine
<1>5. TypeOK'
  <2>1. /\ orgs' \subseteq Ids
        /\ DOMAIN agents' \subseteq Ids /\ agents' \in [DOMAIN agents' -> Ids]
        /\ DOMAIN projects' \subseteq Ids /\ projects' \in [DOMAIN projects' -> Ids]
        /\ DOMAIN sources' \subseteq Ids /\ sources' \in [DOMAIN sources' -> SourceRows]
        /\ DOMAIN keys' \subseteq Ids /\ keys' \in [DOMAIN keys' -> KeyRows]
        /\ revoked' \subseteq DOMAIN keys'
    BY <1>0, RowsWritten
  <2>2. expired' \subseteq DOMAIN keys'
    BY <1>0, <1>1, <1>2 DEF Grows, TypeOK
  <2>3. EventOf(r) \in [request : Requests, org : Ids, key : Ids]
    BY <1>1 DEF EventOf, Admitted, KeyOf, TypeOK, KeyRows, Ids
  <2>4. pc' \in [Requests -> {"new", "done", "refused"} \union Stages]
    BY <1>0, <1>1 DEF TypeOK, Stages
  <2> QED
    BY <1>0, <1>1, <2>1, <2>2, <2>3, <2>4 DEF TypeOK
<1>6. Passed(r)'
  <2>1. Admitted(r) => Admitted(r)'
    BY <1>0, <1>2, KeyStays DEF Admitted
  <2>2. OnlySource(r)'
    BY <1>0, <1>1, <1>2, KeyStays DEF OnlySource, Passed, Admitted
  <2>3. Cleared(r)'
    <3>1. ChecksOf(r)' = ChecksOf(r)
      BY <1>0 DEF ChecksOf, Checks, WriteChecks, TailChecks, Target, KeyChecks
    <3>2. CASE call[r].op = "orgs.create"
      BY <3>1, <3>2, NoChecks DEF Cleared
    <3>3. CASE Admitted(r)
      BY <1>0, <1>1, <1>2, <3>1, <3>3, HoldsStays DEF Cleared, Admitted, Passed
    <3> QED
      BY <1>1, <3>2, <3>3
  <2> QED
    BY <1>0, <1>1, <2>1, <2>2, <2>3 DEF Passed
<1>7. Wrote(r)'
  <2>1. call[r].op = "api_keys.revoke" => call[r].target \in revoked'
    BY <1>0, RowsWritten
  <2>2. call[r].op \notin {"logs.write", "logs.tail.start"} => r \in Effective'
    <3>1. call[r].op \in Operations
      BY <1>1, CallTypes DEF Calls
    <3>2. CASE call[r].op = "api_keys.revoke"
      BY <1>0, <3>2 DEF Effective
    <3>3. CASE call[r].op \in {"orgs.create", "projects.create", "agents.create", "sources.create",
                               "api_keys.create"}
      <4>1. r \in orgs' \union DOMAIN agents' \union DOMAIN projects' \union DOMAIN sources'
                  \union DOMAIN keys'
        BY <1>0, <3>3, RowsWritten
      <4> QED
        BY <4>1 DEF Effective
    <3> QED
      BY <3>1, <3>2, <3>3 DEF Operations, Scopes
  <2>3. Target(r)' = Target(r)
    BY <1>0 DEF Target
  <2> QED
    BY <1>0, <1>1, <1>3, <2>1, <2>2, <2>3 DEF Wrote
<1> QED
  BY <1>0, <1>2, <1>4, <1>5, <1>6, <1>7, StepKeeps

LEMMA CopyAuditKeeps == ASSUME IInv, NEW r \in Requests, CopyAudit(r) PROVE IInv'
<1>0. /\ pc[r] = "copy" /\ pc' = [pc EXCEPT ![r] = "done"] /\ pc'[r] = "done" /\ call' = call
      /\ UNCHANGED <<call, tables>> /\ UNCHANGED <<step, resolved, chLogs, audit>>
      /\ chAudit' = chAudit \union {EventOf(r)}
  BY DEF CopyAudit, At, Goto, progress, IInv, TypeOK
<1>1. Passed(r) /\ Wrote(r) /\ TypeOK
  BY DEF IInv
<1>2. Grows /\ GrantsWithinOrg' /\ EventOf(r)' = EventOf(r) /\ Admitted(r)' = Admitted(r)
      /\ Candidates(r)' = Candidates(r)
  BY <1>0, QuietStep
<1>3. OnlyMine(r)
  BY <1>0, <1>1 DEF OnlyMine, TypeOK, tables
<1>4. TypeOK'
  BY <1>0, <1>1 DEF CopyAudit, Wrote, TypeOK, tables, progress, Stages
<1>5. Passed(r)'
  <2>1. Cleared(r)'
    <3>1. ChecksOf(r)' = ChecksOf(r)
      BY <1>0 DEF ChecksOf, Checks, WriteChecks, TailChecks, Target, KeyChecks
    <3>2. CASE call[r].op = "orgs.create"
      BY <3>1, <3>2, NoChecks DEF Cleared
    <3>3. CASE Admitted(r)
      BY <1>0, <1>1, <1>2, <3>1, <3>3, HoldsStays DEF Cleared, Admitted, Passed
    <3> QED
      BY <1>0, <1>1, <3>2, <3>3 DEF Passed
  <2>2. OnlySource(r)'
    BY <1>0, <1>1, <1>2 DEF OnlySource, Passed
  <2> QED
    BY <1>0, <1>1, <1>2, <2>1, <2>2 DEF Passed
<1>6. Wrote(r)'
  <2>1. (r \in Effective)' = (r \in Effective) /\ Target(r)' = Target(r) /\ revoked' = revoked
    BY <1>0 DEF Effective, Target, tables
  <2> QED
    BY <1>0, <1>1, <1>2, <2>1 DEF Wrote
<1> QED
  BY <1>0, <1>2, <1>3, <1>4, <1>5, <1>6, StepKeeps

\* What only fails requests or lets keys expire.
LEMMA IdleStep ==
    ASSUME IInv, TypeOK', UNCHANGED <<call, tables, pc, step, resolved, chLogs, audit, chAudit>>
    PROVE  IInv'
<1>1. Grows /\ GrantsWithinOrg' /\ \A r \in Requests : EventOf(r)' = EventOf(r)
  BY QuietStep
<1>2. ASSUME NEW r \in Requests PROVE Passed(r)' /\ Wrote(r)'
  <2>1. Passed(r)'
    BY <1>1, PassedStays DEF IInv
  <2>2. (r \in Effective)' = (r \in Effective) /\ Target(r)' = Target(r) /\ revoked' = revoked
    BY DEF Effective, Target, tables
  <2> QED
    BY <1>1, <2>1, <2>2 DEF Wrote, IInv
<1>3. Events'
  <2>1. \A e \in audit : e.request \in Requests
    BY DEF IInv, TypeOK
  <2> QED
    BY <1>1, <2>1 DEF IInv, Events
<1> QED
  BY <1>1, <1>2, <1>3 DEF IInv

LEMMA InvNext == IInv /\ [Next]_vars => IInv'
<1> SUFFICES ASSUME IInv, [Next]_vars PROVE IInv'
  OBVIOUS
<1>1. ASSUME NEW r \in Requests, Handle(r) PROVE IInv'
  BY <1>1, BootstrapKeeps, AuthenticateKeeps, GetAgentKeeps, ResolveKeeps, CheckKeeps,
     InsertLogKeeps, CommitKeeps, CopyAuditKeeps DEF Handle
<1>2. ASSUME NEW r \in Requests, Fail(r) PROVE IInv'
  <2>1. TypeOK'
    BY <1>2 DEF Fail, IInv, TypeOK, tables
  <2> QED
    BY <1>2, <2>1, IdleStep DEF Fail
<1>3. ASSUME Crash PROVE IInv'
  <2>1. TypeOK'
    BY <1>3 DEF Crash, IInv, TypeOK, tables
  <2> QED
    BY <1>3, <2>1, IdleStep DEF Crash
<1>4. ASSUME NEW k \in DOMAIN keys, Expire(k) PROVE IInv'
  <2>1. TypeOK'
    BY <1>4 DEF Expire, IInv, TypeOK, tables
  <2> QED
    BY <1>4, <2>1, IdleStep DEF Expire
<1>5. CASE UNCHANGED vars
  <2>1. TypeOK'
    BY <1>5 DEF vars, IInv, TypeOK, tables
  <2> QED
    BY <1>5, <2>1, IdleStep DEF vars
<1> QED
  BY <1>1, <1>2, <1>3, <1>4, <1>5 DEF Next

LEMMA Invariant == Spec => []IInv
<1> QED
  BY InvInit, InvNext, PTL DEF Spec

-----------------------------------------------------------------------------

LEMMA InvWrites == IInv => WritesWithinGrants
<1> SUFFICES ASSUME IInv, NEW r \in DOMAIN chLogs
             PROVE  /\ SourceForKey(KeyOf(r), chLogs[r])
                    /\ call[r].source \in {NoId, chLogs[r]}
                    /\ call[r].project \in {NoId, sources[chLogs[r]].project}
  BY DEF WritesWithinGrants
<1>1. /\ r \in Requests /\ chLogs[r] = Target(r) /\ call[r].op = "logs.write"
      /\ Cleared(r) /\ OnlySource(r) /\ TypeOK
  BY DEF IInv, TypeOK, Wrote, Passed
<1>2. CASE call[r].source = NoId
  BY <1>1, <1>2 DEF Target, OnlySource, Candidates, InNamedProject
<1>3. CASE call[r].source # NoId
  BY <1>1, <1>3, ClearedMeans DEF Target, InNamedProject
<1> QED
  BY <1>2, <1>3

LEMMA InvAudit == IInv => AuditComplete
<1> SUFFICES ASSUME IInv PROVE AuditComplete
  OBVIOUS
<1>1. ASSUME NEW r \in Effective PROVE EventOf(r) \in audit
  <2>1. r \in Requests
    BY DEF Effective
  <2> QED
    BY <2>1 DEF IInv, Wrote
<1>2. ASSUME NEW e \in audit
      PROVE  LET op == call[e.request].op IN
             /\ e = EventOf(e.request)
             /\ op = "logs.write" => e.request \in DOMAIN chLogs
             /\ op = "api_keys.revoke" => call[e.request].target \in revoked
             /\ op \notin {"logs.write", "logs.tail.start"} => e.request \in Effective
  <2>1. e.request \in Requests /\ pc[e.request] \in {"copy", "done"} /\ e = EventOf(e.request)
    BY DEF IInv, TypeOK, Events
  <2> QED
    BY <2>1 DEF IInv, Wrote
<1>3. \A r \in Requests : pc[r] = "done" => EventOf(r) \in chAudit
  BY DEF IInv, Wrote
<1>4. ASSUME NEW r \in DOMAIN chLogs PROVE EventOf(r) \in audit \/ pc[r] = "commit"
  <2>1. r \in Requests
    BY DEF IInv, TypeOK
  <2> QED
    BY <2>1 DEF IInv, Wrote
<1> QED
  BY <1>1, <1>2, <1>3, <1>4 DEF AuditComplete

\* Every variable keeps its type.
THEOREM TypeCorrect == Spec => []TypeOK
BY Invariant, PTL DEF IInv

\* No organisation reaches into another, whatever is created, revoked, expires
\* or fails between the checks of a call and its rows.
THEOREM Isolation == Spec => []GrantsWithinOrg
BY Invariant, PTL DEF IInv

\* Every stored log lies in a source that its key is granted.
THEOREM WritesGranted == Spec => []WritesWithinGrants
BY Invariant, InvWrites, PTL

\* What changed is in the audit log, what is in the audit log changed, and a
\* stored log lacks its event only before its transaction.
THEOREM AuditTells == Spec => []AuditComplete
BY Invariant, InvAudit, PTL

-----------------------------------------------------------------------------

\* The logs of the performed requests, which is all that Registry knows.
LogsOf == [r \in DOMAIN chLogs \intersect Performed |-> chLogs[r]]

\* Registry's operators, read on the tables of ControlPlane, are the same.
LEMMA SameTables ==
    /\ Promise!tables = tables
    /\ \A r : /\ Promise!Permitted(r) = Permitted(r) /\ Promise!EventOf(r) = EventOf(r)
              /\ Promise!Candidates(r) = Candidates(r)
              /\ WriteRows(r) => Promise!WriteRows(r)
              /\ \A s : Promise!Checks(r, s) = Checks(r, s)
              /\ \A x : Promise!Passes(r, x) = Passes(r, x)
    /\ \A k : Promise!Valid(k) = Valid(k)
<1>1. Promise!tables = tables
  BY DEF tables, Promise!tables
<1>2. \A k : Promise!Valid(k) = Valid(k)
  BY DEF Valid, Promise!Valid
<1>3. ASSUME NEW r PROVE /\ Promise!KeyOf(r) = KeyOf(r) /\ Promise!Permitted(r) = Permitted(r)
                         /\ Promise!EventOf(r) = EventOf(r)
  BY DEF KeyOf, Promise!KeyOf, Permitted, Promise!Permitted, EventOf, Promise!EventOf
<1>4. /\ \A key, p : Promise!ProjectForKey(key, p) = ProjectForKey(key, p)
      /\ \A key, s : Promise!SourceForKey(key, s) = SourceForKey(key, s)
      /\ \A r, s : Promise!InNamedProject(r, s) = InNamedProject(r, s)
  BY DEF ProjectForKey, Promise!ProjectForKey, SourceForKey, Promise!SourceForKey,
         ProjectAllowed, Promise!ProjectAllowed, SourceAllowed, Promise!SourceAllowed,
         InNamedProject, Promise!InNamedProject
<1>5. ASSUME NEW r PROVE Promise!Candidates(r) = Candidates(r)
  BY <1>3, <1>4 DEF Candidates, Promise!Candidates
<1>6. ASSUME NEW r, NEW s PROVE Promise!Checks(r, s) = Checks(r, s)
  BY DEF Checks, Promise!Checks, WriteChecks, Promise!WriteChecks, TailChecks,
         Promise!TailChecks, KeyChecks, Promise!KeyChecks
<1>7. ASSUME NEW r, NEW x PROVE Promise!Passes(r, x) = Passes(r, x)
  BY <1>3, <1>4 DEF Passes, Promise!Passes
<1>8. ASSUME NEW r, WriteRows(r) PROVE Promise!WriteRows(r)
  <2>1. /\ Promise!OwnerKey(r) = OwnerKey(r) /\ Promise!NewKey(r) = NewKey(r)
        /\ \A t, x, y : Promise!With(t, x, y) = With(t, x, y)
    BY DEF OwnerKey, Promise!OwnerKey, NewKey, Promise!NewKey, With, Promise!With,
           Scopes, Promise!Scopes, Range, Promise!Range
  <2>2. CASE call[r].op = "orgs.create"
    BY <1>8, <2>1, <2>2 DEF WriteRows, Promise!WriteRows
  <2>3. CASE call[r].op = "projects.create"
    BY <1>8, <2>1, <2>3 DEF WriteRows, Promise!WriteRows
  <2>4. CASE call[r].op = "agents.create"
    BY <1>8, <2>1, <2>4 DEF WriteRows, Promise!WriteRows
  <2>5. CASE call[r].op = "sources.create"
    BY <1>8, <2>1, <2>5 DEF WriteRows, Promise!WriteRows
  <2>6. CASE call[r].op = "api_keys.create"
    BY <1>8, <2>1, <2>6 DEF WriteRows, Promise!WriteRows
  <2>7. CASE call[r].op = "api_keys.revoke"
    BY <1>8, <2>7 DEF WriteRows, Promise!WriteRows
  <2>8. CASE call[r].op \in {"logs.write", "logs.tail.start"}
    BY <1>8, <2>8 DEF WriteRows, Promise!WriteRows, tables, Promise!tables
  <2> QED
    BY <1>8, <2>2, <2>3, <2>4, <2>5, <2>6, <2>7, <2>8 DEF WriteRows
<1> QED
  BY <1>1, <1>2, <1>3, <1>5, <1>6, <1>7, <1>8

\* A step that performs nothing and admits nobody is one of Registry's Leave.
LEMMA LeaveStep ==
    ASSUME UNCHANGED <<call, tables, expired, resolved, audit>>, LogsOf' = LogsOf,
           \A s \in Requests : \/ StatusOf(s)' = StatusOf(s)
                               \/ StatusOf(s) \in {"new", "admitted"} /\ StatusOf(s)' = "left"
    PROVE  Promise!Leave
<1> DEFINE S == {s \in Requests : StatusOf(s)' # StatusOf(s)}
<1>1. \A s \in Requests : s \in S => StatusOf(s) \in {"new", "admitted"} /\ StatusOf(s)' = "left"
  OBVIOUS
<1>2. [s \in Requests |-> StatusOf(s)'] = [s \in Requests |-> IF s \in S THEN "left" ELSE StatusOf(s)]
  BY <1>1
<1>3. S \in SUBSET {s \in Requests : StatusOf(s) \in {"new", "admitted"}}
  BY <1>1
<1> HIDE DEF S
<1>4. S \in SUBSET {s \in Requests : [q \in Requests |-> StatusOf(q)][s] \in {"new", "admitted"}}
  BY <1>3
<1>5. [s \in Requests |-> StatusOf(s)']
        = [s \in Requests |-> IF s \in S THEN "left" ELSE [q \in Requests |-> StatusOf(q)][s]]
  BY <1>2
<1>6. \E T \in SUBSET {s \in Requests : [q \in Requests |-> StatusOf(q)][s] \in {"new", "admitted"}} :
        [s \in Requests |-> StatusOf(s)']
          = [s \in Requests |-> IF s \in T THEN "left" ELSE [q \in Requests |-> StatusOf(q)][s]]
  BY <1>4, <1>5
<1>7. [r \in DOMAIN chLogs \intersect Performed |-> chLogs[r]]'
        = [r \in DOMAIN chLogs \intersect Performed |-> chLogs[r]]
  BY DEF LogsOf
<1>8. UNCHANGED <<call, Promise!tables, expired, resolved,
                 [r \in DOMAIN chLogs \intersect Performed |-> chLogs[r]], audit>>
  BY <1>7 DEF tables, Promise!tables
<1> QED
  BY <1>6, <1>8, Zenon DEF Promise!Leave

\* Which requests are performed, and where the others stand.
LEMMA PerformedIs ==
    ASSUME IInv, NEW r \in Requests PROVE (r \in Performed) <=> pc[r] \in {"copy", "done"}
<1>1. ASSUME r \in Performed PROVE pc[r] \in {"copy", "done"}
  BY <1>1 DEF Performed, IInv, Events
<1>2. ASSUME pc[r] \in {"copy", "done"} PROVE r \in Performed
  <2>1. EventOf(r) \in audit /\ EventOf(r).request = r
    BY <1>2 DEF IInv, Wrote, EventOf
  <2> QED
    BY <2>1 DEF Performed
<1> QED
  BY <1>1, <1>2

\* A step of r alone that performs nothing, and admits nobody.
LEMMA AloneStep ==
    ASSUME IInv, NEW r \in Requests, r \notin dead, pc[r] \notin {"copy", "done"},
           UNCHANGED <<call, tables, expired, resolved, audit>>, dead' = dead, LogsOf' = LogsOf,
           \A s \in Requests \ {r} : pc'[s] = pc[s],
           \/ pc'[r] = "refused"
           \/ pc'[r] \notin {"new", "refused"} /\ (pc[r] # "new" \/ call[r].op = "orgs.create"),
           pc[r] # "refused"
    PROVE  Promise!Leave
<1>1. Performed' = Performed /\ r \notin Performed
  BY PerformedIs DEF Performed
<1>2. \A s \in Requests \ {r} : StatusOf(s)' = StatusOf(s)
  BY <1>1 DEF StatusOf
<1>3. \/ StatusOf(r)' = StatusOf(r)
      \/ StatusOf(r) \in {"new", "admitted"} /\ StatusOf(r)' = "left"
  BY <1>1 DEF StatusOf
<1> QED
  BY <1>2, <1>3, LeaveStep

LEMMA BootstrapMaps == ASSUME IInv, NEW r \in Requests, Bootstrap(r) PROVE Promise!Leave
BY AloneStep DEF Bootstrap, At, Goto, progress, IInv, TypeOK, LogsOf, Performed

LEMMA GetAgentMaps == ASSUME IInv, NEW r \in Requests, GetAgent(r) PROVE Promise!Leave
BY AloneStep DEF GetAgent, At, Goto, progress, IInv, TypeOK, LogsOf, Performed

LEMMA CheckMaps == ASSUME IInv, NEW r \in Requests, Check(r) PROVE Promise!Leave
BY AloneStep DEF Check, At, Goto, progress, IInv, TypeOK, LogsOf, Performed

LEMMA InsertLogMaps == ASSUME IInv, NEW r \in Requests, InsertLog(r) PROVE Promise!Leave
<1>1. r \notin Performed /\ pc[r] = "insert" /\ Performed' = Performed
  BY PerformedIs DEF InsertLog, At, Performed
<1>2. LogsOf' = LogsOf
  <2>1. DOMAIN chLogs' = DOMAIN chLogs \union {r} /\ \A x \in DOMAIN chLogs \ {r} : chLogs'[x] = chLogs[x]
    BY DEF InsertLog, With
  <2>2. DOMAIN chLogs' \intersect Performed = DOMAIN chLogs \intersect Performed
    BY <1>1, <2>1
  <2>3. \A x \in DOMAIN chLogs \intersect Performed : chLogs'[x] = chLogs[x]
    BY <1>1, <2>1
  <2> QED
    BY <1>1, <2>2, <2>3 DEF LogsOf
<1> QED
  BY <1>1, <1>2, AloneStep DEF InsertLog, At, Goto, progress, IInv, TypeOK

LEMMA CopyAuditMaps == ASSUME IInv, NEW r \in Requests, CopyAudit(r) PROVE Promise!Leave
<1>1. r \in Performed /\ Performed' = Performed
  BY PerformedIs DEF CopyAudit, At, Performed
<1>2. \A s \in Requests : StatusOf(s)' = StatusOf(s)
  BY <1>1 DEF CopyAudit, At, Goto, progress, IInv, TypeOK, StatusOf
<1>3. LogsOf' = LogsOf
  BY <1>1 DEF CopyAudit, LogsOf
<1> QED
  BY <1>2, <1>3, LeaveStep DEF CopyAudit, progress

LEMMA DeadMaps ==
    ASSUME IInv, NEW D \in SUBSET Requests, \A s \in D : pc[s] \in Stages, dead' = dead \union D,
           UNCHANGED <<call, tables, expired, pc, step, resolved, chLogs, audit, chAudit>>
    PROVE  Promise!Leave
<1>1. Performed' = Performed /\ LogsOf' = LogsOf
  BY DEF Performed, LogsOf
<1>2. \A s \in Requests : \/ StatusOf(s)' = StatusOf(s)
                          \/ StatusOf(s) \in {"new", "admitted"} /\ StatusOf(s)' = "left"
  BY <1>1 DEF StatusOf
<1> QED
  BY <1>1, <1>2, LeaveStep

LEMMA ExpireMaps == ASSUME NEW k, Expire(k) PROVE Promise!Expire(k)
<1>1. Performed' = Performed
  BY DEF Expire, Performed
<1>2. UNCHANGED <<[r \in Requests |-> StatusOf(r)], [r \in DOMAIN chLogs \intersect Performed |-> chLogs[r]]>>
  BY <1>1 DEF Expire, StatusOf
<1> QED
  BY <1>2 DEF Expire, Promise!Expire, tables, Promise!tables

\* A key that is valid when the request arrives.
LEMMA AuthenticateMaps ==
    ASSUME IInv, NEW r \in Requests, Authenticate(r) PROVE Promise!Leave \/ Promise!Admit(r)
<1>0. /\ pc[r] = "new" /\ r \notin dead /\ dead' = dead /\ Performed' = Performed /\ r \notin Performed
      /\ UNCHANGED <<call, tables, expired, resolved, audit>> /\ LogsOf' = LogsOf
      /\ \A s \in Requests \ {r} : pc'[s] = pc[s]
      /\ pc'[r] = IF Valid(call[r].key) THEN "agent" ELSE "refused"
  BY PerformedIs DEF Authenticate, At, Goto, progress, IInv, TypeOK, LogsOf, Performed
<1>1. CASE ~Valid(call[r].key) \/ call[r].op = "orgs.create"
  BY <1>0, <1>1, AloneStep
<1>2. CASE Valid(call[r].key) /\ call[r].op # "orgs.create"
  <2>1. StatusOf(r) = "new" /\ StatusOf(r)' = "admitted"
    BY <1>0, <1>2 DEF StatusOf
  <2>2. \A s \in Requests \ {r} : StatusOf(s)' = StatusOf(s)
    BY <1>0 DEF StatusOf
  <2>3. [s \in Requests |-> StatusOf(s)']
          = [[s \in Requests |-> StatusOf(s)] EXCEPT ![r] = "admitted"]
    BY <2>1, <2>2
  <2>4. [s \in Requests |-> StatusOf(s)][r] = "new"
    BY <2>1
  <2>5. UNCHANGED <<call, Promise!tables, expired, resolved,
                   [s \in DOMAIN chLogs \intersect Performed |-> chLogs[s]], audit>>
    BY <1>0 DEF tables, Promise!tables, LogsOf
  <2>6. Promise!Valid(call[r].key)
    BY <1>2, SameTables
  <2> QED
    BY <1>2, <2>3, <2>4, <2>5, <2>6 DEF Promise!Admit, Promise!Become
<1> QED
  BY <1>1, <1>2

LEMMA ResolveMaps == ASSUME IInv, NEW r \in Requests, Resolve(r) PROVE Promise!Leave \/ Promise!Choose(r)
<1>0. /\ pc[r] = "resolve" /\ r \notin dead /\ dead' = dead /\ Performed' = Performed /\ r \notin Performed
      /\ UNCHANGED <<call, tables, expired, audit>> /\ LogsOf' = LogsOf
      /\ call[r].op = "logs.write" /\ call[r].source = NoId
  BY PerformedIs DEF Resolve, At, Goto, progress, IInv, TypeOK, Passed, LogsOf, Performed
<1>1. CASE ~\E s \in Candidates(r) : Candidates(r) = {s}
  BY <1>0, <1>1, AloneStep DEF Resolve, Goto, IInv, TypeOK
<1>2. CASE \E s \in Candidates(r) : Candidates(r) = {s}
  <2>1. PICK s \in Candidates(r) : Candidates(r) = {s}
    BY <1>2
  <2>2. resolved' = [resolved EXCEPT ![r] = s] /\ pc' = [pc EXCEPT ![r] = "check"]
    <3>1. (CHOOSE x \in Candidates(r) : TRUE) = s
      BY <2>1
    <3> QED
      BY <1>2, <3>1 DEF Resolve, Goto
  <2>3. \A q \in Requests : StatusOf(q)' = StatusOf(q)
    BY <1>0, <2>2 DEF StatusOf, IInv, TypeOK
  <2>4. [q \in Requests |-> StatusOf(q)][r] = "admitted"
    BY <1>0 DEF StatusOf
  <2>5. UNCHANGED <<call, Promise!tables, expired, [q \in Requests |-> StatusOf(q)],
                    [q \in DOMAIN chLogs \intersect Performed |-> chLogs[q]], audit>>
    BY <1>0, <2>3 DEF tables, Promise!tables, LogsOf
  <2>6. \E x \in Promise!Candidates(r) : Promise!Candidates(r) = {x} /\ resolved' = [resolved EXCEPT ![r] = x]
    BY <2>1, <2>2, SameTables
  <2> QED
    BY <1>0, <2>4, <2>5, <2>6 DEF Promise!Choose
<1> QED
  BY <1>1, <1>2

\* The transaction performs the request: its checks would all pass now.
LEMMA CommitMaps == ASSUME IInv, NEW r \in Requests, Commit(r) PROVE Promise!Perform(r)
<1> DEFINE s == IF call[r].source # NoId THEN call[r].source ELSE resolved[r]
           st == [q \in Requests |-> StatusOf(q)]
           lg == [q \in DOMAIN chLogs \intersect Performed |-> chLogs[q]]
<1>0. /\ pc[r] = "commit" /\ r \notin dead /\ WriteRows(r) /\ UNCHANGED <<call, expired, dead>>
      /\ UNCHANGED <<resolved, chLogs>> /\ audit' = audit \union {EventOf(r)}
      /\ pc' = [pc EXCEPT ![r] = "copy"]
  BY DEF Commit, At, progress, Goto
<1>1. /\ TypeOK /\ Cleared(r) /\ OnlySource(r) /\ (Admitted(r) \/ call[r].op = "orgs.create")
      /\ Wrote(r) /\ r \notin Performed /\ s = Target(r)
  BY <1>0, PerformedIs DEF IInv, Passed, Target
<1>2. Performed' = Performed \union {r}
  <2>1. EventOf(r).request = r
    BY DEF EventOf
  <2> QED
    BY <1>0, <2>1 DEF Performed
<1>3. IF call[r].op = "orgs.create" THEN st[r] = "new" ELSE st[r] = "admitted" /\ Promise!Permitted(r)
  BY <1>0, <1>1, SameTables DEF StatusOf, Admitted
<1>4. call[r].op = "logs.write" => s # NoId
  BY <1>1, TenantsAssumption DEF Target, OnlySource, Candidates, TypeOK
<1>5. \A i \in DOMAIN Promise!Checks(r, s) : Promise!Passes(r, Promise!Checks(r, s)[i])
  <2>1. Promise!Checks(r, s) = ChecksOf(r)
    BY <1>1, SameTables DEF ChecksOf
  <2>2. \A i \in DOMAIN ChecksOf(r) : Passes(r, ChecksOf(r)[i])
    BY <1>1 DEF Cleared, Holds
  <2> QED
    BY <2>1, <2>2, SameTables
<1>6. Promise!WriteRows(r)
  BY <1>0, SameTables
<1>7. [q \in DOMAIN chLogs \intersect Performed |-> chLogs[q]]'
        = IF call[r].op = "logs.write" THEN Promise!With(lg, r, s) ELSE lg
  <2>1. CASE call[r].op = "logs.write"
    <3>1. r \in DOMAIN chLogs /\ chLogs[r] = s
      BY <1>0, <1>1, <2>1 DEF Wrote
    <3>2. (DOMAIN chLogs \intersect Performed)' = (DOMAIN chLogs \intersect Performed) \union {r}
      BY <1>0, <1>2, <3>1
    <3> QED
      BY <1>0, <2>1, <3>1, <3>2 DEF Promise!With
  <2>2. CASE call[r].op # "logs.write"
    <3>1. r \notin DOMAIN chLogs
      BY <1>1, <2>2 DEF Wrote
    <3>2. (DOMAIN chLogs \intersect Performed)' = DOMAIN chLogs \intersect Performed
      BY <1>0, <1>2, <3>1
    <3> QED
      BY <1>0, <2>2, <3>2
  <2> QED
    BY <2>1, <2>2
<1>8. audit' = audit \union {Promise!EventOf(r)}
  BY <1>0, SameTables
<1>9. [q \in Requests |-> StatusOf(q)]' = [st EXCEPT ![r] = "done"]
  <2>1. StatusOf(r)' = "done"
    BY <1>2 DEF StatusOf
  <2>2. \A q \in Requests \ {r} : StatusOf(q)' = StatusOf(q)
    BY <1>0, <1>1, <1>2 DEF StatusOf, TypeOK
  <2> QED
    BY <2>1, <2>2
<1> HIDE DEF st, lg
<1> QED
  BY <1>0, <1>3, <1>4, <1>5, <1>6, <1>7, <1>8, <1>9, Zenon
     DEF Promise!Perform, Promise!Become, st, lg

LEMMA InitMaps == Init => Promise!Init
<1> SUFFICES ASSUME Init PROVE Promise!Init
  OBVIOUS
<1>1. Performed = {} /\ DOMAIN chLogs \intersect Performed = {}
  BY DEF Init, Performed
<1>2. [r \in Requests |-> StatusOf(r)] = [r \in Requests |-> "new"]
  BY <1>1 DEF Init, StatusOf
<1>3. [r \in DOMAIN chLogs \intersect Performed |-> chLogs[r]] = << >>
  BY <1>1
<1> QED
  BY <1>2, <1>3 DEF Init, TablesInit, Promise!Init, Promise!TablesInit

LEMMA NextMaps == IInv /\ [Next]_vars => [Promise!Next]_(Promise!registryVars)
<1> SUFFICES ASSUME IInv, [Next]_vars PROVE [Promise!Next]_(Promise!registryVars)
  OBVIOUS
<1>1. ASSUME NEW r \in Requests, Handle(r) PROVE Promise!Next
  BY <1>1, BootstrapMaps, AuthenticateMaps, GetAgentMaps, ResolveMaps, CheckMaps, InsertLogMaps,
     CommitMaps, CopyAuditMaps DEF Handle, Promise!Next
<1>2. ASSUME NEW r \in Requests, Fail(r) PROVE Promise!Next
  <2>1. Promise!Leave
    <3>1. /\ {r} \in SUBSET Requests /\ \A s \in {r} : pc[s] \in Stages
          /\ dead' = dead \union {r}
          /\ UNCHANGED <<call, tables, expired, pc, step, resolved, chLogs, audit, chAudit>>
      BY <1>2 DEF Fail, InFlight
    <3> QED
      BY <3>1, DeadMaps
  <2> QED
    BY <2>1 DEF Promise!Next
<1>3. ASSUME Crash PROVE Promise!Next
  <2>1. Promise!Leave
    <3> DEFINE D == {r \in Requests : InFlight(r)}
    <3>1. /\ D \in SUBSET Requests /\ \A s \in D : pc[s] \in Stages
          /\ dead' = dead \union D
          /\ UNCHANGED <<call, tables, expired, pc, step, resolved, chLogs, audit, chAudit>>
      BY <1>3 DEF Crash, InFlight
    <3> HIDE DEF D
    <3> QED
      BY <3>1, DeadMaps
  <2> QED
    BY <2>1 DEF Promise!Next
<1>4. ASSUME NEW k \in DOMAIN keys, Expire(k) PROVE Promise!Next
  BY <1>4, ExpireMaps DEF Promise!Next
<1>5. CASE UNCHANGED vars
  <2>1. UNCHANGED <<[r \in Requests |-> StatusOf(r)], [r \in DOMAIN chLogs \intersect Performed |-> chLogs[r]]>>
    BY <1>5 DEF vars, progress, StatusOf, Performed
  <2> QED
    BY <1>5, <2>1 DEF vars, progress, tables, Promise!registryVars, Promise!tables
<1> QED
  BY <1>1, <1>2, <1>3, <1>4, <1>5 DEF Next

\* The separate reads and writes of PostgresClickHouseStore are as good as the
\* one step of InMemoryStore, for any number of racing requests.
THEOREM RegistryKept == Spec => KeepsRegistry
<1> QED
  BY InitMaps, NextMaps, Invariant, PTL DEF Spec, KeepsRegistry, Promise!Spec
====
