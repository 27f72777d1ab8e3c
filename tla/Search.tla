---- MODULE Search ----
(***************************************************************************)
(* A client walks the pages of a search, or exports once, while logs are   *)
(* written and dropped: search_logs and _search_where of                   *)
(* PostgresClickHouseStore (persistent_store.py) behind their routes       *)
(* (routes_logs.py).  A page takes a count and a query, each of the table  *)
(* as it is then; the cursor is an offset into an order that is evaluated  *)
(* anew for each page and leaves ties open.  record_matches_search         *)
(* (log_query.py) and the order of InMemoryStore.search_logs are the       *)
(* reference.                                                              *)
(*                                                                         *)
(* A record has its timestamps in ticks; the DateTime columns of the table *)
(* keep whole seconds.  The equalities on trace_id, span_id, request_id    *)
(* and logger, which both stores make on the same strings, are one: the    *)
(* request has such a filter (equals) and the record passes it (equal).    *)
(* Of the text query it matters whether a record has the text within one   *)
(* of its three fields or only across two of them (text).                  *)
(***************************************************************************)
EXTENDS Integers, Sequences, FiniteSets, SequencesExt

CONSTANTS
    Universe,       \* the logs that may be written: a function to records
    Requests,       \* the search requests that a walk may make
    Grants,         \* the projects of the key's org, and the project of each source
    Severities,     \* normalize_severity: a function from the supported names
    Second,         \* ticks of a record's timestamps in a second
    MaxRange, MaxPage, MaxExport, ReadLimit,
    MaxDrops        \* bound: logs that retention drops

\* Attribute values: a type and the JSON text, of a string without its quotes.
Values == [type : {"absent", "null", "bool", "number", "string"}, text : STRING]
Absent == [type |-> "absent", text |-> ""]

ASSUME SearchAssumption ==
    /\ {Second, MaxRange, MaxPage, MaxExport, ReadLimit} \subseteq Nat \ {0}
    /\ \A q \in Requests :
        /\ q.limit \in Nat \ {0} /\ q.from \in Nat /\ q.to \in Nat
        /\ q.sort \in {"timestamp_desc", "timestamp_asc", "received_at_desc"}
        /\ \A k \in DOMAIN q.attributes : q.attributes[k] \in Values
    /\ IsFiniteSet(DOMAIN Universe)
    /\ \A i \in DOMAIN Universe : LET log == Universe[i] IN
        /\ log.timestamp \in Nat /\ log.received \in Nat
        /\ \A k \in DOMAIN log.attributes : log.attributes[k] \in Values

VARIABLES
    request,        \* the request: [key, project, from, to, sources, severity,
                    \* equals, text, attributes, sort, limit, export]
    pc,             \* the operation the handler does next, or what the client does
    cursor,         \* the offset that the client asks for
    total,          \* the result of the count
    rows,           \* the page
    returned,       \* the logs of the pages answered so far
    reads,          \* today's reads of the agent in Redis
    table,          \* ClickHouse logs
    dropped,        \* logs that retention has dropped
    audit, chAudit, \* number of audit events in Postgres, and in ClickHouse
    start, counted, seen,   \* the table at the first count, the last count, the last page
    lost            \* the logs dropped since the first count

answer == <<cursor, total, rows, returned>>
events == <<audit, chAudit>>
history == <<start, counted, seen, lost>>
vars == <<request, pc, answer, reads, table, dropped, events, history>>

\* Every variable has its type, the agent's reads stay within their limit, a
\* page is no longer than a page may be, and what was answered is in both logs.
TypeOK ==
    /\ request \in Requests
    /\ pc \in {"ask", "quota", "count", "page", "audit", "copy", "done", "refused"}
    /\ cursor \in Nat /\ total \in Nat
    /\ rows \in Seq(DOMAIN Universe) /\ returned \in Seq(DOMAIN Universe)
    /\ Len(rows) <= IF request.export THEN MaxExport ELSE MaxPage
    /\ reads \in 0..ReadLimit
    /\ table \subseteq DOMAIN Universe /\ dropped \subseteq DOMAIN Universe \ table
    /\ audit \in Nat /\ chAudit \in 0..audit
    /\ audit <= reads /\ (returned # << >> => chAudit > 0)
    /\ start \cup counted \cup seen \subseteq DOMAIN Universe /\ lost \subseteq dropped

Init ==
    /\ request \in Requests
    /\ pc = "ask" /\ cursor = 0 /\ total = 0 /\ rows = << >> /\ returned = << >>
    /\ reads = 0
    /\ table \in SUBSET DOMAIN Universe /\ dropped = {}
    /\ audit = 0 /\ chAudit = 0
    /\ start = {} /\ counted = {} /\ seen = {} /\ lost = {}

-----------------------------------------------------------------------------

ProjectAllowed(key, p) == key.projects = {} \/ p \in key.projects
SourceAllowed(key, s) == key.sources = {} \/ s \in key.sources

\* validate_search_time_range, _project_for_key, _source_for_key.
ValidRange == request.from < request.to /\ request.to - request.from <= MaxRange
Granted(s) ==
    /\ s \in DOMAIN Grants.sources /\ Grants.sources[s] = request.project
    /\ ProjectAllowed(request.key, Grants.sources[s]) /\ SourceAllowed(request.key, s)
Valid ==
    /\ ValidRange
    /\ request.project \in Grants.projects /\ ProjectAllowed(request.key, request.project)
    /\ \A s \in request.sources : Granted(s)

Normalized == {Severities[n] : n \in request.severity}

\* What a DateTime column, or a datetime bound to a parameter, keeps.
Column(t) == t \div Second

\* JSON_VALUE gives the text of a value, an empty one for null and for what is
\* not there; str() gives Python's.
Get(log, k) == IF k \in DOMAIN log.attributes THEN log.attributes[k] ELSE Absent
JsonValue(v) == IF v.type \in {"absent", "null"} THEN "" ELSE v.text
Str(v) ==
    CASE v.type = "null" -> "None"
      [] v.type = "bool" -> IF v.text = "true" THEN "True" ELSE "False"
      [] OTHER -> v.text

\* The conditions of _search_where on columns: the range, the equalities, LIKE
\* on each of three fields, and the attributes as text.
OnColumns(log) ==
    /\ Column(request.from) <= Column(log.timestamp) /\ Column(log.timestamp) <= Column(request.to)
    /\ request.equals => log.equal
    /\ request.text => log.text = "within"
    /\ \A k \in DOMAIN request.attributes : JsonValue(Get(log, k)) = Str(request.attributes[k])

\* The WHERE clause of _search_where: the sources asked for, or else those of
\* the key.  (Mutant: the key's are forgotten.)
WhereAsked(log) ==
    /\ log.project = request.project
    /\ request.sources # {} => log.source \in request.sources
    /\ request.severity # {} => log.severity \in Normalized
    /\ OnColumns(log)

Where(log) ==
    LET sources == IF request.sources # {} THEN request.sources ELSE request.key.sources IN
    /\ log.project = request.project
    /\ sources # {} => log.source \in sources
    /\ request.severity # {} => log.severity \in Normalized
    /\ OnColumns(log)

Found(T) == {i \in T : Where(Universe[i])}

\* ORDER BY, on the columns: whether log a comes before log b; the rest is open.
Before(a, b) ==
    LET stamp(i) == Column(Universe[i].timestamp)
        receipt(i) == Column(Universe[i].received)
    IN
    CASE request.sort = "timestamp_desc" ->
            stamp(a) > stamp(b) \/ (stamp(a) = stamp(b) /\ receipt(a) > receipt(b))
      [] request.sort = "timestamp_asc" ->
            stamp(a) < stamp(b) \/ (stamp(a) = stamp(b) /\ receipt(a) < receipt(b))
      [] request.sort = "received_at_desc" -> receipt(a) > receipt(b)
Orders(S) == {o \in SetToSeqs(S) : \A i, j \in DOMAIN o : i < j => ~Before(o[j], o[i])}

Least(a, b) == IF a < b THEN a ELSE b
\* (Mutant: what the request asks for.)
LimitAsAsked == request.limit
Limit == Least(request.limit, IF request.export THEN MaxExport ELSE MaxPage)
Window(o) == SubSeq(o, cursor + 1, Least(cursor + Limit, Len(o)))

-----------------------------------------------------------------------------

\* The call is over: what it counted and read is gone.
Forget == total' = 0 /\ rows' = << >> /\ counted' = {} /\ seen' = {}

\* The client sends the request with its cursor; the checks come first.
Ask ==
    /\ pc = "ask"
    /\ pc' = IF Valid THEN "quota" ELSE "refused"
    /\ UNCHANGED <<request, answer, reads, table, dropped, events, history>>

\* _reserve_agent_read_quota, whose steps are in DailyQuota; then _search_where
\* normalises the severities and raises for an unsupported one.
Reserve ==
    /\ pc = "quota"
    /\ IF reads < ReadLimit
       THEN /\ reads' = reads + 1
            /\ pc' = IF request.severity \subseteq DOMAIN Severities THEN "count" ELSE "refused"
       ELSE pc' = "refused" /\ UNCHANGED reads
    /\ UNCHANGED <<request, answer, table, dropped, events, history>>

\* SELECT count()
Count ==
    /\ pc = "count" /\ pc' = "page"
    /\ total' = Cardinality(Found(table))
    /\ counted' = table
    /\ IF returned = << >> /\ cursor = 0 THEN start' = table /\ lost' = {}
       ELSE UNCHANGED <<start, lost>>
    /\ UNCHANGED <<request, cursor, rows, returned, reads, table, dropped, events, seen>>

\* SELECT ... LIMIT OFFSET
Page ==
    /\ pc = "page" /\ pc' = "audit"
    /\ \E o \in Orders(Found(table)) : rows' = Window(o)
    /\ seen' = table
    /\ UNCHANGED <<request, cursor, total, returned, reads, table, dropped, events, start, counted, lost>>

\* record_audit
RecordAudit ==
    /\ pc = "audit" /\ pc' = "copy"
    /\ audit' = audit + 1
    /\ UNCHANGED <<request, answer, reads, table, dropped, chAudit, history>>

\* The copy of the event, and the answer; with a next_cursor the client of a
\* search goes on.  (Mutant: the last log is thought to be in the page.)
NextCursorEarly == IF cursor + Limit + 1 < total THEN {cursor + Limit} ELSE {}
NextCursor == IF cursor + Limit < total THEN {cursor + Limit} ELSE {}

Answer ==
    /\ pc = "copy"
    /\ chAudit' = chAudit + 1
    /\ returned' = returned \o rows
    /\ IF request.export \/ NextCursor = {}
       THEN pc' = "done" /\ UNCHANGED <<cursor, total, rows, counted, seen>>
       ELSE pc' = "ask" /\ cursor' \in NextCursor /\ Forget
    /\ UNCHANGED <<request, reads, table, dropped, audit, start, lost>>

\* An operation raises, and the client asks for the page again.
Fail ==
    /\ pc \in {"quota", "count", "page", "audit", "copy"}
    /\ pc' = "ask" /\ Forget
    /\ UNCHANGED <<request, cursor, returned, reads, table, dropped, events, start, lost>>

\* ingest_log writes a log.
Insert ==
    /\ pc \notin {"done", "refused"}
    /\ \E i \in DOMAIN Universe \ (table \union dropped) : table' = table \union {i}
    /\ UNCHANGED <<request, pc, answer, reads, dropped, events, history>>

\* The TTL of the table logs drops one.  (That of audit_logs is not modelled: the
\* events are only counted.)
Drop ==
    /\ pc \notin {"done", "refused"} /\ Cardinality(dropped) < MaxDrops
    /\ \E i \in table :
         table' = table \ {i} /\ dropped' = dropped \union {i} /\ lost' = lost \union {i}
    /\ UNCHANGED <<request, pc, answer, reads, events, start, counted, seen>>

Next ==
    \/ Ask \/ Reserve \/ Count \/ Page \/ RecordAudit \/ Answer \/ Fail
    \/ Insert \/ Drop

Spec == Init /\ [][Next]_vars

-----------------------------------------------------------------------------

\* record_matches_search: what it tests that no conversion can change, and all
\* of it, on the record as it was sent.
InScope(log) ==
    /\ log.project = request.project
    /\ ProjectAllowed(request.key, log.project) /\ SourceAllowed(request.key, log.source)
    /\ request.sources = {} \/ log.source \in request.sources
    /\ Normalized = {} \/ log.severity \in Normalized
    /\ request.equals => log.equal

\* Python's ==, but for values of two types, such as 1 and True, that it takes for
\* equal: a filter that is not a string is left open below.
Equal(a, expected) == a = expected \/ (a.type = "absent" /\ expected.type = "null")

Matches(log) ==
    /\ InScope(log)
    /\ log.timestamp \in request.from..request.to
    /\ request.text => log.text \in {"within", "across"}
    /\ \A k \in DOMAIN request.attributes : Equal(Get(log, k), request.attributes[k])

\* The one field that InMemoryStore sorts by, and the order that it gives.
SortKey(i) == IF request.sort = "received_at_desc" THEN Universe[i].received ELSE Universe[i].timestamp
Precedes(i, j) ==
    IF request.sort = "timestamp_asc" THEN SortKey(i) < SortKey(j) ELSE SortKey(i) > SortKey(j)

\* The logs that the conversions may take or leave: those out of the range but
\* in its first or last second, those with the text across two fields, and
\* those filtered by an attribute that is not a string, or by a string that is
\* the text of another value.
Blurred(log) ==
    \/ /\ log.timestamp \notin request.from..request.to
       /\ Column(log.timestamp) \in Column(request.from)..Column(request.to)
    \/ request.text /\ log.text = "across"
    \/ \E k \in DOMAIN request.attributes :
         LET a == Get(log, k)
             expected == request.attributes[k]
         IN expected.type # "string" \/ (a.type # "string" /\ JsonValue(a) = expected.text)

\* The answers of InMemoryStore for the table T, but for blurred logs, and the
\* orders that differ from its own within a second at most.
Alike(T) ==
    {S \in SUBSET T : \A i \in T : LET log == Universe[i] IN
        /\ i \in S => InScope(log)
        /\ ~Blurred(log) => (i \in S <=> Matches(log))}
AlikeOrders(S) ==
    {o \in SetToSeqs(S) : \A i, j \in DOMAIN o :
        i < j /\ Precedes(o[j], o[i]) => Column(SortKey(o[i])) = Column(SortKey(o[j]))}

\* What the two stores answer differs by the conversions named above only.
\* Blurred logs apart, the count is of the logs that InMemoryStore finds in the
\* table as it was counted and the page shows those it finds in the table as
\* it was queried, in its order of seconds; blurred or not, a log that is
\* counted or shown is of the project, of sources that the key is granted and
\* the request asks for, and of its severities.
SameAsMemory ==
    pc \in {"audit", "copy"} =>
        /\ \E S \in Alike(counted) : total = Cardinality(S)
        /\ \E S \in Alike(seen) : \E o \in AlikeOrders(S) : rows = Window(o)

\* No two logs tie in what ORDER BY names; no other log of the walk ties with i.
Untied(S) == \A i, j \in S : i # j => Before(i, j) \/ Before(j, i)
Lone(i) == \A j \in Found(table \union lost) : j # i => Before(i, j) \/ Before(j, i)

\* What a walk that ended has not shown of the logs that were there from its
\* first count to its last page, logs that tie with others apart.
Missed == {i \in Found(start \intersect seen) : Lone(i) /\ i \notin ToSet(returned)}

\* A walk that ended has missed no more of the logs that were there all along
\* than were dropped while it went on or written between its last count and
\* the page after it; however many were written otherwise, and none when
\* neither happened.  A log in the same second as another may be missed, for
\* ORDER BY leaves ties open.  Of a table that stayed the same, without ties,
\* the walk shows each log once, in the order.
NothingSkipped ==
    (pc = "done" /\ ~request.export) =>
        /\ Cardinality(Missed) <= Cardinality(Found(lost)) + Cardinality(Found(seen \ counted))
        /\ start = counted /\ counted = seen /\ lost = {} /\ Untied(Found(seen)) =>
               returned \in Orders(Found(start))
====
