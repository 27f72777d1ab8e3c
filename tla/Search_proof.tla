---- MODULE Search_proof ----
(***************************************************************************)
(* The pages of PostgresClickHouseStore are those of InMemoryStore but for *)
(* the named conversions, for every table, request and set of grants, and  *)
(* no answer counts or shows a log outside the key's grants; and a walk by *)
(* offset, however many pages it takes, misses no more of the logs that    *)
(* were there all along than were dropped or written late meanwhile.       *)
(***************************************************************************)
EXTENDS Search, FiniteSetTheorems, SequenceTheorems, TLAPS

\* The checks of Ask have passed.
Asked == pc \in {"quota", "count", "page", "audit", "copy", "done"} => Valid

\* What was counted, and the page as a part of an order of what was found.
Answered ==
    /\ pc \in {"page", "audit", "copy"} => total = Cardinality(Found(counted))
    /\ pc \in {"audit", "copy"} => \E o \in Orders(Found(seen)) : rows = Window(o)

\* The reads that the audit events so far have paid for.
Paid ==
    /\ pc \in {"count", "page", "audit"} => audit < reads
    /\ pc = "copy" => chAudit < audit

IInv == TypeOK /\ Asked /\ Answered /\ Paid

-----------------------------------------------------------------------------

\* What the walk began with is there still, or lost; what a page was read from
\* had all of it that was not lost, and is there still, or lost.
Grown ==
    /\ start \subseteq table \union lost
    /\ pc \in {"audit", "copy"} => start \subseteq seen \union lost /\ seen \subseteq table \union lost

\* No other log found in W ties with i; the logs of T that come before i.
Apart(W, i) == \A j \in Found(W) : j # i => Before(i, j) \/ Before(j, i)
Ahead(T, i) == {j \in Found(T) : Before(j, i)}

\* The logs of S still in T that list has not shown though fewer than n logs of
\* T come before them: a walk at the cursor n will not come back to them.
Left(W, S, list, T, n) ==
    {i \in Found(S \intersect T) :
        Apart(W, i) /\ i \notin ToSet(list) /\ Cardinality(Ahead(T, i)) < n}

\* The logs of S still in T that list has not shown.
Overlooked(W, S, T, list) == {i \in Found(S \intersect T) : Apart(W, i) /\ i \notin ToSet(list)}

\* Each lost log has let one log slip before the cursor at most.
Few(list, T, n) ==
    Cardinality(Left(table \union lost, start, list, T, n)) <= Cardinality(Found(lost))

\* Whether list is the first n of what is found in S.
Shown(S, list, n) ==
    Untied(Found(S)) => \A o \in Orders(Found(S)) : list = SubSeq(o, 1, Least(n, Len(o)))

\* Few logs are left behind the cursor or, once the page is read, behind its
\* end, in the table as it is and as the page was read from; of a table that
\* has not changed the walk has shown just what is before.
Walked ==
    /\ Few(returned, table, cursor)
    /\ pc \in {"audit", "copy"} => Few(returned \o rows, table, cursor + Limit)
    /\ pc \in {"audit", "copy"} => Few(returned \o rows, seen, cursor + Limit)
    /\ lost = {} /\ pc # "done" /\ start = table => Shown(start, returned, cursor)
    /\ pc \in {"audit", "copy"} /\ lost = {} /\ start = seen => Shown(start, returned \o rows, cursor + Limit)

WInv == Grown /\ Walked /\ NothingSkipped

-----------------------------------------------------------------------------

LEMMA Bounds ==
    ASSUME request \in Requests
    PROVE  /\ request.limit \in Nat \ {0} /\ request.from \in Nat /\ request.to \in Nat
           /\ MaxPage \in Nat \ {0} /\ MaxExport \in Nat \ {0} /\ ReadLimit \in Nat \ {0}
           /\ Limit \in Nat /\ Limit <= IF request.export THEN MaxExport ELSE MaxPage
BY SearchAssumption DEF Limit, Least

\* Seconds are in the order of ticks.
LEMMA ColumnOrder ==
    ASSUME request \in Requests, NEW a \in Nat, NEW b \in Nat
    PROVE  Column(a) \in Int /\ Column(b) \in Int /\ (a <= b => Column(a) <= Column(b))
<1> DEFINE q == a \div Second
           r == b \div Second
<1>0. Second \in Nat \ {0}
  BY SearchAssumption
<1>1. q \in Int /\ r \in Int /\ Second > 0
  BY <1>0
<1>2. Second * q <= a /\ b < Second * r + Second
  BY <1>0
<1> HIDE DEF q, r
<1>3. ASSUME a <= b, r < q PROVE FALSE
  <2>1. r + 1 <= q /\ r + 1 \in Int
    BY <1>1, <1>3
  <2>2. Second * (r + 1) <= Second * q
    BY <1>0, <1>1, <2>1
  <2>3. Second * (r + 1) = Second * r + Second
    BY <1>0, <1>1
  <2> QED
    BY <1>0, <1>1, <1>2, <1>3, <2>2, <2>3
<1>4. a <= b => q <= r
  BY <1>1, <1>3
<1> QED
  BY <1>1, <1>4 DEF q, r, Column

\* The columns of a log, and the range of a request.
LEMMA ColumnsAre ==
    ASSUME request \in Requests, NEW i \in DOMAIN Universe
    PROVE  /\ Universe[i].timestamp \in Nat /\ Universe[i].received \in Nat
           /\ Column(Universe[i].timestamp) \in Int /\ Column(Universe[i].received) \in Int
           /\ Column(request.from) \in Int /\ Column(request.to) \in Int
<1>1. Universe[i].timestamp \in Nat /\ Universe[i].received \in Nat
  BY SearchAssumption
<1>2. request.from \in Nat /\ request.to \in Nat
  BY Bounds
<1> QED
  BY <1>1, <1>2, ColumnOrder

\* Of what the conversions leave alone, the clause tests what InMemoryStore
\* does: granted sources are left out of it only when the request names
\* sources, each of which was found granted.
LEMMA WhereInScope ==
    ASSUME request \in Requests, Valid, NEW i \in DOMAIN Universe
    PROVE  Where(Universe[i]) <=> InScope(Universe[i]) /\ OnColumns(Universe[i])
<1> DEFINE log == Universe[i]
<1>1. Normalized = {} <=> request.severity = {}
  BY DEF Normalized
<1>2. ASSUME log.project = request.project PROVE ProjectAllowed(request.key, log.project)
  BY <1>2 DEF Valid
<1>3. OnColumns(log) => (request.equals => log.equal)
  BY DEF OnColumns
<1> HIDE DEF log
<1>4. CASE request.sources = {}
  BY <1>1, <1>2, <1>3, <1>4 DEF Where, InScope, SourceAllowed, log
<1>5. CASE request.sources # {}
  <2>1. \A s \in request.sources : SourceAllowed(request.key, s)
    BY DEF Valid, Granted
  <2> QED
    BY <1>1, <1>2, <1>3, <1>5, <2>1 DEF Where, InScope, log
<1> QED
  BY <1>4, <1>5

\* Two strings are equal as text when they are equal; a string is not the text
\* of another value unless the log is blurred.
LEMMA AttributesAlike ==
    ASSUME NEW a, a \in Values \/ a = Absent, NEW e \in Values, e.type = "string",
           a.type = "string" \/ JsonValue(a) # e.text
    PROVE  JsonValue(a) = Str(e) <=> Equal(a, e)
<1>1. Str(e) = e.text
  BY DEF Str
<1>2. CASE a.type = "string"
  <2>1. JsonValue(a) = a.text
    BY <1>2 DEF JsonValue
  <2>2. a \in Values
    <3>1. Absent.type = "absent"
      BY DEF Absent
    <3>2. a # Absent
      BY <1>2, <3>1
    <3> QED
      BY <3>2
  <2>3. a = e <=> a.text = e.text
    BY <1>2, <2>2 DEF Values
  <2> QED
    BY <1>1, <1>2, <2>1, <2>3 DEF Equal
<1>3. CASE a.type # "string"
  BY <1>1, <1>3 DEF Equal
<1> QED
  BY <1>2, <1>3

LEMMA ClauseMatches ==
    ASSUME request \in Requests, Valid, NEW i \in DOMAIN Universe, ~Blurred(Universe[i])
    PROVE  Where(Universe[i]) <=> Matches(Universe[i])
<1> DEFINE log == Universe[i]
<1>1. /\ log.timestamp \in Nat /\ request.from \in Nat /\ request.to \in Nat
      /\ Column(log.timestamp) \in Int /\ Column(request.from) \in Int /\ Column(request.to) \in Int
      /\ request.from <= log.timestamp => Column(request.from) <= Column(log.timestamp)
      /\ log.timestamp <= request.to => Column(log.timestamp) <= Column(request.to)
  <2>1. log.timestamp \in Nat /\ request.from \in Nat /\ request.to \in Nat
    BY Bounds, ColumnsAre
  <2> HIDE DEF log
  <2> QED
    BY <2>1, ColumnOrder
<1>2. \A k \in DOMAIN request.attributes :
         JsonValue(Get(log, k)) = Str(request.attributes[k]) <=> Equal(Get(log, k), request.attributes[k])
  <2> TAKE k \in DOMAIN request.attributes
  <2> DEFINE a == Get(log, k)
             e == request.attributes[k]
  <2>1. e \in Values
    BY SearchAssumption
  <2>2. a \in Values \/ a = Absent
    <3>1. CASE k \in DOMAIN log.attributes
      BY <3>1, SearchAssumption DEF Get
    <3>2. CASE k \notin DOMAIN log.attributes
      BY <3>2 DEF Get
    <3> QED
      BY <3>1, <3>2
  <2>3. e.type = "string" /\ (a.type = "string" \/ JsonValue(a) # e.text)
    BY DEF Blurred
  <2> HIDE DEF a, e
  <2>4. JsonValue(a) = Str(e) <=> Equal(a, e)
    BY <2>1, <2>2, <2>3, AttributesAlike
  <2> QED
    BY <2>4 DEF a, e
<1>3. /\ ~(/\ log.timestamp \notin request.from..request.to
           /\ Column(log.timestamp) \in Column(request.from)..Column(request.to))
      /\ ~(request.text /\ log.text = "across")
  BY DEF Blurred
<1>4. Where(log) <=> InScope(log) /\ OnColumns(log)
  BY WhereInScope
<1> HIDE DEF log
<1>5. log.timestamp \in request.from..request.to <=>
          Column(request.from) <= Column(log.timestamp) /\ Column(log.timestamp) <= Column(request.to)
  BY <1>1, <1>3
<1>6. InScope(log) => (request.equals => log.equal)
  BY DEF InScope
<1>7. InScope(log) => (OnColumns(log) <=>
          /\ log.timestamp \in request.from..request.to
          /\ request.text => log.text \in {"within", "across"}
          /\ \A k \in DOMAIN request.attributes : Equal(Get(log, k), request.attributes[k]))
  <2> DEFINE ByText == \A k \in DOMAIN request.attributes : JsonValue(Get(log, k)) = Str(request.attributes[k])
             ByValue == \A k \in DOMAIN request.attributes : Equal(Get(log, k), request.attributes[k])
  <2>1. ByText <=> ByValue
    BY <1>2
  <2>2. OnColumns(log) <=>
          /\ Column(request.from) <= Column(log.timestamp) /\ Column(log.timestamp) <= Column(request.to)
          /\ request.equals => log.equal
          /\ request.text => log.text = "within"
          /\ ByText
    BY DEF OnColumns
  <2> HIDE DEF ByText, ByValue
  <2>3. (request.text => log.text = "within") <=> (request.text => log.text \in {"within", "across"})
    BY <1>3
  <2>4. InScope(log) => (OnColumns(log) <=>
          /\ log.timestamp \in request.from..request.to
          /\ request.text => log.text \in {"within", "across"}
          /\ ByValue)
    BY <1>5, <1>6, <2>1, <2>2, <2>3
  <2> QED
    BY <2>4 DEF ByValue
<1>8. Where(log) <=> Matches(log)
  BY <1>4, <1>7 DEF Matches
<1> QED
  BY <1>8 DEF log

LEMMA FoundIsAlike ==
    ASSUME request \in Requests, Valid, NEW T, T \subseteq DOMAIN Universe
    PROVE  Found(T) \in Alike(T)
<1>1. Found(T) \in SUBSET T
  BY DEF Found
<1>2. ASSUME NEW i \in T
      PROVE  /\ i \in Found(T) => InScope(Universe[i])
             /\ ~Blurred(Universe[i]) => (i \in Found(T) <=> Matches(Universe[i]))
  BY <1>2, WhereInScope, ClauseMatches DEF Found
<1> QED
  BY <1>1, <1>2 DEF Alike

LEMMA FoundFinite ==
    ASSUME NEW T, T \subseteq DOMAIN Universe
    PROVE  IsFiniteSet(Found(T)) /\ Cardinality(Found(T)) \in Nat /\ Found(T) \subseteq DOMAIN Universe
<1>1. Found(T) \subseteq DOMAIN Universe
  BY DEF Found
<1>2. IsFiniteSet(Found(T))
  BY <1>1, SearchAssumption, FS_Subset
<1> QED
  BY <1>1, <1>2, FS_CardinalityType

\* A page is a part of one order of what was found.
LEMMA WindowIs ==
    ASSUME request \in Requests, cursor \in Nat, NEW S, IsFiniteSet(S), NEW o \in Orders(S)
    PROVE  /\ Window(o) \in Seq(S) /\ ToSet(Window(o)) \subseteq S
           /\ Len(Window(o)) <= IF request.export THEN MaxExport ELSE MaxPage
<1> DEFINE m == cursor + 1
           n == Least(cursor + Limit, Len(o))
<1>1. o \in [1..Cardinality(S) -> S] /\ Cardinality(S) \in Nat
  BY FS_CardinalityType DEF Orders, SetToSeqs
<1>2. o \in Seq(S) /\ Len(o) = Cardinality(S)
  BY <1>1
<1>3. m \in Int /\ n \in Int /\ 1 <= m /\ n <= Len(o) /\ n <= cursor + Limit /\ Limit \in Nat
  BY <1>1, <1>2, Bounds DEF Least
<1>4. \A k \in m..n : k \in 1..Len(o) /\ o[k] \in S
  BY <1>1, <1>2, <1>3
<1>5. /\ SubSeq(o, m, n) \in Seq(S)
      /\ Len(SubSeq(o, m, n)) = IF m <= n THEN n - m + 1 ELSE 0
  <2> HIDE DEF m, n
  <2> QED
    BY <1>3, <1>4, SubSeqProperties
<1>6. Len(SubSeq(o, m, n)) <= Limit
  <2>1. n - m + 1 <= Limit
    BY <1>3
  <2> HIDE DEF m, n
  <2> QED
    BY <1>3, <1>5, <2>1
<1>7. ToSet(Window(o)) \subseteq S
  <2>1. Window(o) \in Seq(S)
    BY <1>5 DEF Window
  <2> QED
    BY <2>1, LenProperties DEF ToSet
<1>8. Limit <= IF request.export THEN MaxExport ELSE MaxPage
  BY Bounds
<1> HIDE DEF m, n
<1>9. Len(Window(o)) <= Limit /\ Len(Window(o)) \in Nat /\ Window(o) \in Seq(S)
  BY <1>5, <1>6, LenProperties DEF Window, m, n
<1> QED
  BY <1>3, <1>7, <1>8, <1>9, Bounds

-----------------------------------------------------------------------------

\* What is found, and in which orders, depends on the request alone.
LEMMA Kept ==
    ASSUME request' = request
    PROVE  /\ Valid' <=> Valid
           /\ Answered' <=>
                /\ pc' \in {"page", "audit", "copy"} => total' = Cardinality(Found(counted'))
                /\ pc' \in {"audit", "copy"} =>
                     \E o \in Orders(Found(seen')) :
                        rows' = SubSeq(o, cursor' + 1, Least(cursor' + Limit, Len(o)))
BY DEF Valid, ValidRange, Granted, Answered, Found, Where, OnColumns, Normalized, Orders, Before, Window, Limit, Least

LEMMA InvInit == Init => IInv
<1> SUFFICES ASSUME Init PROVE IInv
  OBVIOUS
<1>1. TypeOK
  <2>1. << >> \in Seq(DOMAIN Universe) /\ Len(<< >>) = 0
    OBVIOUS
  <2>2. request \in Requests
    BY DEF Init
  <2>3. \A n \in {MaxPage, MaxExport, ReadLimit} : n \in Nat /\ 0 <= n
    BY <2>2, Bounds
  <2>4. /\ rows \in Seq(DOMAIN Universe) /\ returned \in Seq(DOMAIN Universe)
        /\ Len(rows) <= IF request.export THEN MaxExport ELSE MaxPage
    <3>1. rows = << >> /\ returned = << >>
      BY DEF Init
    <3> QED
      BY <2>1, <2>3, <3>1
  <2>5. reads \in 0..ReadLimit /\ chAudit \in 0..audit /\ audit \in Nat /\ audit <= reads
    BY <2>3 DEF Init
  <2>6. table \subseteq DOMAIN Universe /\ dropped \subseteq DOMAIN Universe \ table
    BY DEF Init
  <2> QED
    BY <2>2, <2>4, <2>5, <2>6 DEF Init, TypeOK
<1> QED
  BY <1>1 DEF Init, IInv, Asked, Answered, Paid

LEMMA AskKeeps ==
    ASSUME IInv, Ask PROVE IInv'
<1>1. request' = request /\ (Valid' <=> Valid)
  BY Kept DEF Ask
<1>2. TypeOK'
  BY <1>1 DEF IInv, TypeOK, Ask, answer, events, history
<1> QED
  BY <1>1, <1>2 DEF IInv, Ask, answer, events, history, Asked, Answered, Paid

LEMMA ReserveKeeps ==
    ASSUME IInv, Reserve PROVE IInv'
<1>1. request' = request /\ (Valid' <=> Valid)
  BY Kept DEF Reserve
<1>2. TypeOK' /\ Paid'
  <2>1. ReadLimit \in Nat
    BY Bounds DEF IInv, TypeOK
  <2> QED
    BY <2>1 DEF IInv, TypeOK, Paid, Reserve, answer, events, history
<1> QED
  BY <1>1, <1>2 DEF IInv, Reserve, Asked, Answered

LEMMA CountKeeps ==
    ASSUME IInv, Count PROVE IInv'
<1>1. request' = request /\ counted' = table /\ seen' = seen
  BY DEF Count, events
<1>2. Cardinality(Found(table)) \in Nat
  BY FoundFinite DEF IInv, TypeOK
<1>3. TypeOK'
  BY <1>1, <1>2 DEF IInv, TypeOK, Count, events
<1>4. Answered'
  BY <1>1, Kept DEF Count
<1> QED
  BY <1>1, <1>3, <1>4, Kept DEF IInv, Count, events, Asked, Paid

LEMMA PageKeeps ==
    ASSUME IInv, Page PROVE IInv'
<1>1. request' = request /\ counted' = counted /\ seen' = table /\ total' = total
  BY DEF Page
<1>2. PICK o \in Orders(Found(table)) : rows' = Window(o)
  BY DEF Page
<1>3. IsFiniteSet(Found(table)) /\ Found(table) \subseteq DOMAIN Universe
  BY FoundFinite DEF IInv, TypeOK
<1>4. /\ rows' \in Seq(Found(table))
      /\ Len(rows') <= IF request.export THEN MaxExport ELSE MaxPage
  BY <1>2, <1>3, WindowIs DEF IInv, TypeOK
<1>5. rows' \in Seq(DOMAIN Universe)
  BY <1>3, <1>4
<1>6. TypeOK'
  BY <1>1, <1>4, <1>5 DEF IInv, TypeOK, Page, events
<1>7. Answered'
  <2>1. cursor' = cursor /\ rows' = SubSeq(o, cursor + 1, Least(cursor + Limit, Len(o)))
    BY <1>2 DEF Page, Window
  <2>2. total' = Cardinality(Found(counted'))
    BY <1>1 DEF IInv, Page, Answered
  <2> QED
    BY <1>1, <1>2, <2>1, <2>2, Kept DEF Page
<1> QED
  BY <1>1, <1>6, <1>7, Kept DEF IInv, Page, events, Asked, Paid

LEMMA RecordAuditKeeps ==
    ASSUME IInv, RecordAudit PROVE IInv'
<1>1. request' = request /\ counted' = counted /\ seen' = seen /\ total' = total /\ rows' = rows
  BY DEF RecordAudit, answer, history
<1>2. TypeOK' /\ Paid'
  BY DEF IInv, TypeOK, Paid, RecordAudit, answer, history
<1>3. Answered'
  BY <1>1, Kept DEF IInv, RecordAudit, answer, Answered, Window
<1> QED
  BY <1>1, <1>2, <1>3, Kept DEF IInv, RecordAudit, Asked

LEMMA AnswerKeeps ==
    ASSUME IInv, Answer PROVE IInv'
<1>1. request' = request /\ pc' \in {"done", "ask"}
  BY DEF Answer
<1>2. cursor' \in Nat
  BY Bounds DEF IInv, TypeOK, Answer, NextCursor
<1>3. returned' \in Seq(DOMAIN Universe)
  BY DEF IInv, TypeOK, Answer
<1>4. << >> \in Seq(DOMAIN Universe) /\ Len(<< >>) = 0
  OBVIOUS
<1>5. /\ total' \in Nat /\ rows' \in Seq(DOMAIN Universe)
      /\ Len(rows') <= IF request.export THEN MaxExport ELSE MaxPage
      /\ counted' \subseteq DOMAIN Universe /\ seen' \subseteq DOMAIN Universe
  <2>1. MaxPage \in Nat /\ MaxExport \in Nat
    BY Bounds DEF IInv, TypeOK
  <2>2. CASE request.export \/ NextCursor = {}
    BY <2>2 DEF IInv, TypeOK, Answer
  <2>3. CASE ~(request.export \/ NextCursor = {})
    BY <1>4, <2>1, <2>3 DEF Answer, Forget
  <2> QED
    BY <2>2, <2>3
<1>6. chAudit' \in 0..audit' /\ audit' = audit /\ chAudit' > 0
  BY DEF IInv, TypeOK, Paid, Answer
<1>7. reads' = reads /\ table' = table /\ dropped' = dropped /\ start' = start /\ lost' = lost
  BY DEF Answer
<1>8. TypeOK'
  BY <1>1, <1>2, <1>3, <1>5, <1>6, <1>7 DEF IInv, TypeOK
<1> QED
  BY <1>1, <1>8, Kept DEF IInv, Answer, Asked, Answered, Paid

LEMMA FailKeeps ==
    ASSUME IInv, Fail PROVE IInv'
<1>1. request' = request /\ pc' = "ask"
  BY DEF Fail
<1>2. << >> \in Seq(DOMAIN Universe) /\ Len(<< >>) = 0
  OBVIOUS
<1>3. TypeOK'
  BY <1>1, <1>2, Bounds DEF IInv, TypeOK, Fail, Forget, events
<1> QED
  BY <1>1, <1>3 DEF IInv, Asked, Answered, Paid

LEMMA TableKeeps ==
    ASSUME IInv, Insert \/ Drop PROVE IInv'
<1>1. /\ UNCHANGED <<request, pc, answer, reads, events>>
      /\ start' = start /\ counted' = counted /\ seen' = seen
      /\ table' \subseteq DOMAIN Universe /\ dropped' \subseteq DOMAIN Universe \ table' /\ lost' \subseteq dropped'
  BY DEF Insert, Drop, IInv, TypeOK, history
<1>2. TypeOK'
  BY <1>1 DEF IInv, TypeOK, answer, events
<1>3. Answered'
  BY <1>1, Kept DEF IInv, Answered, answer, Window
<1> QED
  BY <1>1, <1>2, <1>3, Kept DEF IInv, Asked, Paid, answer, events

LEMMA InvNext == IInv /\ [Next]_vars => IInv'
<1> SUFFICES ASSUME IInv, [Next]_vars PROVE IInv'
  OBVIOUS
<1>1. CASE UNCHANGED vars
  <2>1. /\ UNCHANGED <<request, pc, answer, reads, table, dropped, events, history>>
        /\ Valid' <=> Valid
        /\ counted' = counted /\ seen' = seen /\ rows' = rows /\ total' = total /\ cursor' = cursor
    BY <1>1, Kept DEF vars, answer, history
  <2>2. Answered'
    BY <2>1, Kept DEF IInv, Answered, Window
  <2> QED
    BY <2>1, <2>2 DEF IInv, TypeOK, Asked, Paid, answer, events, history
<1> QED
  BY <1>1, AskKeeps, ReserveKeeps, CountKeeps, PageKeeps, RecordAuditKeeps, AnswerKeeps, FailKeeps,
     TableKeeps DEF Next

LEMMA Invariance == Spec => []IInv
BY InvInit, InvNext, PTL DEF Spec

-----------------------------------------------------------------------------

\* ORDER BY never puts each of two logs before the other.
LEMMA BeforeStrict ==
    ASSUME request \in Requests, NEW i \in DOMAIN Universe, NEW j \in DOMAIN Universe, Before(i, j)
    PROVE  ~Before(j, i)
<1>1. /\ Column(Universe[i].timestamp) \in Int /\ Column(Universe[i].received) \in Int
      /\ Column(Universe[j].timestamp) \in Int /\ Column(Universe[j].received) \in Int
  BY ColumnsAre
<1>2. request.sort \in {"timestamp_desc", "timestamp_asc", "received_at_desc"}
  BY SearchAssumption
<1>3. CASE request.sort = "timestamp_desc"
  BY <1>1, <1>3 DEF Before
<1>4. CASE request.sort = "timestamp_asc"
  BY <1>1, <1>4 DEF Before
<1>5. CASE request.sort = "received_at_desc"
  BY <1>1, <1>5 DEF Before
<1> QED
  BY <1>2, <1>3, <1>4, <1>5

LEMMA BeforeTransitive ==
    ASSUME request \in Requests, NEW i \in DOMAIN Universe, NEW j \in DOMAIN Universe,
           NEW k \in DOMAIN Universe, Before(i, j), Before(j, k)
    PROVE  Before(i, k)
<1>1. /\ Column(Universe[i].timestamp) \in Int /\ Column(Universe[i].received) \in Int
      /\ Column(Universe[j].timestamp) \in Int /\ Column(Universe[j].received) \in Int
      /\ Column(Universe[k].timestamp) \in Int /\ Column(Universe[k].received) \in Int
  BY ColumnsAre
<1>2. request.sort \in {"timestamp_desc", "timestamp_asc", "received_at_desc"}
  BY SearchAssumption
<1>3. CASE request.sort = "timestamp_desc"
  BY <1>1, <1>3 DEF Before
<1>4. CASE request.sort = "timestamp_asc"
  BY <1>1, <1>4 DEF Before
<1>5. CASE request.sort = "received_at_desc"
  BY <1>1, <1>5 DEF Before
<1> QED
  BY <1>2, <1>3, <1>4, <1>5

\* An order lists each log once.
LEMMA OrderIs ==
    ASSUME NEW S, IsFiniteSet(S), NEW o \in Orders(S)
    PROVE  /\ Cardinality(S) \in Nat /\ o \in [1..Cardinality(S) -> S]
           /\ o \in Seq(S) /\ Len(o) = Cardinality(S)
           /\ \A k, l \in 1..Cardinality(S) : k # l => o[k] # o[l]
           /\ \A k, l \in 1..Cardinality(S) : k < l => ~Before(o[l], o[k])
           /\ \A x \in S : \E k \in 1..Cardinality(S) : x = o[k]
<1>1. /\ Cardinality(S) \in Nat /\ o \in [1..Cardinality(S) -> S]
      /\ \A k, l \in 1..Cardinality(S) : k # l => o[k] # o[l]
      /\ \A k, l \in 1..Cardinality(S) : k < l => ~Before(o[l], o[k])
  BY FS_CardinalityType DEF Orders, SetToSeqs
<1>2. o \in Injection(1..Cardinality(S), S)
  BY <1>1 DEF Injection, IsInjective
<1>3. Cardinality(1..Cardinality(S)) = Cardinality(S)
  BY <1>1, FS_Interval
<1>4. o \in Surjection(1..Cardinality(S), S)
  BY <1>2, <1>3, FS_Injection
<1>5. \A x \in S : \E k \in 1..Cardinality(S) : x = o[k]
  BY <1>4 DEF Surjection
<1>6. o \in Seq(S) /\ Len(o) = Cardinality(S)
  BY <1>1
<1> QED
  BY <1>1, <1>5, <1>6

\* The place in an order of a log that ties with no other is the number before it.
LEMMA PlaceIs ==
    ASSUME request \in Requests, NEW S, S \subseteq DOMAIN Universe, IsFiniteSet(S),
           NEW o \in Orders(S), NEW k \in 1..Cardinality(S),
           \A j \in S : j # o[k] => Before(o[k], j) \/ Before(j, o[k])
    PROVE  Cardinality({j \in S : Before(j, o[k])}) = k - 1
<1>1. /\ Cardinality(S) \in Nat /\ o \in [1..Cardinality(S) -> S]
      /\ \A n, l \in 1..Cardinality(S) : n # l => o[n] # o[l]
      /\ \A n, l \in 1..Cardinality(S) : n < l => ~Before(o[l], o[n])
      /\ \A x \in S : \E n \in 1..Cardinality(S) : x = o[n]
  <2>1. Cardinality(S) \in Nat /\ o \in [1..Cardinality(S) -> S]
    BY OrderIs
  <2>2. \A n, l \in 1..Cardinality(S) : n # l => o[n] # o[l]
    BY OrderIs
  <2>3. \A n, l \in 1..Cardinality(S) : n < l => ~Before(o[l], o[n])
    BY OrderIs
  <2>4. \A x \in S : \E n \in 1..Cardinality(S) : x = o[n]
    BY OrderIs
  <2> QED
    BY <2>1, <2>2, <2>3, <2>4
<1> DEFINE A == {j \in S : Before(j, o[k])}
           f == [l \in 1..(k - 1) |-> o[l]]
<1>2. \A l \in 1..(k - 1) : l \in 1..Cardinality(S) /\ l < k
  BY <1>1
<1>3. \A l \in 1..(k - 1) : o[l] \in A
  <2> TAKE l \in 1..(k - 1)
  <2>1. l \in 1..Cardinality(S) /\ l < k
    BY <1>2
  <2>2. o[l] \in S /\ o[k] \in S /\ o[l] # o[k] /\ ~Before(o[k], o[l])
    BY <1>1, <2>1
  <2> QED
    BY <2>2
<1>4. \A x \in A : \E l \in 1..(k - 1) : f[l] = x
  <2> TAKE x \in A
  <2>1. PICK l \in 1..Cardinality(S) : x = o[l]
    BY <1>1
  <2>2. o[l] \in S /\ o[k] \in S /\ Before(o[l], o[k])
    BY <1>1, <2>1
  <2>3. l # k
    BY <2>2, BeforeStrict
  <2>4. ~(k < l)
    BY <1>1, <2>2
  <2>5. l \in 1..(k - 1)
    BY <1>1, <2>3, <2>4
  <2> QED
    BY <2>1, <2>5
<1>5. f \in [1..(k - 1) -> A]
  BY <1>3
<1>6. f \in Surjection(1..(k - 1), A)
  BY <1>4, <1>5 DEF Surjection
<1>7. f \in Injection(1..(k - 1), A)
  BY <1>1, <1>2, <1>5 DEF Injection, IsInjective
<1>8. IsFiniteSet(1..(k - 1)) /\ Cardinality(1..(k - 1)) = k - 1
  <2>1. 1 \in Int /\ k - 1 \in Int /\ (1 > k - 1 => k - 1 = 0) /\ (k - 1) - 1 + 1 = k - 1
    BY <1>1
  <2> QED
    BY <2>1, FS_Interval
<1> HIDE DEF f
<1>9. Cardinality(A) = Cardinality(1..(k - 1))
  BY <1>6, <1>7, <1>8, FS_Surjection
<1> QED
  BY <1>8, <1>9

\* Without ties there is one order.
LEMMA OrderUnique ==
    ASSUME request \in Requests, NEW S, S \subseteq DOMAIN Universe, IsFiniteSet(S), Untied(S),
           NEW o \in Orders(S), NEW p \in Orders(S)
    PROVE  o = p
<1>1. /\ Cardinality(S) \in Nat /\ o \in [1..Cardinality(S) -> S] /\ p \in [1..Cardinality(S) -> S]
      /\ \A x \in S : \E m \in 1..Cardinality(S) : x = p[m]
  BY OrderIs
<1>2. ASSUME NEW k \in 1..Cardinality(S) PROVE o[k] = p[k]
  <2>1. PICK l \in 1..Cardinality(S) : o[k] = p[l]
    BY <1>1
  <2>2. \A j \in S : j # o[k] => Before(o[k], j) \/ Before(j, o[k])
    BY <1>1 DEF Untied
  <2>3. Cardinality({j \in S : Before(j, o[k])}) = k - 1
    BY <2>2, PlaceIs
  <2>4. Cardinality({j \in S : Before(j, p[l])}) = l - 1
    BY <2>1, <2>2, PlaceIs
  <2>5. k - 1 = l - 1
    BY <2>1, <2>3, <2>4
  <2>6. k = l
    BY <1>1, <2>5
  <2> QED
    BY <2>1, <2>6
<1> QED
  BY <1>1, <1>2

\* An order of ORDER BY is one by the second of the field that InMemoryStore
\* sorts by.
LEMMA OrderByKey ==
    ASSUME request \in Requests, NEW S, S \subseteq DOMAIN Universe, NEW o \in Orders(S)
    PROVE  o \in AlikeOrders(S)
<1>1. IsFiniteSet(S)
  BY SearchAssumption, FS_Subset
<1>2. Cardinality(S) \in Nat /\ o \in [1..Cardinality(S) -> S]
  BY <1>1, OrderIs
<1>3. ASSUME NEW k \in DOMAIN o, NEW l \in DOMAIN o, k < l, Precedes(o[l], o[k])
      PROVE  Column(SortKey(o[k])) = Column(SortKey(o[l]))
  <2>1. o[k] \in DOMAIN Universe /\ o[l] \in DOMAIN Universe /\ ~Before(o[l], o[k])
    BY <1>2, <1>3 DEF Orders
  <2>2. PICK x, y : x = o[k] /\ y = o[l]
    OBVIOUS
  <2>3. x \in DOMAIN Universe /\ y \in DOMAIN Universe /\ ~Before(y, x) /\ Precedes(y, x)
    BY <1>3, <2>1, <2>2
  <2>4. /\ Universe[x].timestamp \in Nat /\ Universe[x].received \in Nat
        /\ Universe[y].timestamp \in Nat /\ Universe[y].received \in Nat
    BY <2>3, ColumnsAre
  <2>5. SortKey(x) \in Nat /\ SortKey(y) \in Nat
    BY <2>4 DEF SortKey
  <2>6. /\ Column(SortKey(x)) \in Int /\ Column(SortKey(y)) \in Int
        /\ SortKey(x) <= SortKey(y) => Column(SortKey(x)) <= Column(SortKey(y))
        /\ SortKey(y) <= SortKey(x) => Column(SortKey(y)) <= Column(SortKey(x))
    BY <2>5, ColumnOrder
  <2>7. request.sort \in {"timestamp_desc", "timestamp_asc", "received_at_desc"}
    BY SearchAssumption
  <2>8. CASE request.sort = "timestamp_desc"
    <3>1. ~(Column(SortKey(y)) > Column(SortKey(x))) /\ SortKey(y) > SortKey(x)
      BY <2>3, <2>8 DEF Before, SortKey, Precedes
    <3> QED
      BY <2>2, <2>5, <2>6, <3>1
  <2>9. CASE request.sort = "timestamp_asc"
    <3>1. ~(Column(SortKey(y)) < Column(SortKey(x))) /\ SortKey(y) < SortKey(x)
      BY <2>3, <2>9 DEF Before, SortKey, Precedes
    <3> QED
      BY <2>2, <2>5, <2>6, <3>1
  <2>10. CASE request.sort = "received_at_desc"
    <3>1. ~(Column(SortKey(y)) > Column(SortKey(x))) /\ SortKey(y) > SortKey(x)
      BY <2>3, <2>10 DEF Before, SortKey, Precedes
    <3> QED
      BY <2>2, <2>5, <2>6, <3>1
  <2> QED
    BY <2>7, <2>8, <2>9, <2>10
<1>4. o \in SetToSeqs(S)
  BY DEF Orders
<1> QED
  BY <1>3, <1>4 DEF AlikeOrders

-----------------------------------------------------------------------------

\* Of two logs the one that comes before the other has fewer before it.
LEMMA AheadLess ==
    ASSUME request \in Requests, NEW T, T \subseteq DOMAIN Universe,
           NEW i \in Found(T), NEW j \in Found(T), Before(i, j)
    PROVE  /\ Cardinality(Ahead(T, i)) \in Nat /\ Cardinality(Ahead(T, j)) \in Nat
           /\ Cardinality(Ahead(T, i)) < Cardinality(Ahead(T, j))
<1>1. IsFiniteSet(Found(T)) /\ Found(T) \subseteq DOMAIN Universe
  BY FoundFinite
<1>2. Ahead(T, j) \subseteq Found(T) /\ i \in Ahead(T, j) /\ i \notin Ahead(T, i)
  BY <1>1, BeforeStrict DEF Ahead
<1>3. Ahead(T, i) \subseteq Ahead(T, j)
  BY <1>1, BeforeTransitive DEF Ahead
<1>4. IsFiniteSet(Ahead(T, j))
  BY <1>1, <1>2, FS_Subset
<1>5. Ahead(T, i) # Ahead(T, j)
  BY <1>2
<1>6. /\ IsFiniteSet(Ahead(T, i))
      /\ Cardinality(Ahead(T, i)) <= Cardinality(Ahead(T, j))
      /\ Cardinality(Ahead(T, i)) # Cardinality(Ahead(T, j))
  BY <1>3, <1>4, <1>5, FS_Subset
<1>7. Cardinality(Ahead(T, i)) \in Nat /\ Cardinality(Ahead(T, j)) \in Nat
  BY <1>4, <1>6, FS_CardinalityType
<1> QED
  BY <1>6, <1>7

\* A log that ties with no other shares its number of logs before it with none.
LEMMA AheadDiffers ==
    ASSUME request \in Requests, NEW W, W \subseteq DOMAIN Universe, NEW T, T \subseteq W,
           NEW i \in Found(T), NEW j \in Found(T), i # j, Apart(W, i)
    PROVE  Cardinality(Ahead(T, i)) # Cardinality(Ahead(T, j))
<1>1. T \subseteq DOMAIN Universe /\ (Before(i, j) \/ Before(j, i))
  BY DEF Found, Apart
<1>2. CASE Before(i, j)
  BY <1>1, <1>2, AheadLess
<1>3. CASE Before(j, i)
  BY <1>1, <1>3, AheadLess
<1> QED
  BY <1>1, <1>2, <1>3

LEMMA AheadFinite ==
    ASSUME NEW T, T \subseteq DOMAIN Universe, NEW i
    PROVE  IsFiniteSet(Ahead(T, i)) /\ Cardinality(Ahead(T, i)) \in Nat /\ Ahead(T, i) \subseteq Found(T)
<1>1. Ahead(T, i) \subseteq Found(T) /\ IsFiniteSet(Found(T))
  BY FoundFinite DEF Ahead
<1> QED
  BY <1>1, FS_Subset, FS_CardinalityType

LEMMA LeftFinite ==
    ASSUME NEW W, NEW S, NEW list, NEW T, T \subseteq DOMAIN Universe, NEW n
    PROVE  IsFiniteSet(Left(W, S, list, T, n)) /\ Cardinality(Left(W, S, list, T, n)) \in Nat
<1>1. Left(W, S, list, T, n) \subseteq Found(T) /\ IsFiniteSet(Found(T))
  BY FoundFinite DEF Left, Found
<1> QED
  BY <1>1, FS_Subset, FS_CardinalityType

\* A log that is written only moves others away from the cursor.
LEMMA LeftInsert ==
    ASSUME NEW W, NEW S, NEW list, NEW T, T \subseteq DOMAIN Universe, NEW n \in Nat,
           NEW d \in DOMAIN Universe, d \notin S
    PROVE  Left(W \union {d}, S, list, T \union {d}, n) \subseteq Left(W, S, list, T, n)
<1> DEFINE U == T \union {d}
<1>1. U \subseteq DOMAIN Universe /\ S \intersect U = S \intersect T
  OBVIOUS
<1>2. ASSUME NEW i \in Left(W \union {d}, S, list, U, n) PROVE i \in Left(W, S, list, T, n)
  <2>1. i \in Found(S \intersect T) /\ i \notin ToSet(list) /\ Cardinality(Ahead(U, i)) < n
    BY <1>1, <1>2 DEF Left
  <2>2. Apart(W, i)
    BY <1>2 DEF Left, Apart, Found
  <2>3. Ahead(T, i) \subseteq Ahead(U, i)
    BY DEF Ahead, Found
  <2> HIDE DEF U
  <2>4. IsFiniteSet(Ahead(U, i)) /\ Cardinality(Ahead(U, i)) \in Nat /\ Cardinality(Ahead(T, i)) \in Nat
    BY <1>1, AheadFinite
  <2>5. Cardinality(Ahead(T, i)) <= Cardinality(Ahead(U, i))
    BY <2>3, <2>4, FS_Subset
  <2>6. Cardinality(Ahead(T, i)) < n
    BY <2>1, <2>4, <2>5
  <2> QED
    BY <2>1, <2>2, <2>6 DEF Left
<1> QED
  BY <1>2

\* A log that is dropped lets at most one other slip before the cursor, and
\* none when the request does not find it.
LEMMA LeftDrop ==
    ASSUME request \in Requests, NEW W, W \subseteq DOMAIN Universe, NEW S, NEW list,
           NEW T, T \subseteq W, NEW n \in Nat, NEW d \in T, NEW L, L \subseteq DOMAIN Universe, d \notin L,
           Cardinality(Left(W, S, list, T, n)) <= Cardinality(Found(L))
    PROVE  Cardinality(Left(W, S, list, T \ {d}, n)) <= Cardinality(Found(L \union {d}))
<1> DEFINE U == T \ {d}
           A == Left(W, S, list, T, n)
           B == Left(W, S, list, U, n)
           M == L \union {d}
<1>1. T \subseteq DOMAIN Universe /\ U \subseteq DOMAIN Universe /\ M \subseteq DOMAIN Universe
  OBVIOUS
<1>2. IsFiniteSet(A) /\ Cardinality(A) \in Nat /\ IsFiniteSet(B) /\ Cardinality(B) \in Nat
  BY <1>1, LeftFinite
<1>3. IsFiniteSet(Found(L)) /\ Cardinality(Found(L)) \in Nat
  BY FoundFinite
<1>4. ASSUME NEW i \in B
      PROVE  /\ i \in Found(S \intersect T) /\ i \in Found(T) /\ Apart(W, i) /\ i \notin ToSet(list)
             /\ Cardinality(Ahead(U, i)) < n
  BY <1>4 DEF Left, Found
<1>5. CASE d \notin Found(T)
  <2>1. Found(M) = Found(L)
    BY <1>5 DEF Found
  <2>2. ASSUME NEW i \in B PROVE i \in A
    <3>1. Ahead(U, i) = Ahead(T, i)
      BY <1>5 DEF Ahead, Found
    <3> QED
      BY <1>4, <2>2, <3>1 DEF Left
  <2>3. Cardinality(B) <= Cardinality(A)
    <3> HIDE DEF A, B
    <3> QED
      BY <1>2, <2>2, FS_Subset
  <2> HIDE DEF A, B, M
  <2>4. Cardinality(B) <= Cardinality(Found(M))
    <3>1. Cardinality(A) <= Cardinality(Found(L))
      BY DEF A
    <3> QED
      BY <1>2, <1>3, <2>1, <2>3, <3>1
  <2> QED
    BY <2>4 DEF B, U, M
<1>6. CASE d \in Found(T)
  <2>1. Found(M) = Found(L) \union {d} /\ d \notin Found(L)
    BY <1>6 DEF Found
  <2>2. Cardinality(Found(M)) = Cardinality(Found(L)) + 1
    BY <1>3, <2>1, FS_AddElement
  <2>3. ASSUME NEW i \in B, i \notin A PROVE Cardinality(Ahead(T, i)) = n
    <3>1. ~(Cardinality(Ahead(T, i)) < n) /\ Cardinality(Ahead(U, i)) < n
      BY <1>4, <2>3 DEF Left
    <3>2. Ahead(T, i) \subseteq Ahead(U, i) \union {d}
      BY DEF Ahead, Found
    <3> HIDE DEF U
    <3>3. /\ IsFiniteSet(Ahead(U, i)) /\ Cardinality(Ahead(U, i)) \in Nat
          /\ IsFiniteSet(Ahead(T, i)) /\ Cardinality(Ahead(T, i)) \in Nat
      BY <1>1, AheadFinite
    <3>4. /\ IsFiniteSet(Ahead(U, i) \union {d})
          /\ Cardinality(Ahead(U, i) \union {d}) \in Nat
          /\ Cardinality(Ahead(U, i) \union {d}) <= Cardinality(Ahead(U, i)) + 1
      <4>1. Cardinality(Ahead(U, i) \union {d}) = Cardinality(Ahead(U, i))
                \/ Cardinality(Ahead(U, i) \union {d}) = Cardinality(Ahead(U, i)) + 1
        BY <3>3, FS_AddElement
      <4>2. IsFiniteSet(Ahead(U, i) \union {d})
        BY <3>3, FS_AddElement
      <4> QED
        BY <3>3, <4>1, <4>2
    <3>5. Cardinality(Ahead(T, i)) <= Cardinality(Ahead(U, i) \union {d})
      BY <3>2, <3>4, FS_Subset
    <3> QED
      BY <3>1, <3>3, <3>4, <3>5
  <2>4. ASSUME NEW i \in B, NEW j \in B, i \notin A, j \notin A PROVE i = j
    <3>1. i \in Found(T) /\ j \in Found(T) /\ Apart(W, i)
      BY <1>4, <2>4
    <3>2. Cardinality(Ahead(T, i)) = Cardinality(Ahead(T, j))
      BY <2>3, <2>4
    <3> QED
      BY <3>1, <3>2, AheadDiffers
  <2>5. Cardinality(A) <= Cardinality(Found(L))
    OBVIOUS
  <2> HIDE DEF A, B, M
  <2>6. CASE B \subseteq A
    <3>1. Cardinality(B) <= Cardinality(A)
      BY <1>2, <2>6, FS_Subset
    <3>2. Cardinality(B) <= Cardinality(Found(M))
      BY <1>2, <1>3, <2>2, <2>5, <3>1
    <3> QED
      BY <3>2 DEF B, U, M
  <2>7. CASE ~(B \subseteq A)
    <3>1. PICK j \in B : j \notin A
      BY <2>7
    <3>2. B \subseteq A \union {j}
      BY <2>4, <3>1
    <3>3. IsFiniteSet(A \union {j}) /\ Cardinality(A \union {j}) = Cardinality(A) + 1
      BY <1>2, <3>1, FS_AddElement
    <3>4. Cardinality(B) <= Cardinality(A \union {j})
      BY <3>2, <3>3, FS_Subset
    <3>5. Cardinality(B) <= Cardinality(Found(M))
      BY <1>2, <1>3, <2>2, <2>5, <3>3, <3>4
    <3> QED
      BY <3>5 DEF B, U, M
  <2> QED
    BY <2>6, <2>7
<1> QED
  BY <1>5, <1>6

\* With a longer list, and more ties to consider, no more is left.
LEMMA LeftShrinks ==
    ASSUME NEW W, NEW S, NEW list, NEW more, ToSet(list) \subseteq ToSet(more), NEW T, NEW n
    PROVE  Left(W, S, more, T, n) \subseteq Left(W, S, list, T, n)
BY DEF Left

LEMMA ConcatSet ==
    ASSUME NEW S, NEW s \in Seq(S), NEW t \in Seq(S)
    PROVE  ToSet(s \o t) = ToSet(s) \cup ToSet(t)
<1>1. /\ Len(s) \in Nat /\ Len(t) \in Nat /\ Len(s \o t) = Len(s) + Len(t)
      /\ DOMAIN s = 1..Len(s) /\ DOMAIN t = 1..Len(t) /\ DOMAIN (s \o t) = 1..(Len(s) + Len(t))
      /\ \A i \in 1..(Len(s) + Len(t)) : (s \o t)[i] = IF i <= Len(s) THEN s[i] ELSE t[i - Len(s)]
  BY ConcatProperties, LenProperties
<1>2. ASSUME NEW x \in ToSet(s \o t) PROVE x \in ToSet(s) \cup ToSet(t)
  <2>1. PICK i \in 1..(Len(s) + Len(t)) : x = (s \o t)[i]
    BY <1>1, <1>2 DEF ToSet
  <2>2. CASE i <= Len(s)
    BY <1>1, <2>1, <2>2 DEF ToSet
  <2>3. CASE ~(i <= Len(s))
    <3>1. i - Len(s) \in 1..Len(t) /\ x = t[i - Len(s)]
      BY <1>1, <2>1, <2>3
    <3> QED
      BY <1>1, <3>1 DEF ToSet
  <2> QED
    BY <2>2, <2>3
<1>3. ASSUME NEW x \in ToSet(s) PROVE x \in ToSet(s \o t)
  <2>1. PICK i \in 1..Len(s) : x = s[i]
    BY <1>1, <1>3 DEF ToSet
  <2>2. i \in 1..(Len(s) + Len(t)) /\ x = (s \o t)[i]
    BY <1>1, <2>1
  <2> QED
    BY <1>1, <2>2 DEF ToSet
<1>4. ASSUME NEW x \in ToSet(t) PROVE x \in ToSet(s \o t)
  <2>1. PICK i \in 1..Len(t) : x = t[i]
    BY <1>1, <1>4 DEF ToSet
  <2>2. /\ Len(s) + i \in 1..(Len(s) + Len(t)) /\ ~(Len(s) + i <= Len(s)) /\ (Len(s) + i) - Len(s) = i
    BY <1>1, <2>1
  <2>3. x = (s \o t)[Len(s) + i]
    BY <1>1, <2>1, <2>2
  <2> QED
    BY <1>1, <2>2, <2>3 DEF ToSet
<1> QED
  BY <1>2, <1>3, <1>4

\* What a page leaves behind its end was left behind its beginning.
LEMMA PageShows ==
    ASSUME request \in Requests, cursor \in Nat, NEW W, NEW S, NEW T, T \subseteq W, W \subseteq DOMAIN Universe,
           NEW list \in Seq(DOMAIN Universe), NEW o \in Orders(Found(T))
    PROVE  Left(W, S, list \o Window(o), T, cursor + Limit) \subseteq Left(W, S, list, T, cursor)
<1> DEFINE F == Found(T)
           c == cursor
           n == Least(cursor + Limit, Len(o))
<1>1. IsFiniteSet(F) /\ F \subseteq DOMAIN Universe /\ T \subseteq DOMAIN Universe
  BY FoundFinite
<1>2. /\ Cardinality(F) \in Nat /\ Len(o) = Cardinality(F) /\ o \in Seq(F)
      /\ \A x \in F : \E k \in 1..Cardinality(F) : x = o[k]
  BY <1>1, OrderIs
<1>3. Window(o) \in Seq(DOMAIN Universe)
  BY <1>1, WindowIs
<1>4. Limit \in Nat
  BY Bounds
<1>5. ToSet(list \o Window(o)) = ToSet(list) \cup ToSet(Window(o))
  BY <1>3, ConcatSet
<1>6. ASSUME NEW i \in Left(W, S, list \o Window(o), T, cursor + Limit) PROVE i \in Left(W, S, list, T, cursor)
  <2>1. /\ i \in Found(S \intersect T) /\ Apart(W, i) /\ i \notin ToSet(list) /\ i \notin ToSet(Window(o))
        /\ Cardinality(Ahead(T, i)) < cursor + Limit
    BY <1>5, <1>6 DEF Left
  <2>2. i \in F
    BY <2>1 DEF Found
  <2>3. PICK k \in 1..Cardinality(F) : i = o[k]
    BY <1>2, <2>2
  <2>4. \A j \in F : j # o[k] => Before(o[k], j) \/ Before(j, o[k])
    BY <2>1, <2>3 DEF Apart, Found
  <2>5. Cardinality(Ahead(T, i)) = k - 1
    BY <1>1, <2>3, <2>4, PlaceIs DEF Ahead
  <2>6. ASSUME ~(Cardinality(Ahead(T, i)) < cursor) PROVE FALSE
    <3>1. /\ c + 1 \in Int /\ n \in Int /\ c + 1 <= n /\ n <= Len(o)
          /\ k - c \in 1..(n - (c + 1) + 1) /\ (c + 1) + (k - c) - 1 = k
      BY <1>2, <1>4, <2>1, <2>5, <2>6 DEF Least
    <3>2. \A l \in (c + 1)..n : o[l] \in F
      BY <1>2, <3>1
    <3> HIDE DEF c, n
    <3>3. /\ SubSeq(o, c + 1, n) \in Seq(F) /\ Len(SubSeq(o, c + 1, n)) = n - (c + 1) + 1
          /\ SubSeq(o, c + 1, n)[k - c] = o[k]
      BY <3>1, <3>2, SubSeqProperties
    <3>4. i \in ToSet(SubSeq(o, c + 1, n))
      BY <2>3, <3>1, <3>3, LenProperties DEF ToSet
    <3> QED
      BY <2>1, <3>4 DEF Window, c, n
  <2> QED
    BY <2>1, <2>6 DEF Left
<1> QED
  BY <1>6

\* Of what was seen, no more lies after the cursor n, each with a number of
\* logs before it that is its own, than was seen beyond n.
LEMMA FewFar ==
    ASSUME request \in Requests, NEW W, W \subseteq DOMAIN Universe, NEW T, T \subseteq W, NEW n \in Nat,
           NEW R, R \subseteq Found(T),
           \A i \in R : Apart(W, i) /\ ~(Cardinality(Ahead(T, i)) < n)
    PROVE  /\ IsFiniteSet(R) /\ Cardinality(R) \in Nat
           /\ Cardinality(R) <= IF Cardinality(Found(T)) <= n THEN 0 ELSE Cardinality(Found(T)) - n
<1> DEFINE m == Cardinality(Found(T))
           f == [i \in R |-> Cardinality(Ahead(T, i))]
<1>1. T \subseteq DOMAIN Universe /\ IsFiniteSet(Found(T)) /\ m \in Nat
  BY FoundFinite
<1>2. IsFiniteSet(R) /\ Cardinality(R) \in Nat
  BY <1>1, FS_Subset, FS_CardinalityType
<1>3. ASSUME NEW i \in R PROVE Cardinality(Ahead(T, i)) \in n..(m - 1)
  <2>1. i \in Found(T) /\ i \in DOMAIN Universe
    BY <1>1 DEF Found
  <2>2. Ahead(T, i) \subseteq Found(T) \ {i}
    BY <1>1, <2>1, BeforeStrict, FoundFinite DEF Ahead
  <2>3. IsFiniteSet(Found(T) \ {i}) /\ Cardinality(Found(T) \ {i}) = m - 1
    BY <1>1, <2>1, FS_RemoveElement
  <2>4. Cardinality(Ahead(T, i)) <= Cardinality(Found(T) \ {i}) /\ Cardinality(Ahead(T, i)) \in Nat
    BY <1>1, <2>2, <2>3, FS_Subset, AheadFinite
  <2> HIDE DEF m
  <2> QED
    BY <1>1, <2>3, <2>4
<1>4. f \in [R -> n..(m - 1)]
  BY <1>3
<1>5. \A i, j \in R : i # j => f[i] # f[j]
  BY <1>1, AheadDiffers
<1> HIDE DEF f, m
<1>6. f \in Injection(R, n..(m - 1))
  BY <1>4, <1>5 DEF Injection, IsInjective
<1>7. IsFiniteSet(n..(m - 1)) /\ Cardinality(n..(m - 1)) = IF n > m - 1 THEN 0 ELSE (m - 1) - n + 1
  BY <1>1, FS_Interval
<1>8. Cardinality(R) <= Cardinality(n..(m - 1))
  BY <1>6, <1>7, FS_Injection
<1>9. Cardinality(R) <= IF m <= n THEN 0 ELSE m - n
  BY <1>1, <1>2, <1>7, <1>8
<1> QED
  BY <1>2, <1>9 DEF m

\* Of a table without ties that has not changed, the page is what comes next.
LEMMA PageContinues ==
    ASSUME request \in Requests, cursor \in Nat, NEW S, S \subseteq DOMAIN Universe,
           NEW list, Shown(S, list, cursor), NEW o \in Orders(Found(S))
    PROVE  Shown(S, list \o Window(o), cursor + Limit)
<1> DEFINE F == Found(S)
<1>1. IsFiniteSet(F) /\ F \subseteq DOMAIN Universe
  BY FoundFinite
<1>2. Cardinality(F) \in Nat /\ Len(o) = Cardinality(F) /\ o \in Seq(F)
  BY <1>1, OrderIs
<1>3. Limit \in Nat
  BY Bounds
<1>4. ASSUME Untied(F) PROVE list \o Window(o) = SubSeq(o, 1, Least(cursor + Limit, Len(o)))
  <2>1. list = SubSeq(o, 1, Least(cursor, Len(o)))
    BY <1>4 DEF Shown
  <2>2. CASE cursor <= Len(o)
    <3> DEFINE n == Least(cursor + Limit, Len(o))
    <3>1. /\ Least(cursor, Len(o)) = cursor
          /\ 1 \in 1..(Len(o) + 1) /\ cursor \in (1 - 1)..Len(o) /\ n \in cursor..Len(o)
      BY <1>2, <1>3, <2>2 DEF Least
    <3> HIDE DEF n
    <3>2. SubSeq(o, 1, cursor) \o SubSeq(o, cursor + 1, n) = SubSeq(o, 1, n)
      BY <1>2, <3>1, ConcatAdjacentSubSeq
    <3> QED
      BY <2>1, <3>1, <3>2 DEF Window, n
  <2>3. CASE ~(cursor <= Len(o))
    <3>1. /\ Least(cursor, Len(o)) = Len(o) /\ Least(cursor + Limit, Len(o)) = Len(o)
          /\ Len(o) < cursor + 1 /\ cursor + 1 \in Int /\ Len(o) \in Int
      BY <1>2, <1>3, <2>3 DEF Least
    <3>2. SubSeq(o, cursor + 1, Len(o)) = << >>
      BY <3>1, SubSeqEmpty
    <3>3. \A l \in 1..Len(o) : o[l] \in F
      BY <1>2
    <3>4. SubSeq(o, 1, Len(o)) \in Seq(F)
      BY <3>1, <3>3, SubSeqProperties
    <3>5. SubSeq(o, 1, Len(o)) \o << >> = SubSeq(o, 1, Len(o))
      BY <3>4, ConcatEmptySeq
    <3> QED
      BY <2>1, <3>1, <3>2, <3>5 DEF Window
  <2> QED
    BY <2>2, <2>3
<1>5. ASSUME Untied(F), NEW p \in Orders(F) PROVE p = o
  BY <1>1, <1>5, OrderUnique
<1> QED
  BY <1>4, <1>5 DEF Shown

-----------------------------------------------------------------------------

\* The invariant of the walk after a step, by the request as it was before.
LEMMA WalkKept ==
    ASSUME request' = request
    PROVE  /\ Walked' <=>
                /\ Cardinality(Left(table' \union lost', start', returned', table', cursor'))
                       <= Cardinality(Found(lost'))
                /\ pc' \in {"audit", "copy"} =>
                     Cardinality(Left(table' \union lost', start', returned' \o rows', table', cursor' + Limit))
                         <= Cardinality(Found(lost'))
                /\ pc' \in {"audit", "copy"} =>
                     Cardinality(Left(table' \union lost', start', returned' \o rows', seen', cursor' + Limit))
                         <= Cardinality(Found(lost'))
                /\ lost' = {} /\ pc' # "done" /\ start' = table' => Shown(start', returned', cursor')
                /\ pc' \in {"audit", "copy"} /\ lost' = {} /\ start' = seen' =>
                     Shown(start', returned' \o rows', cursor' + Limit)
           /\ NothingSkipped' <=> (
                (pc' = "done" /\ ~request.export) =>
                    /\ Cardinality(Overlooked(table' \union lost', start', seen', returned'))
                           <= Cardinality(Found(lost')) + Cardinality(Found(seen' \ counted'))
                    /\ start' = counted' /\ counted' = seen' /\ lost' = {} /\ Untied(Found(seen')) =>
                           returned' \in Orders(Found(start')))
BY DEF Walked, NothingSkipped, Missed, Lone, Overlooked, Few, Left, Apart, Shown, Untied, Ahead, Found, Where,
       OnColumns, Normalized, Orders, Before, Limit, Least, ToSet

LEMMA MissedIs == Missed = Overlooked(table \union lost, start, seen, returned)
BY DEF Missed, Overlooked, Lone, Apart

\* At the cursor 0 nothing is left behind, and nothing to show.
LEMMA LeftZero ==
    ASSUME NEW W, NEW S, NEW list, NEW T, T \subseteq DOMAIN Universe, NEW L, L \subseteq DOMAIN Universe
    PROVE  Cardinality(Left(W, S, list, T, 0)) <= Cardinality(Found(L))
<1>1. ASSUME NEW i \in Left(W, S, list, T, 0) PROVE FALSE
  <2>1. Cardinality(Ahead(T, i)) < 0
    BY <1>1 DEF Left
  <2>2. Cardinality(Ahead(T, i)) \in Nat
    BY AheadFinite
  <2> QED
    BY <2>1, <2>2
<1>2. Left(W, S, list, T, 0) = {}
  BY <1>1
<1>3. Cardinality(Left(W, S, list, T, 0)) = 0
  BY <1>2, FS_EmptySet
<1>4. Cardinality(Found(L)) \in Nat
  BY FoundFinite
<1> QED
  BY <1>3, <1>4

LEMMA ShownZero ==
    ASSUME NEW S, S \subseteq DOMAIN Universe
    PROVE  Shown(S, << >>, 0)
<1>1. ASSUME NEW o \in Orders(Found(S)) PROVE << >> = SubSeq(o, 1, Least(0, Len(o)))
  <2>1. Len(o) \in Nat
    BY FoundFinite, OrderIs
  <2>2. Least(0, Len(o)) = 0 /\ 0 < 1 /\ 0 \in Int /\ 1 \in Int
    BY <2>1 DEF Least
  <2> QED
    BY <2>2, SubSeqEmpty
<1> QED
  BY <1>1 DEF Shown

\* No more is left when the logs left are among those left before.
LEMMA FewerLeft ==
    ASSUME NEW W, NEW S, NEW list, NEW T, T \subseteq DOMAIN Universe, NEW n, NEW b \in Nat,
           Cardinality(Left(W, S, list, T, n)) <= b, NEW A, A \subseteq Left(W, S, list, T, n)
    PROVE  Cardinality(A) <= b
<1>1. IsFiniteSet(Left(W, S, list, T, n)) /\ Cardinality(Left(W, S, list, T, n)) \in Nat
  BY LeftFinite
<1>2. IsFiniteSet(A) /\ Cardinality(A) <= Cardinality(Left(W, S, list, T, n))
  BY <1>1, FS_Subset
<1> QED
  BY <1>1, <1>2, FS_CardinalityType

LEMMA WalkInit == Init => WInv
<1> SUFFICES ASSUME Init PROVE WInv
  OBVIOUS
<1>1. start = {} /\ lost = {} /\ start \subseteq DOMAIN Universe /\ table \subseteq DOMAIN Universe
  BY DEF Init
<1>2. Few(returned, table, 0) /\ Shown(start, << >>, 0)
  BY <1>1, LeftZero, ShownZero DEF Few
<1> QED
  BY <1>1, <1>2 DEF Init, WInv, Grown, Walked, NothingSkipped

\* The invariants say of the walk as it is.
LEMMA WalkIs ==
    ASSUME IInv, WInv
    PROVE  /\ request \in Requests /\ cursor \in Nat /\ Limit \in Nat
           /\ returned \in Seq(DOMAIN Universe) /\ rows \in Seq(DOMAIN Universe)
           /\ table \subseteq DOMAIN Universe /\ start \subseteq DOMAIN Universe
           /\ counted \subseteq DOMAIN Universe /\ seen \subseteq DOMAIN Universe
           /\ lost \subseteq DOMAIN Universe /\ lost \intersect table = {} /\ lost \subseteq dropped
           /\ Cardinality(Found(lost)) \in Nat
           /\ Cardinality(Left(table \union lost, start, returned, table, cursor)) <= Cardinality(Found(lost))
           /\ pc \in {"audit", "copy"} =>
                /\ Cardinality(Left(table \union lost, start, returned \o rows, table, cursor + Limit))
                       <= Cardinality(Found(lost))
                /\ Cardinality(Left(table \union lost, start, returned \o rows, seen, cursor + Limit))
                       <= Cardinality(Found(lost))
<1>1. /\ request \in Requests /\ cursor \in Nat
      /\ returned \in Seq(DOMAIN Universe) /\ rows \in Seq(DOMAIN Universe)
      /\ table \subseteq DOMAIN Universe /\ start \subseteq DOMAIN Universe
      /\ counted \subseteq DOMAIN Universe /\ seen \subseteq DOMAIN Universe
      /\ lost \subseteq DOMAIN Universe /\ lost \intersect table = {} /\ lost \subseteq dropped
  BY DEF IInv, TypeOK
<1>2. Limit \in Nat /\ Cardinality(Found(lost)) \in Nat
  BY <1>1, Bounds, FoundFinite
<1> QED
  BY <1>1, <1>2 DEF WInv, Walked, Few

\* Steps that neither read, answer nor write.
LEMMA QuietWalks ==
    ASSUME IInv, WInv, Ask \/ Reserve \/ RecordAudit \/ Fail PROVE WInv'
<1>1. /\ request' = request /\ start' = start /\ returned' = returned /\ table' = table /\ cursor' = cursor
      /\ lost' = lost /\ pc # "done" /\ pc' # "done"
      /\ pc' \in {"audit", "copy"} => pc \in {"audit", "copy"} /\ rows' = rows /\ seen' = seen
  BY DEF Ask, Reserve, RecordAudit, Fail, answer, history
<1>2. Walked'
  BY <1>1, WalkKept DEF WInv, Walked, Few
<1>3. NothingSkipped'
  BY <1>1, WalkKept
<1>4. Grown'
  BY <1>1 DEF WInv, Grown
<1> QED
  BY <1>2, <1>3, <1>4 DEF WInv

\* The first count begins the walk at the cursor 0.
LEMMA CountWalks ==
    ASSUME IInv, WInv, Count PROVE WInv'
<1>1. /\ request' = request /\ returned' = returned /\ table' = table /\ cursor' = cursor
      /\ pc' = "page" /\ pc = "count" /\ table \subseteq DOMAIN Universe
  BY DEF Count, IInv, TypeOK
<1>2. CASE returned = << >> /\ cursor = 0
  <2>1. start' = table /\ lost' = {}
    BY <1>2 DEF Count
  <2>2. /\ Cardinality(Left(table \union {}, table, returned, table, 0)) <= Cardinality(Found({}))
        /\ Shown(table, << >>, 0)
    BY <1>1, LeftZero, ShownZero
  <2>3. Walked' /\ NothingSkipped'
    BY <1>1, <1>2, <2>1, <2>2, WalkKept
  <2> QED
    BY <1>1, <2>1, <2>3 DEF WInv, Grown
<1>3. CASE ~(returned = << >> /\ cursor = 0)
  <2>1. start' = start /\ lost' = lost
    BY <1>3 DEF Count
  <2>2. Walked' /\ NothingSkipped'
    BY <1>1, <2>1, WalkKept DEF WInv, Walked, Few
  <2> QED
    BY <1>1, <2>1, <2>2 DEF WInv, Grown
<1> QED
  BY <1>2, <1>3

\* A page continues the walk, in the table as it is read.
LEMMA PageWalks ==
    ASSUME IInv, WInv, Page PROVE WInv'
<1>1. /\ request' = request /\ returned' = returned /\ table' = table /\ cursor' = cursor
      /\ start' = start /\ lost' = lost /\ seen' = table
      /\ pc' = "audit" /\ pc = "page"
  BY DEF Page
<1>2. PICK o \in Orders(Found(table)) : rows' = Window(o)
  BY DEF Page
<1>3. start \subseteq table \union lost
  BY DEF WInv, Grown
<1>4. Cardinality(Left(table \union lost, start, returned \o rows', table, cursor + Limit))
          <= Cardinality(Found(lost))
  <2>1. Left(table \union lost, start, returned \o rows', table, cursor + Limit)
            \subseteq Left(table \union lost, start, returned, table, cursor)
    <3>1. table \subseteq table \union lost /\ table \union lost \subseteq DOMAIN Universe
      BY WalkIs
    <3>2. request \in Requests /\ cursor \in Nat /\ returned \in Seq(DOMAIN Universe)
      BY WalkIs
    <3>3. Left(table \union lost, start, returned \o Window(o), table, cursor + Limit)
              \subseteq Left(table \union lost, start, returned, table, cursor)
      BY <3>1, <3>2, PageShows
    <3> QED
      BY <1>2, <3>3
  <2>2. table \subseteq DOMAIN Universe /\ Cardinality(Found(lost)) \in Nat
    BY WalkIs
  <2>3. Cardinality(Left(table \union lost, start, returned, table, cursor)) <= Cardinality(Found(lost))
    BY WalkIs
  <2> QED
    BY <2>1, <2>2, <2>3, FewerLeft
<1>5. ASSUME lost = {}, start = table PROVE Shown(start, returned \o rows', cursor + Limit)
  <2>1. Shown(table, returned, cursor)
    BY <1>1, <1>5 DEF WInv, Walked
  <2>2. request \in Requests /\ cursor \in Nat /\ table \subseteq DOMAIN Universe
    BY WalkIs
  <2>3. Shown(table, returned \o Window(o), cursor + Limit)
    BY <2>1, <2>2, PageContinues
  <2> QED
    BY <1>2, <1>5, <2>3
<1>6. Walked'
  <2>1. /\ Cardinality(Left(table \union lost, start, returned, table, cursor)) <= Cardinality(Found(lost))
        /\ lost = {} /\ start = table => Shown(start, returned, cursor)
    BY <1>1 DEF WInv, Walked, Few
  <2> QED
    BY <1>1, <1>4, <1>5, <2>1, WalkKept
<1>7. NothingSkipped'
  BY <1>1, WalkKept
<1>8. Grown'
  BY <1>1, <1>3 DEF Grown
<1> QED
  BY <1>6, <1>7, <1>8 DEF WInv

\* What the last page leaves of the logs that it was read from: behind its end
\* no more than were lost, and after it, where the last count saw no log, no
\* more than were written since that count.
LEMMA LastPage ==
    ASSUME IInv, WInv, pc = "copy", NextCursor = {}
    PROVE  Cardinality(Overlooked(table \union lost, start, seen, returned \o rows))
               <= Cardinality(Found(lost)) + Cardinality(Found(seen \ counted))
<1> DEFINE W == table \union lost
           n == cursor + Limit
           L == Left(W, start, returned \o rows, seen, n)
           A == Overlooked(W, start, seen, returned \o rows)
           R == {i \in A : ~(Cardinality(Ahead(seen, i)) < n)}
           s == Cardinality(Found(seen))
           d == Cardinality(Found(seen \ counted))
           b == Cardinality(Found(lost))
           r == Cardinality(R)
           l == Cardinality(L)
<1>1. /\ request \in Requests /\ n \in Nat /\ seen \subseteq DOMAIN Universe /\ counted \subseteq DOMAIN Universe
      /\ W \subseteq DOMAIN Universe /\ b \in Nat /\ l <= b
  BY WalkIs
<1>2. seen \subseteq W
  BY DEF WInv, Grown
<1>3. total = Cardinality(Found(counted)) /\ total \in Nat /\ total <= n
  <2>1. total = Cardinality(Found(counted)) /\ total \in Nat
    BY DEF IInv, TypeOK, Answered
  <2>2. ~(n < total)
    BY DEF NextCursor
  <2> HIDE DEF n
  <2> QED
    BY <1>1, <2>1, <2>2
<1>4. s \in Nat /\ d \in Nat /\ s <= total + d
  <2>1. /\ IsFiniteSet(Found(seen)) /\ s \in Nat /\ IsFiniteSet(Found(counted))
        /\ IsFiniteSet(Found(seen \ counted)) /\ d \in Nat
    BY <1>1, FoundFinite
  <2>2. Found(seen) \subseteq Found(counted) \union Found(seen \ counted)
    BY DEF Found
  <2>3. Found(counted) \intersect Found(seen \ counted) = {}
    BY DEF Found
  <2>4. /\ IsFiniteSet(Found(counted) \union Found(seen \ counted))
        /\ Cardinality(Found(counted) \union Found(seen \ counted)) =
               Cardinality(Found(counted)) + d - Cardinality({})
    BY <2>1, <2>3, FS_Union
  <2>5. Cardinality({}) = 0
    BY FS_EmptySet
  <2>6. s <= Cardinality(Found(counted) \union Found(seen \ counted))
    BY <2>2, <2>4, FS_Subset
  <2> HIDE DEF s, d
  <2> QED
    BY <1>3, <2>1, <2>4, <2>5, <2>6
<1>5. IsFiniteSet(L) /\ l \in Nat
  BY <1>1, LeftFinite
<1>6. /\ IsFiniteSet(R) /\ r \in Nat
      /\ r <= IF s <= n THEN 0 ELSE s - n
  <2>1. R \subseteq Found(seen)
    BY DEF Found, Overlooked
  <2>2. \A i \in R : Apart(W, i) /\ ~(Cardinality(Ahead(seen, i)) < n)
    BY DEF Overlooked
  <2> HIDE DEF W, R, n
  <2> QED
    BY <1>1, <1>2, <2>1, <2>2, FewFar
<1>7. A \subseteq L \union R
  BY DEF Left, Overlooked
<1>8. /\ IsFiniteSet(L \union R) /\ Cardinality(L \union R) <= l + r
  <2>1. /\ IsFiniteSet(L \union R)
        /\ Cardinality(L \union R) = l + r - Cardinality(L \intersect R)
    <3> HIDE DEF L, R
    <3> QED
      BY <1>5, <1>6, FS_Union
  <2>2. Cardinality(L \intersect R) \in Nat
    <3> HIDE DEF L, R
    <3> QED
      BY <1>5, FS_Subset, FS_CardinalityType
  <2> HIDE DEF l, r
  <2> QED
    BY <1>5, <1>6, <2>1, <2>2
<1>9. IsFiniteSet(A) /\ Cardinality(A) <= Cardinality(L \union R) /\ Cardinality(A) \in Nat
                     /\ Cardinality(L \union R) \in Nat
  <2> HIDE DEF A, L, R
  <2> QED
    BY <1>7, <1>8, FS_Subset, FS_CardinalityType
<1>10. Cardinality(A) <= b + d
  <2> HIDE DEF A, L, R, b, d, s, l, r, n
  <2> QED
    BY <1>1, <1>3, <1>4, <1>5, <1>6, <1>8, <1>9
<1> QED
  BY <1>10

\* The last page of a table that stayed the same completes the order.
LEMMA LastOfSame ==
    ASSUME IInv, WInv, pc = "copy", NextCursor = {},
           start = counted, counted = seen, lost = {}, Untied(Found(seen))
    PROVE  returned \o rows \in Orders(Found(start))
<1>1. request \in Requests /\ cursor \in Nat /\ Limit \in Nat /\ seen \subseteq DOMAIN Universe
  BY WalkIs
<1>2. total = Cardinality(Found(seen)) /\ total \in Nat /\ IsFiniteSet(Found(seen))
  BY <1>1, FoundFinite DEF IInv, Answered
<1>3. total <= cursor + Limit
  BY <1>1, <1>2 DEF NextCursor
<1>4. PICK o \in Orders(Found(seen)) : rows = Window(o)
  BY DEF IInv, Answered
<1>5. returned \o rows = SubSeq(o, 1, Least(cursor + Limit, Len(o)))
  BY <1>4 DEF WInv, Walked, Shown
<1>6. Len(o) = total /\ o \in Seq(Found(seen)) /\ DOMAIN o = 1..Len(o)
  BY <1>2, <1>4, OrderIs, LenProperties
<1>7. Least(cursor + Limit, Len(o)) = Len(o)
  BY <1>1, <1>2, <1>3, <1>6 DEF Least
<1>8. SubSeq(o, 1, Len(o)) = o
  BY <1>6, SubSeqFull
<1> QED
  BY <1>4, <1>5, <1>7, <1>8

\* An answer moves the cursor past its page, or ends the walk when nothing
\* counted lies after it.
LEMMA AnswerWalks ==
    ASSUME IInv, WInv, Answer PROVE WInv'
<1>1. /\ request' = request /\ table' = table /\ start' = start /\ lost' = lost
      /\ returned' = returned \o rows /\ pc = "copy" /\ pc' \in {"done", "ask"}
  BY DEF Answer
<1>2. Grown'
  BY <1>1 DEF WInv, Grown
<1>3. CASE request.export \/ NextCursor = {}
  <2>1. pc' = "done" /\ cursor' = cursor /\ counted' = counted /\ seen' = seen
    BY <1>3 DEF Answer
  <2>2. Cardinality(Left(table \union lost, start, returned \o rows, table, cursor)) <= Cardinality(Found(lost))
    <3>1. ToSet(returned) \subseteq ToSet(returned \o rows)
      <4>1. returned \in Seq(DOMAIN Universe) /\ rows \in Seq(DOMAIN Universe)
        BY WalkIs
      <4> QED
        BY <4>1, ConcatSet
    <3>2. Left(table \union lost, start, returned \o rows, table, cursor)
              \subseteq Left(table \union lost, start, returned, table, cursor)
      BY <3>1, LeftShrinks
    <3>3. table \subseteq DOMAIN Universe /\ Cardinality(Found(lost)) \in Nat
      BY WalkIs
    <3>4. Cardinality(Left(table \union lost, start, returned, table, cursor)) <= Cardinality(Found(lost))
      BY WalkIs
    <3> QED
      BY <3>2, <3>3, <3>4, FewerLeft
  <2>3. Walked'
    BY <1>1, <2>1, <2>2, WalkKept
  <2>4. NothingSkipped'
    <3>1. CASE request.export
      BY <1>1, <3>1, WalkKept
    <3>2. CASE NextCursor = {}
      BY <1>1, <2>1, <3>2, LastPage, LastOfSame, WalkKept
    <3> QED
      BY <1>3, <3>1, <3>2
  <2> QED
    BY <1>2, <2>3, <2>4 DEF WInv
<1>4. CASE ~(request.export \/ NextCursor = {})
  <2>1. pc' = "ask" /\ cursor' = cursor + Limit
    BY <1>4 DEF Answer, NextCursor
  <2>2. Cardinality(Left(table \union lost, start, returned \o rows, table, cursor + Limit))
            <= Cardinality(Found(lost))
    BY <1>1, WalkIs
  <2>3. ASSUME lost = {}, start = table PROVE Shown(start, returned \o rows, cursor + Limit)
    BY <1>1, <2>3 DEF WInv, Grown, Walked
  <2>4. Walked'
    BY <1>1, <2>1, <2>2, <2>3, WalkKept
  <2>5. NothingSkipped'
    BY <1>1, <2>1, WalkKept
  <2> QED
    BY <1>2, <2>4, <2>5 DEF WInv
<1> QED
  BY <1>3, <1>4

\* A log that is written comes before others or after them, and may tie with
\* some; none moves towards the cursor.
LEMMA InsertWalks ==
    ASSUME IInv, WInv, Insert PROVE WInv'
<1>1. /\ request' = request /\ pc' = pc /\ cursor' = cursor /\ rows' = rows /\ returned' = returned
      /\ start' = start /\ counted' = counted /\ seen' = seen /\ lost' = lost /\ pc # "done"
  BY DEF Insert, answer, history
<1>2. PICK i \in DOMAIN Universe \ (table \union dropped) : table' = table \union {i}
  BY DEF Insert
<1> DEFINE W == table \union lost
           V == table' \union lost
           b == Cardinality(Found(lost))
<1>3. V = W \union {i} /\ i \notin start /\ start # table' /\ start \subseteq V /\ i \notin W
  BY <1>2, WalkIs DEF WInv, Grown
<1>4. ASSUME NEW list, NEW n \in Nat, Cardinality(Left(W, start, list, table, n)) <= b
      PROVE  Cardinality(Left(V, start, list, table', n)) <= b
  <2>1. table \subseteq DOMAIN Universe /\ b \in Nat
    BY WalkIs
  <2>2. Left(V, start, list, table', n) \subseteq Left(W, start, list, table, n)
    BY <1>2, <1>3, <2>1, LeftInsert
  <2> HIDE DEF W, V, b
  <2> QED
    BY <1>4, <2>1, <2>2, FewerLeft
<1>5. ASSUME pc \in {"audit", "copy"}
      PROVE  Cardinality(Left(V, start, returned \o rows, seen, cursor + Limit)) <= b
  <2>1. seen \subseteq DOMAIN Universe /\ b \in Nat
    BY WalkIs
  <2>2. Left(V, start, returned \o rows, seen, cursor + Limit)
            \subseteq Left(W, start, returned \o rows, seen, cursor + Limit)
    BY <1>3 DEF Left, Apart, Found
  <2>3. Cardinality(Left(W, start, returned \o rows, seen, cursor + Limit)) <= b
    BY <1>5, WalkIs
  <2> HIDE DEF W, V, b
  <2> QED
    BY <2>1, <2>2, <2>3, FewerLeft
<1>6. Walked'
  <2>1. cursor \in Nat /\ cursor + Limit \in Nat
    BY WalkIs
  <2>2. Cardinality(Left(V, start, returned, table', cursor)) <= b
    BY <1>4, <2>1, WalkIs
  <2>3. pc \in {"audit", "copy"} => Cardinality(Left(V, start, returned \o rows, table', cursor + Limit)) <= b
    BY <1>4, <2>1, WalkIs
  <2>4. pc \in {"audit", "copy"} /\ lost = {} /\ start = seen => Shown(start, returned \o rows, cursor + Limit)
    BY DEF WInv, Walked
  <2> QED
    BY <1>1, <1>3, <1>5, <2>2, <2>3, <2>4, WalkKept
<1>7. NothingSkipped'
  BY <1>1, WalkKept
<1>8. Grown'
  BY <1>1, <1>2, <1>3 DEF WInv, Grown
<1> QED
  BY <1>6, <1>7, <1>8 DEF WInv

\* A log that is dropped moves those after it towards the cursor.
LEMMA DropWalks ==
    ASSUME IInv, WInv, Drop PROVE WInv'
<1>1. /\ request' = request /\ pc' = pc /\ cursor' = cursor /\ rows' = rows /\ returned' = returned
      /\ start' = start /\ counted' = counted /\ seen' = seen /\ pc # "done"
  BY DEF Drop, answer
<1>2. PICK d \in table : table' = table \ {d} /\ lost' = lost \union {d}
  BY DEF Drop
<1> DEFINE W == table \union lost
           b == Cardinality(Found(lost))
           c == Cardinality(Found(lost'))
<1>3. table' \union lost' = W /\ lost' # {} /\ d \notin lost
  BY <1>2, WalkIs
<1>4. ASSUME NEW list, NEW n \in Nat, Cardinality(Left(W, start, list, table, n)) <= b
      PROVE  Cardinality(Left(W, start, list, table', n)) <= c
  <2>1. request \in Requests /\ W \subseteq DOMAIN Universe /\ table \subseteq W /\ lost \subseteq DOMAIN Universe
    BY WalkIs
  <2> HIDE DEF W
  <2> QED
    BY <1>2, <1>3, <1>4, <2>1, LeftDrop
<1>5. b \in Nat /\ c \in Nat /\ b <= c
  <2>1. lost \subseteq DOMAIN Universe /\ lost' \subseteq DOMAIN Universe
    BY <1>2, WalkIs
  <2>2. Found(lost) \subseteq Found(lost')
    BY <1>2 DEF Found
  <2> QED
    BY <2>1, <2>2, FoundFinite, FS_Subset
<1>6. Walked'
  <2>1. cursor \in Nat /\ cursor + Limit \in Nat
    BY WalkIs
  <2>2. Cardinality(Left(W, start, returned, table', cursor)) <= c
    BY <1>4, <2>1, WalkIs
  <2>3. pc \in {"audit", "copy"} => Cardinality(Left(W, start, returned \o rows, table', cursor + Limit)) <= c
    BY <1>4, <2>1, WalkIs
  <2>4. pc \in {"audit", "copy"} => Cardinality(Left(W, start, returned \o rows, seen, cursor + Limit)) <= c
    <3> DEFINE l == Cardinality(Left(W, start, returned \o rows, seen, cursor + Limit))
    <3>1. l \in Nat /\ (pc \in {"audit", "copy"} => l <= b)
      BY WalkIs, LeftFinite
    <3> HIDE DEF l, b, c
    <3>2. pc \in {"audit", "copy"} => l <= c
      BY <1>5, <3>1
    <3> QED
      BY <3>2 DEF l
  <2> QED
    BY <1>1, <1>3, <2>2, <2>3, <2>4, WalkKept
<1>7. NothingSkipped'
  BY <1>1, WalkKept
<1>8. Grown'
  BY <1>1, <1>2, <1>3 DEF WInv, Grown
<1> QED
  BY <1>6, <1>7, <1>8 DEF WInv

LEMMA WalkNext == IInv /\ WInv /\ [Next]_vars => WInv'
<1> SUFFICES ASSUME IInv, WInv, [Next]_vars PROVE WInv'
  OBVIOUS
<1>1. CASE UNCHANGED vars
  <2>1. /\ request' = request /\ pc' = pc /\ cursor' = cursor /\ rows' = rows /\ returned' = returned
        /\ table' = table /\ start' = start /\ counted' = counted /\ seen' = seen /\ lost' = lost
    BY <1>1 DEF vars, answer, history
  <2>2. Walked'
    BY <2>1, WalkKept DEF WInv, Walked, Few
  <2>3. NothingSkipped'
    BY <2>1, WalkKept, MissedIs DEF WInv, NothingSkipped
  <2> QED
    BY <2>1, <2>2, <2>3 DEF WInv, Grown
<1> QED
  BY <1>1, QuietWalks, CountWalks, PageWalks, AnswerWalks, InsertWalks, DropWalks DEF Next

LEMMA WalkInvariance == Spec => []WInv
BY InvInit, InvNext, WalkInit, WalkNext, PTL DEF Spec

-----------------------------------------------------------------------------

\* Every page is of bounded length, the agent's reads stay within their limit,
\* each audit event of a search was charged to them first, and nothing was
\* answered before an event of it was in both audit logs.
THEOREM TypeCorrect == Spec => []TypeOK
<1>1. IInv => TypeOK
  BY DEF IInv
<1> QED
  BY <1>1, Invariance, PTL

\* For every table, request and set of grants the count and the page are those
\* that InMemoryStore would give, but for the logs that the named conversions
\* blur and the order within a second; blurred or not, a key with granted
\* sources is neither shown nor told the number of any other source's logs.
THEOREM AnswersAlike == Spec => []SameAsMemory
<1>1. IInv => SameAsMemory
  <2> SUFFICES ASSUME IInv, pc \in {"audit", "copy"}
               PROVE  /\ \E S \in Alike(counted) : total = Cardinality(S)
                      /\ \E S \in Alike(seen) : \E o \in AlikeOrders(S) : rows = Window(o)
    BY DEF SameAsMemory
  <2>1. /\ request \in Requests /\ Valid
        /\ counted \subseteq DOMAIN Universe /\ seen \subseteq DOMAIN Universe
    BY DEF IInv, TypeOK, Asked
  <2>2. Found(counted) \in Alike(counted) /\ Found(seen) \in Alike(seen)
    BY <2>1, FoundIsAlike
  <2>3. total = Cardinality(Found(counted))
    BY DEF IInv, Answered
  <2>4. PICK o \in Orders(Found(seen)) : rows = Window(o)
    BY DEF IInv, Answered
  <2>5. o \in AlikeOrders(Found(seen))
    BY <2>1, FoundFinite, OrderByKey
  <2> QED
    BY <2>2, <2>3, <2>4, <2>5
<1> QED
  BY <1>1, Invariance, PTL

\* A walk of any number of pages, by any request, while any number of logs are
\* written and dropped: when it ends, the logs that it missed of those that were
\* there from its first count to its last page, apart from logs that tie with
\* others, are no more than were dropped meanwhile and written between its last
\* count and the page after it.  The inductive invariant counts the logs left
\* behind the cursor: a write moves none towards it, a drop at most one past it,
\* since no two of them have the same number of logs before them.
THEOREM WalkSkipsNothing == Spec => []NothingSkipped
<1>1. WInv => NothingSkipped
  BY DEF WInv
<1> QED
  BY <1>1, WalkInvariance, PTL
====
