---- MODULE Collector_proof ----
(***************************************************************************)
(* Proofs about the log collector: what is on its way is in order, nothing *)
(* is lost while the process lives but what its sender died with, the API  *)
(* handles the records of a container in order, and a record is stored     *)
(* again only for a post that failed.                                      *)
(***************************************************************************)
EXTENDS Collector, FiniteSetTheorems, SequenceTheorems, TLAPS

----------------------------------------------------------------------------
(* The inductive invariant *)

\* The order of a container's records in a sequence, and across two.
Ordered(s) == \A i, j \in DOMAIN s : i < j /\ s[i][1] = s[j][1] => s[i][2] < s[j][2]
Ahead(s, t) == \A r \in ToSet(s), u \in ToSet(t) : r[1] = u[1] => r[2] < u[2]

\* What is on its way was parsed, in order; the batch came off the queue first.
InOrder ==
    /\ Ordered(logs) /\ Ordered(batch) /\ Ordered(pending) /\ Ahead(batch, logs)
    /\ ToSet(logs) \union ToSet(batch) \subseteq parsed
    /\ ToSet(pending) \subseteq ToSet(batch)

\* A record that its follower has not yet put on the queue.
Unqueued(r) ==
    \/ position[r[1]] < r[2]
    \/ position[r[1]] = r[2] /\ follower[r[1]] = "putting"

\* A follower puts what it parsed, and parsed what it has read; what is on its
\* way was put on the queue, and nothing that was not was ever posted.
Followed ==
    /\ \A c \in Containers : follower[c] = "putting" => <<c, position[c]>> \in parsed
    /\ \A r \in parsed : ~(position[r[1]] < r[2])
    /\ \A r \in ToSet(logs) \union ToSet(batch) : ~Unqueued(r)
    /\ \A r \in Records : Unqueued(r) \/ r \in ToSet(logs) => copies[r] = 0

\* During an attempt, a record of the batch that is no longer pending is
\* settled; one that the attempt has not handled was stored in failed ones only.
Attempted ==
    /\ sender \in {"send", "single"} =>
           pending # << >> /\ \A r \in ToSet(batch) : r \in ToSet(pending) \/ Settled(r)
    /\ sender = "backoff" => batch # << >>
    /\ \A r \in ToSet(batch) :
           (sender \in {"send", "single"} => r \in ToSet(pending)) => copies[r] <= failures

\* An ended process holds nothing.
Emptied == main = "exited" =>
    /\ sender = "done" /\ logs = << >> /\ batch = << >> /\ pending = << >>
    /\ parsed = {} /\ lost = {}
    /\ \A c \in Containers : follower[c] = "gone"

IInv ==
    /\ TypeOK /\ InOrder /\ Followed /\ Attempted /\ Emptied
    /\ NoSilentLoss /\ OnlyInvalidDropped /\ StoredInOrder /\ DuplicatesAreRetries

----------------------------------------------------------------------------
(* Subsequences *)

\* Indices have different ranks, from one to their number.
LEMMA RankOrders ==
    ASSUME NEW I \in SUBSET Nat, IsFiniteSet(I)
    PROVE  /\ Cardinality(I) \in Nat
           /\ \A i \in I : Rank(I, i) \in 1..Cardinality(I)
           /\ \A i, j \in I : i < j => Rank(I, i) < Rank(I, j)
<1> DEFINE Upto(i) == {k \in I : k <= i}
<1>1. Cardinality(I) \in Nat
  BY FS_CardinalityType
<1>2. ASSUME NEW i \in I
      PROVE  IsFiniteSet(Upto(i)) /\ Rank(I, i) = Cardinality(Upto(i)) /\ Rank(I, i) \in 1..Cardinality(I)
  <2>1. Upto(i) \in SUBSET I /\ i \in Upto(i) /\ Rank(I, i) = Cardinality(Upto(i))
    BY DEF Rank
  <2> HIDE DEF Upto
  <2>2. IsFiniteSet(Upto(i)) /\ Cardinality(Upto(i)) <= Cardinality(I)
        /\ Cardinality(Upto(i)) \in Nat /\ Cardinality(Upto(i)) # 0
    BY <2>1, FS_Subset, FS_CardinalityType, FS_EmptySet
  <2> QED
    BY <1>1, <2>1, <2>2
<1>3. ASSUME NEW i \in I, NEW j \in I, i < j PROVE Rank(I, i) < Rank(I, j)
  <2>1. Upto(i) \in SUBSET Upto(j) /\ j \in Upto(j) /\ j \notin Upto(i)
    <3>1. i \in Nat /\ j \in Nat /\ \A k \in I : k \in Nat
      OBVIOUS
    <3>2. \A k \in I : k <= i => k <= j
      BY <1>3, <3>1
    <3>3. j <= j /\ ~(j <= i)
      BY <1>3, <3>1
    <3> QED
      BY <3>2, <3>3
  <2>2. /\ IsFiniteSet(Upto(j)) /\ Rank(I, i) = Cardinality(Upto(i)) /\ Rank(I, j) = Cardinality(Upto(j))
        /\ Rank(I, i) \in Int /\ Rank(I, j) \in Int
    BY <1>1, <1>2
  <2> HIDE DEF Upto
  <2>3. Rank(I, i) <= Rank(I, j) /\ Rank(I, i) # Rank(I, j)
    BY <2>1, <2>2, FS_Subset
  <2> QED
    BY <2>2, <2>3
<1> QED
  BY <1>1, <1>2, <1>3

\* Place is the inverse of Rank.
LEMMA PlaceInverts ==
    ASSUME NEW I \in SUBSET Nat, IsFiniteSet(I)
    PROVE  /\ \A n \in 1..Cardinality(I) : Place(I, n) \in I /\ Rank(I, Place(I, n)) = n
           /\ \A i \in I : Place(I, Rank(I, i)) = i
           /\ \A m, n \in 1..Cardinality(I) : m < n => Place(I, m) < Place(I, n)
<1> DEFINE N == 1..Cardinality(I)
           rank == [i \in I |-> Rank(I, i)]
<1>1. N \subseteq Nat /\ \A i \in I : Rank(I, i) \in N /\ Rank(I, i) \in Nat
  <2>1. Cardinality(I) \in Nat /\ \A i \in I : Rank(I, i) \in 1..Cardinality(I)
    BY RankOrders
  <2> QED
    BY <2>1
<1>2. ASSUME NEW i \in I, NEW j \in I, Rank(I, i) = Rank(I, j) PROVE i = j
  <2>1. i \in Nat /\ j \in Nat
    OBVIOUS
  <2>2. i < j \/ j < i \/ i = j
    BY <2>1
  <2>3. \A x, y \in I : x < y => Rank(I, x) < Rank(I, y)
    BY RankOrders
  <2>4. ~(Rank(I, i) < Rank(I, i))
    BY <1>1
  <2> QED
    BY <1>2, <2>2, <2>3, <2>4
<1>3. \A n \in N : \E i \in I : Rank(I, i) = n
  <2>1. rank \in [I -> N] /\ \A i \in I : rank[i] = Rank(I, i)
    BY <1>1
  <2>2. IsFiniteSet(N) /\ Cardinality(N) = Cardinality(I)
    <3>1. Cardinality(I) \in Nat
      BY RankOrders
    <3> QED
      BY <3>1, FS_Interval
  <2> HIDE DEF rank, N
  <2>3. rank \in Injection(I, N)
    BY <1>2, <2>1 DEF Injection, IsInjective
  <2>4. rank \in Surjection(I, N)
    BY <2>2, <2>3, FS_Injection
  <2> QED
    BY <2>1, <2>4 DEF Surjection
<1>4. \A n \in N : Place(I, n) \in I /\ Rank(I, Place(I, n)) = n
  BY <1>3 DEF Place
<1>5. \A i \in I : Place(I, Rank(I, i)) = i
  BY <1>1, <1>2, <1>4
<1>6. ASSUME NEW m \in N, NEW n \in N, m < n PROVE Place(I, m) < Place(I, n)
  <2>1. Place(I, m) \in Nat /\ Place(I, n) \in Nat /\ m \in Nat /\ n \in Nat
    BY <1>1, <1>4
  <2>2. CASE Place(I, n) <= Place(I, m)
    <3>1. Place(I, n) < Place(I, m) \/ Place(I, n) = Place(I, m)
      BY <2>1, <2>2
    <3>2. n < m \/ n = m
      BY <1>4, <3>1, RankOrders
    <3> QED
      BY <1>6, <2>1, <3>2
  <2> QED
    BY <2>1, <2>2
<1> QED
  BY <1>4, <1>5, <1>6

\* What is picked is in order, and is all that was to be picked.
LEMMA PickedIs ==
    ASSUME NEW T, NEW s \in Seq(T), NEW I \in SUBSET DOMAIN s
    PROVE  /\ Picked(s, I) \in Seq(T)
           /\ DOMAIN Picked(s, I) = 1..Cardinality(I) /\ Cardinality(I) \in Nat
           /\ \A n \in DOMAIN Picked(s, I) : Place(I, n) \in I /\ Picked(s, I)[n] = s[Place(I, n)]
           /\ \A m, n \in DOMAIN Picked(s, I) : m < n => Place(I, m) < Place(I, n)
           /\ \A i \in I : \E n \in DOMAIN Picked(s, I) : Picked(s, I)[n] = s[i]
<1>1. DOMAIN s = 1..Len(s) /\ Len(s) \in Nat /\ s \in [1..Len(s) -> T]
  BY LenProperties
<1>2. I \subseteq Nat /\ IsFiniteSet(I)
  <2>1. IsFiniteSet(1..Len(s)) /\ I \in SUBSET (1..Len(s))
    BY <1>1, FS_Interval
  <2> QED
    BY <1>1, <2>1, FS_Subset
<1>3. Cardinality(I) \in Nat /\ \A i \in I : Rank(I, i) \in 1..Cardinality(I)
  BY <1>2, RankOrders
<1>4. /\ \A n \in 1..Cardinality(I) : Place(I, n) \in I
      /\ \A m, n \in 1..Cardinality(I) : m < n => Place(I, m) < Place(I, n)
      /\ \A i \in I : Place(I, Rank(I, i)) = i
  BY <1>2, PlaceInverts
<1>5. Picked(s, I) \in [1..Cardinality(I) -> T]
  BY <1>1, <1>4 DEF Picked
<1>6. Picked(s, I) \in Seq(T)
  BY <1>3, <1>5
<1> QED
  BY <1>3, <1>4, <1>6 DEF Picked
----------------------------------------------------------------------------
(* Records and sequences of them *)

\* A record is a line of a container.
LEMMA RecordIs ==
    /\ \A r \in Records : /\ r[1] \in Containers /\ r[2] \in 1..Len(Lines[r[1]])
                          /\ r[2] \in Nat \ {0} /\ r = <<r[1], r[2]>> /\ Kind(r) \in Kinds
    /\ \A c \in Containers : Len(Lines[c]) \in Nat
    /\ \A c \in Containers, i \in Nat \ {0} : i <= Len(Lines[c]) => <<c, i>> \in Records
<1>1. \A c \in Containers : DOMAIN Lines[c] = 1..Len(Lines[c]) /\ Len(Lines[c]) \in Nat
  BY CollectorAssumption, LenProperties
<1>2. ASSUME NEW r \in Records
      PROVE  /\ r[1] \in Containers /\ r[2] \in 1..Len(Lines[r[1]])
             /\ r[2] \in Nat \ {0} /\ r = <<r[1], r[2]>> /\ Kind(r) \in Kinds
  <2>1. PICK c \in Containers : r \in {c} \X DOMAIN Lines[c]
    BY DEF Records
  <2>2. r[1] = c /\ r[2] \in 1..Len(Lines[c]) /\ r = <<r[1], r[2]>>
    BY <1>1, <2>1
  <2>3. Lines[c] \in Seq(Kinds)
    BY CollectorAssumption
  <2>4. Lines[c][r[2]] \in Kinds
    BY <2>2, <2>3, ElementOfSeq
  <2> QED
    BY <1>1, <2>2, <2>4 DEF Kind
<1>3. ASSUME NEW c \in Containers, NEW i \in Nat \ {0}, i <= Len(Lines[c])
      PROVE  <<c, i>> \in Records
  BY <1>1, <1>3 DEF Records
<1> QED
  BY <1>1, <1>2, <1>3

LEMMA ContainsIs ==
    ASSUME NEW T, NEW s \in Seq(T), NEW e
    PROVE  Contains(s, e) <=> e \in ToSet(s)
BY DEF Contains, ToSet

LEMMA EmptyIs ==
    /\ << >> \in Seq(Records) /\ Len(<< >>) = 0 /\ ToSet(<< >>) = {}
    /\ Ordered(<< >>) /\ \A s : Ahead(<< >>, s) /\ Ahead(s, << >>)
BY DEF ToSet, Ordered, Ahead

LEMMA AppendIs ==
    ASSUME NEW T, NEW s \in Seq(T), NEW e \in T
    PROVE  /\ Append(s, e) \in Seq(T) /\ Len(Append(s, e)) = Len(s) + 1
           /\ Append(s, e) # << >>
           /\ ToSet(Append(s, e)) = ToSet(s) \union {e}
           /\ \A i \in DOMAIN Append(s, e) :
                \/ i \in DOMAIN s /\ i <= Len(s) /\ Append(s, e)[i] = s[i]
                \/ i = Len(s) + 1 /\ Append(s, e)[i] = e
<1>1. /\ Append(s, e) \in Seq(T) /\ Len(Append(s, e)) = Len(s) + 1 /\ Len(s) \in Nat
      /\ \A i \in 1..Len(s) : Append(s, e)[i] = s[i]
      /\ Append(s, e)[Len(s) + 1] = e
  BY AppendProperties, LenProperties
<1>2. DOMAIN Append(s, e) = 1..(Len(s) + 1) /\ DOMAIN s = 1..Len(s)
  BY <1>1
<1>3. Append(s, e) # << >>
  BY <1>1
<1>4. ToSet(Append(s, e)) = ToSet(s) \union {e}
  BY <1>1, <1>2 DEF ToSet
<1> QED
  BY <1>1, <1>2, <1>3, <1>4

LEMMA OrderedAppend ==
    ASSUME NEW s \in Seq(Records), NEW e \in Records, Ordered(s),
           \A u \in ToSet(s) : u[1] = e[1] => u[2] < e[2]
    PROVE  Ordered(Append(s, e))
<1> DEFINE t == Append(s, e)
<1> SUFFICES ASSUME NEW i \in DOMAIN t, NEW j \in DOMAIN t, i < j, t[i][1] = t[j][1]
             PROVE  t[i][2] < t[j][2]
  BY DEF Ordered
<1>1. i \in Nat /\ j \in Nat /\ j <= Len(s) + 1 /\ Len(s) \in Nat
  BY AppendProperties, LenProperties
<1>2. i \in DOMAIN s /\ t[i] = s[i] /\ s[i] \in ToSet(s)
  <2>1. i <= Len(s)
    BY <1>1
  <2> QED
    BY <1>1, <2>1, AppendIs DEF ToSet
<1>3. (j \in DOMAIN s /\ t[j] = s[j]) \/ t[j] = e
  BY AppendIs
<1> QED
  BY <1>2, <1>3 DEF Ordered

LEMMA TailIs ==
    ASSUME NEW s \in Seq(Records), s # << >>, Ordered(s)
    PROVE  /\ Head(s) \in Records /\ Head(s) \in ToSet(s) /\ Tail(s) \in Seq(Records)
           /\ Len(Tail(s)) = Len(s) - 1 /\ Len(s) \in Nat
           /\ ToSet(s) = {Head(s)} \union ToSet(Tail(s))
           /\ Ordered(Tail(s))
           /\ \A u \in ToSet(Tail(s)) : u[1] = Head(s)[1] => Head(s)[2] < u[2]
<1> DEFINE t == Tail(s)
<1>1. /\ Head(s) \in Records /\ Head(s) = s[1] /\ t \in Seq(Records) /\ Len(t) = Len(s) - 1
      /\ Len(s) \in Nat \ {0} /\ \A i \in 1..(Len(s) - 1) : t[i] = s[i + 1]
  BY HeadTailProperties, EmptySeq, LenProperties
<1>2. DOMAIN s = 1..Len(s) /\ DOMAIN t = 1..(Len(s) - 1)
  BY <1>1, LenProperties
<1> HIDE DEF t
<1>3. ToSet(s) = {Head(s)} \union ToSet(t)
  <2>1. ASSUME NEW i \in DOMAIN s PROVE s[i] = Head(s) \/ \E j \in DOMAIN t : t[j] = s[i]
    <3>1. i = 1 \/ (i - 1 \in 1..(Len(s) - 1) /\ (i - 1) + 1 = i)
      BY <1>1, <1>2
    <3> QED
      BY <1>1, <1>2, <3>1
  <2>2. ASSUME NEW j \in DOMAIN t PROVE \E i \in DOMAIN s : t[j] = s[i]
    BY <1>1, <1>2
  <2>3. 1 \in DOMAIN s
    BY <1>1, <1>2
  <2>4. ASSUME NEW r \in ToSet(s) PROVE r = Head(s) \/ r \in ToSet(t)
    <3>1. PICK i \in DOMAIN s : r = s[i]
      BY DEF ToSet
    <3> QED
      BY <2>1, <3>1 DEF ToSet
  <2>5. ASSUME NEW r \in ToSet(t) PROVE r \in ToSet(s)
    <3>1. PICK j \in DOMAIN t : r = t[j]
      BY DEF ToSet
    <3> QED
      BY <2>2, <3>1 DEF ToSet
  <2>6. Head(s) \in ToSet(s)
    BY <1>1, <2>3 DEF ToSet
  <2> QED
    BY <2>4, <2>5, <2>6
<1>4. Ordered(t)
  <2> SUFFICES ASSUME NEW i \in DOMAIN t, NEW j \in DOMAIN t, i < j, t[i][1] = t[j][1]
               PROVE  t[i][2] < t[j][2]
    BY DEF Ordered
  <2>1. i + 1 \in DOMAIN s /\ j + 1 \in DOMAIN s /\ i + 1 < j + 1 /\ t[i] = s[i + 1] /\ t[j] = s[j + 1]
    BY <1>1, <1>2
  <2> QED
    BY <2>1 DEF Ordered
<1>5. ASSUME NEW u \in ToSet(t), u[1] = Head(s)[1] PROVE Head(s)[2] < u[2]
  <2>1. PICK j \in DOMAIN t : u = t[j]
    BY DEF ToSet
  <2>2. 1 \in DOMAIN s /\ j + 1 \in DOMAIN s /\ 1 < j + 1 /\ u = s[j + 1]
    BY <1>1, <1>2, <2>1
  <2> QED
    BY <1>1, <1>5, <2>2 DEF Ordered
<1>6. Head(s) \in ToSet(s)
  BY <1>3
<1> QED
  BY <1>1, <1>3, <1>4, <1>5, <1>6 DEF t

LEMMA WithoutIs ==
    ASSUME NEW s \in Seq(Records), Ordered(s), NEW indices \in SUBSET DOMAIN s
    PROVE  /\ Without(s, indices) \in Seq(Records) /\ Ordered(Without(s, indices))
           /\ ToSet(Without(s, indices)) \subseteq ToSet(s)
           /\ \A r \in ToSet(s) : r \in ToSet(Without(s, indices)) \/ \E i \in indices : r = s[i]
<1> DEFINE I == DOMAIN s \ indices
           t == Without(s, indices)
<1>1. I \in SUBSET DOMAIN s /\ t = Picked(s, I)
  BY DEF Without
<1> HIDE DEF I, t
<1>2. /\ t \in Seq(Records)
      /\ \A n \in DOMAIN t : Place(I, n) \in I /\ t[n] = s[Place(I, n)]
      /\ \A m, n \in DOMAIN t : m < n => Place(I, m) < Place(I, n)
      /\ \A i \in I : \E n \in DOMAIN t : t[n] = s[i]
  BY <1>1, PickedIs
<1>3. Ordered(t)
  <2> SUFFICES ASSUME NEW m \in DOMAIN t, NEW n \in DOMAIN t, m < n, t[m][1] = t[n][1]
               PROVE  t[m][2] < t[n][2]
    BY DEF Ordered
  <2>1. /\ Place(I, m) \in DOMAIN s /\ Place(I, n) \in DOMAIN s /\ Place(I, m) < Place(I, n)
        /\ t[m] = s[Place(I, m)] /\ t[n] = s[Place(I, n)]
    BY <1>1, <1>2
  <2> QED
    BY <2>1 DEF Ordered
<1>4. ToSet(t) \subseteq ToSet(s)
  BY <1>1, <1>2 DEF ToSet
<1>5. \A r \in ToSet(s) : r \in ToSet(t) \/ \E i \in indices : r = s[i]
  BY <1>2 DEF ToSet, I
<1> QED
  BY <1>2, <1>3, <1>4, <1>5 DEF t

\* A prefix of an ordered sequence holds, with a record, the earlier ones.
LEMMA PrefixIs ==
    ASSUME NEW s \in Seq(Records), Ordered(s), NEW n \in 0..Len(s)
    PROVE  /\ SubSeq(s, 1, n) \in Seq(Records)
           /\ ToSet(SubSeq(s, 1, n)) \subseteq ToSet(s)
           /\ \A r \in ToSet(SubSeq(s, 1, n)), u \in ToSet(s) :
                u[1] = r[1] /\ u[2] <= r[2] => u \in ToSet(SubSeq(s, 1, n))
<1> DEFINE t == SubSeq(s, 1, n)
<1>1. Len(s) \in Nat /\ DOMAIN s = 1..Len(s) /\ n \in Nat /\ n <= Len(s)
  BY LenProperties
<1>2. t \in Seq(Records) /\ DOMAIN t = 1..n /\ \A i \in 1..n : t[i] = s[i]
  BY <1>1
<1> HIDE DEF t
<1>3. ToSet(t) \subseteq ToSet(s)
  BY <1>1, <1>2 DEF ToSet
<1>4. ASSUME NEW r \in ToSet(t), NEW u \in ToSet(s), u[1] = r[1], u[2] <= r[2]
      PROVE  u \in ToSet(t)
  <2>1. PICK i \in 1..n : r = s[i]
    BY <1>2 DEF ToSet
  <2>2. PICK j \in 1..Len(s) : u = s[j]
    BY <1>1 DEF ToSet
  <2>3. u[2] \in Nat /\ r[2] \in Nat /\ i \in DOMAIN s /\ j \in DOMAIN s
    <3>1. i \in DOMAIN s /\ j \in DOMAIN s /\ u \in Records /\ r \in Records
      BY <1>1, <2>1, <2>2
    <3> QED
      BY <3>1, RecordIs
  <2>4. ~(i < j)
    BY <1>4, <2>1, <2>2, <2>3 DEF Ordered
  <2>5. j \in 1..n
    BY <1>1, <2>4
  <2> QED
    BY <1>2, <2>2, <2>5 DEF ToSet
<1> QED
  BY <1>2, <1>3, <1>4 DEF t

----------------------------------------------------------------------------
(* What a post changes *)

\* What is on its way was parsed and put on the queue.
LEMMA OnItsWay ==
    ASSUME IInv
    PROVE  /\ ToSet(pending) \subseteq ToSet(batch) /\ ToSet(batch) \subseteq parsed
           /\ ToSet(logs) \subseteq parsed /\ parsed \subseteq Records
           /\ ToSet(batch) \intersect ToSet(logs) = {}
           /\ \A r \in ToSet(logs) \union ToSet(batch) : ~Unqueued(r)
<1>1. /\ ToSet(pending) \subseteq ToSet(batch) /\ ToSet(batch) \subseteq parsed
      /\ ToSet(logs) \subseteq parsed /\ parsed \subseteq Records
      /\ \A r \in ToSet(logs) \union ToSet(batch) : ~Unqueued(r)
  BY DEF IInv, InOrder, Followed, TypeOK
<1>2. ASSUME NEW r \in ToSet(batch), r \in ToSet(logs) PROVE FALSE
  <2>1. r[2] < r[2]
    BY <1>2 DEF IInv, InOrder, Ahead
  <2>2. r[2] \in Nat
    BY <1>1, RecordIs
  <2> QED
    BY <2>1, <2>2
<1> QED
  BY <1>1, <1>2

\* Where a record that a follower parsed is.
Somewhere(r) ==
    BeingPut(r) \/ r \in ToSet(logs) \/ r \in ToSet(batch) \/ Settled(r) \/ r \in lost

LEMMA SomewhereIs ==
    ASSUME TypeOK
    PROVE  NoSilentLoss <=> /\ \A r \in parsed : Somewhere(r)
                            /\ lost # {} => sender = "dead"
<1>1. logs \in Seq(Records) /\ batch \in Seq(Records)
  BY DEF TypeOK
<1>2. \A r : (Contains(logs, r) <=> r \in ToSet(logs)) /\ (Contains(batch, r) <=> r \in ToSet(batch))
  BY <1>1, ContainsIs
<1> QED
  BY <1>2 DEF NoSilentLoss, Somewhere

\* To keep NoSilentLoss is to keep every record somewhere.
LEMMA KeepsSomewhere ==
    ASSUME TypeOK', \A r \in parsed' : Somewhere(r)', lost' # {} => sender' = "dead"
    PROVE  NoSilentLoss'
<1>1. logs' \in Seq(Records) /\ batch' \in Seq(Records)
  BY DEF TypeOK
<1>2. \A r : (Contains(logs', r) <=> r \in ToSet(logs')) /\ (Contains(batch', r) <=> r \in ToSet(batch'))
  BY <1>1, ContainsIs
<1> QED
  BY <1>2 DEF NoSilentLoss, Somewhere

\* The API handled s, which has, with a record, all earlier ones that pend.
Handles(s) ==
    /\ sender \in {"send", "single"}
    /\ s \in Seq(Records)
    /\ ToSet(s) \subseteq ToSet(pending)
    /\ \A r \in ToSet(s), u \in ToSet(pending) : u[1] = r[1] /\ u[2] <= r[2] => u \in ToSet(s)
    /\ Handled(s)

LEMMA HandledIs ==
    ASSUME IInv, NEW s, Handles(s)
    PROVE  /\ copies' \in [Records -> Nat] /\ refused' \subseteq Records /\ refused \subseteq refused'
           /\ \A r \in Records : /\ copies[r] <= copies'[r] /\ copies'[r] <= copies[r] + 1
                                 /\ r \notin ToSet(s) => copies'[r] = copies[r]
           /\ \A r \in ToSet(s) : copies'[r] > 0 \/ r \in refused'
<1>1. copies \in [Records -> Nat] /\ refused \subseteq Records /\ ToSet(s) \subseteq Records
  BY OnItsWay DEF IInv, TypeOK, Handles
<1>2. PICK stored \in SUBSET ToSet(s) :
         /\ copies' = [r \in Records |-> copies[r] + IF r \in stored THEN 1 ELSE 0]
         /\ refused' = refused \union (ToSet(s) \ stored)
  BY DEF Handles, Handled
<1> QED
  BY <1>1, <1>2

\* A post keeps what is said of the API's state.
LEMMA HandledKeeps ==
    ASSUME IInv, NEW s, Handles(s)
    PROVE  /\ \A r \in Records : copies'[r] <= 1 + failures
           /\ \A r \in Records : Unqueued(r) \/ r \in ToSet(logs) => copies'[r] = 0
           /\ \A r \in parsed : copies'[r] > 0 =>
                \A i \in 1..r[2] : LET u == <<r[1], i>> IN
                    u \in parsed => copies'[u] > 0 \/ u \in refused' \/ u \in dropped
<1> USE OnItsWay, HandledIs
<1>1. /\ copies \in [Records -> Nat] /\ copies' \in [Records -> Nat] /\ failures \in Nat
      /\ ToSet(s) \subseteq ToSet(pending)
  <2>1. copies \in [Records -> Nat] /\ failures \in 0..MaxFailures /\ MaxFailures \in Nat
    BY CollectorAssumption DEF IInv, TypeOK
  <2>2. ToSet(s) \subseteq ToSet(pending)
    BY DEF Handles
  <2> QED
    BY <2>1, <2>2
<1>2. ASSUME NEW r \in Records PROVE copies'[r] <= 1 + failures
  <2>1. CASE r \in ToSet(s)
    <3>1. r \in ToSet(batch) /\ r \in ToSet(pending)
      BY <1>1, <2>1
    <3>2. copies[r] <= failures
      BY <3>1 DEF IInv, Attempted
    <3> QED
      BY <1>1, <3>2
  <2>2. CASE r \notin ToSet(s)
    BY <1>1, <2>2 DEF IInv, DuplicatesAreRetries
  <2> QED
    BY <2>1, <2>2
<1>3. ASSUME NEW r \in Records, Unqueued(r) \/ r \in ToSet(logs) PROVE copies'[r] = 0
  <2>1. r \notin ToSet(s)
    BY <1>1, <1>3
  <2> QED
    BY <1>3, <2>1 DEF IInv, Followed
<1>4. ASSUME NEW r \in parsed, copies'[r] > 0, NEW i \in 1..r[2], <<r[1], i>> \in parsed
      PROVE  LET u == <<r[1], i>> IN copies'[u] > 0 \/ u \in refused' \/ u \in dropped
  <2> DEFINE u == <<r[1], i>>
  <2>1. r \in Records /\ u \in Records /\ u[1] = r[1] /\ u[2] = i /\ r[2] \in Nat
        /\ i \in Nat /\ i <= r[2]
    <3>1. r \in Records /\ u \in Records /\ u[1] = r[1] /\ u[2] = i
      BY <1>4
    <3>2. r[2] \in Nat
      BY <3>1, RecordIs
    <3> QED
      BY <3>1, <3>2
  <2> HIDE DEF u
  <2>2. CASE Settled(u)
    BY <1>1, <2>1, <2>2 DEF Settled, u
  <2>3. CASE copies[r] > 0
    <3>1. Settled(u)
      BY <1>4, <2>3 DEF IInv, StoredInOrder, u
    <3> QED
      BY <2>2, <3>1 DEF u
  <2>4. CASE ~Settled(u) /\ ~(copies[r] > 0)
    <3>1. r \in ToSet(s) /\ r \in ToSet(pending) /\ r \in ToSet(batch)
      BY <1>1, <1>4, <2>1, <2>4
    <3>2. sender \in {"send", "single"}
      BY DEF Handles
    <3>3. u \in ToSet(logs) \/ u \in ToSet(batch)
      <4>1. TypeOK /\ NoSilentLoss /\ u \in parsed
        BY <1>4 DEF IInv, u
      <4>2. Somewhere(u) /\ u \notin lost
        BY <3>2, <4>1, SomewhereIs
      <4>3. ~BeingPut(u)
        <5>1. ASSUME BeingPut(u) PROVE Unqueued(r)
          <6>1. position[r[1]] = i /\ follower[r[1]] = "putting"
            BY <2>1, <5>1 DEF BeingPut
          <6> QED
            BY <2>1, <6>1 DEF Unqueued
        <5> QED
          BY <3>1, <5>1
      <4> QED
        BY <2>4, <4>2, <4>3 DEF Somewhere
    <3>4. u \notin ToSet(logs)
      <4>1. ASSUME u \in ToSet(logs) PROVE r[2] < i
        BY <2>1, <3>1, <4>1 DEF IInv, InOrder, Ahead
      <4> QED
        BY <2>1, <4>1
    <3>5. u \in ToSet(pending)
      BY <2>4, <3>2, <3>3, <3>4 DEF IInv, Attempted
    <3>6. u \in ToSet(s)
      BY <2>1, <3>1, <3>5 DEF Handles
    <3> QED
      BY <3>6 DEF u
  <2> QED
    BY <2>2, <2>3, <2>4 DEF u
<1> QED
  BY <1>2, <1>3, <1>4

\* Without an answer that handles a record, nothing is said anew of the API.
LEMMA OrderKept ==
    ASSUME IInv, UNCHANGED <<copies, refused, parsed>>, dropped \subseteq dropped'
    PROVE  StoredInOrder'
BY DEF IInv, StoredInOrder, Settled

\* The sender goes on with rest: what no longer pends is settled.
LEMMA ContinueKeeps ==
    ASSUME IInv, TypeOK', sender \in {"send", "single"}, UNCHANGED <<position, follower, logs, parsed, lost, failures>>,
           NEW rest \in Seq(Records), Ordered(rest), ToSet(rest) \subseteq ToSet(pending),
           NEW state \in {"send", "single"}, Continue(rest, state),
           \A r \in Records : Settled(r) => Settled(r)',
           \A r \in ToSet(pending) : r \in ToSet(rest) \/ Settled(r)',
           \A r \in ToSet(rest) : copies'[r] = copies[r]
    PROVE  InOrder' /\ Attempted' /\ NoSilentLoss'
<1> USE OnItsWay
<1>1. ASSUME NEW r \in ToSet(batch) PROVE r \in ToSet(rest) \/ Settled(r)'
  BY DEF IInv, Attempted
<1>2. pending' = rest
  BY DEF Continue
<1>5. /\ \A r \in parsed : r \in Records /\ Somewhere(r)
      /\ lost' = {}
  BY SomewhereIs DEF IInv
<1>3. CASE rest = << >>
  <2>1. batch' = << >> /\ sender' = "loop"
    BY <1>3 DEF Continue
  <2>2. InOrder'
    BY <1>2, <1>3, <2>1, EmptyIs DEF IInv, InOrder
  <2>3. Attempted'
    BY <2>1, EmptyIs DEF Attempted
  <2>4. NoSilentLoss'
    <3>1. \A r \in parsed : Somewhere(r)'
      BY <1>1, <1>3, <1>5, EmptyIs DEF Somewhere, BeingPut
    <3> QED
      BY <1>5, <3>1, KeepsSomewhere
  <2> QED
    BY <2>2, <2>3, <2>4
<1>4. CASE rest # << >>
  <2>1. batch' = batch /\ sender' = state
    BY <1>4 DEF Continue
  <2>2. InOrder'
    BY <1>2, <2>1 DEF IInv, InOrder
  <2>3. Attempted'
    <3>1. \A r \in ToSet(rest) : copies[r] <= failures
      BY DEF IInv, Attempted
    <3> QED
      BY <1>1, <1>2, <1>4, <2>1, <3>1 DEF Attempted
  <2>4. NoSilentLoss'
    <3>1. \A r \in parsed : Somewhere(r)'
      BY <1>5, <2>1 DEF Somewhere, BeingPut
    <3> QED
      BY <1>5, <3>1, KeepsSomewhere
  <2> QED
    BY <2>2, <2>3, <2>4
<1> QED
  BY <1>3, <1>4

----------------------------------------------------------------------------
(* Type correctness *)

LEMMA Bounds ==
    ASSUME TypeOK
    PROVE  /\ copies \in [Records -> Nat] /\ failures \in Nat /\ restarts \in Nat
           /\ MaxFailures \in Nat /\ MaxRestarts \in Nat /\ QueueSize \in Nat
           /\ Len(logs) \in Nat /\ \A c \in Containers : position[c] \in Nat
<1>1. failures \in 0..MaxFailures /\ restarts \in 0..MaxRestarts /\ MaxFailures \in Nat /\ MaxRestarts \in Nat
  BY CollectorAssumption DEF TypeOK
<1>2. logs \in Seq(Records) /\ copies \in [Records -> Nat] /\ position \in [Containers -> Nat]
  BY DEF TypeOK
<1> QED
  BY <1>1, <1>2, CollectorAssumption, LenProperties

LEMMA TypeInit == Init => TypeOK
<1> SUFFICES ASSUME Init PROVE TypeOK
  OBVIOUS
<1>1. \A c \in Containers : Len(Lines[c]) \in Nat
  BY RecordIs
<1>2. << >> \in Seq(Records) /\ Len(<< >>) = 0
  BY EmptyIs
<1>3. /\ MaxFailures \in Nat /\ MaxRestarts \in Nat /\ QueueSize \in Nat
  BY CollectorAssumption
<1>4. /\ position \in [Containers -> Nat] /\ \A c \in Containers : position[c] <= Len(Lines[c])
      /\ copies \in [Records -> Nat] /\ failures \in 0..MaxFailures /\ restarts \in 0..MaxRestarts
  BY <1>1, <1>3 DEF Init
<1>5. Len(logs) <= QueueSize
  BY <1>2, <1>3 DEF Init
<1> QED
  BY <1>2, <1>4, <1>5 DEF Init, TypeOK

LEMMA TypeFollow ==
    ASSUME IInv, NEW c \in Containers, Follow(c)
    PROVE  TypeOK'
<1>1. TypeOK /\ position[c] \in Nat /\ Len(Lines[c]) \in Nat /\ Len(logs) \in Nat /\ QueueSize \in Nat
  BY Bounds, RecordIs DEF IInv
<1>2. ASSUME position' = [position EXCEPT ![c] = @ + 1], position[c] < Len(Lines[c])
      PROVE  /\ position' \in [Containers -> Nat] /\ \A d \in Containers : position'[d] <= Len(Lines[d])
             /\ <<c, position'[c]>> \in Records
  <2>1. position \in [Containers -> Nat] /\ \A d \in Containers : position[d] <= Len(Lines[d])
    BY <1>1 DEF TypeOK
  <2>2. position'[c] = position[c] + 1
    BY <1>2, <2>1
  <2>3. position'[c] \in Nat \ {0} /\ position'[c] <= Len(Lines[c])
    BY <1>1, <1>2, <2>2
  <2> QED
    BY <1>1, <1>2, <2>1, <2>3, RecordIs
<1>3. CASE ReadLine(c)
  <2>1. follower' \in [Containers -> {"gone", "reading", "putting"}]
    BY <1>1, <1>3 DEF ReadLine, TypeOK
  <2>2. parsed' \subseteq Records
    BY <1>1, <1>2, <1>3 DEF ReadLine, TypeOK
  <2> QED
    BY <1>1, <1>2, <1>3, <2>1, <2>2 DEF ReadLine, TypeOK, sending, api, process
<1>4. CASE MissLine(c)
  BY <1>1, <1>2, <1>4 DEF MissLine, TypeOK, sending, api, process
<1>5. CASE Put(c)
  <2>1. <<c, position[c]>> \in Records
    BY <1>5, OnItsWay DEF Put, IInv, Followed
  <2>2. logs' \in Seq(Records) /\ Len(logs') = Len(logs) + 1
    BY <1>1, <1>5, <2>1, AppendIs DEF Put, TypeOK
  <2>3. Len(logs') <= QueueSize
    BY <1>1, <1>5, <2>2 DEF Put
  <2>4. follower' \in [Containers -> {"gone", "reading", "putting"}]
    BY <1>1, <1>5 DEF Put, TypeOK
  <2> QED
    BY <1>1, <1>5, <2>1, <2>2, <2>3, <2>4 DEF Put, TypeOK, sending, api, process
<1>6. CASE EndOfOutput(c)
  <2>1. follower' \in [Containers -> {"gone", "reading", "putting"}]
    BY <1>1, <1>6 DEF EndOfOutput, TypeOK
  <2> QED
    BY <1>1, <1>6, <2>1 DEF EndOfOutput, TypeOK, sending, api, process
<1> QED
  BY <1>3, <1>4, <1>5, <1>6 DEF Follow

\* What an attempt of the sender has in hand.
LEMMA Attempting ==
    ASSUME IInv, sender \in {"send", "single"}
    PROVE  /\ pending # << >> /\ pending \in Seq(Records) /\ Ordered(pending)
           /\ main # "exited" /\ batch # << >>
<1>1. pending # << >> /\ pending \in Seq(Records) /\ Ordered(pending) /\ main # "exited"
  BY DEF IInv, Attempted, TypeOK, InOrder, Emptied
<1>2. batch # << >>
  <2>1. Head(pending) \in ToSet(batch)
    BY <1>1, TailIs, OnItsWay
  <2> QED
    BY <2>1, EmptyIs
<1> QED
  BY <1>1, <1>2

\* An answered post handles all of pending, or its first record.
LEMMA AllHandled ==
    ASSUME IInv, sender \in {"send", "single"}, Handled(pending)
    PROVE  Handles(pending)
BY Attempting DEF Handles

LEMMA OneIs ==
    ASSUME NEW r \in Records
    PROVE  << r >> \in Seq(Records) /\ ToSet(<< r >>) = {r} /\ Len(<< r >>) = 1 /\ Ordered(<< r >>)
<1>1. DOMAIN << r >> = {1} /\ << r >>[1] = r /\ << r >> \in Seq(Records) /\ Len(<< r >>) = 1
  OBVIOUS
<1> QED
  BY <1>1 DEF ToSet, Ordered

LEMMA HeadHandled ==
    ASSUME IInv, sender \in {"send", "single"}, Handled(<< Head(pending) >>)
    PROVE  Handles(<< Head(pending) >>)
<1> DEFINE h == Head(pending)
<1>1. /\ h \in Records /\ h \in ToSet(pending) /\ ToSet(pending) = {h} \union ToSet(Tail(pending))
      /\ \A u \in ToSet(Tail(pending)) : u[1] = h[1] => h[2] < u[2]
  BY Attempting, TailIs
<1>2. << h >> \in Seq(Records) /\ ToSet(<< h >>) = {h}
  BY <1>1, OneIs
<1>3. ASSUME NEW u \in ToSet(pending), u[1] = h[1], u[2] <= h[2] PROVE u = h
  <2>1. u[2] \in Nat /\ h[2] \in Nat
    BY <1>1, OnItsWay, RecordIs
  <2>2. ~(h[2] < u[2])
    BY <1>3, <2>1
  <2> QED
    BY <1>1, <1>3, <2>2
<1> QED
  BY <1>1, <1>2, <1>3 DEF Handles

\* A failed post handled a prefix of what it sent, or nothing.
LEMMA PrefixHandled ==
    ASSUME IInv, sender \in {"send", "single"}, HandledPrefix
    PROVE  UNCHANGED <<copies, refused>> \/ \E s \in Seq(Records) : Handles(s)
<1>1. CASE Invalid(Posted) # {}
  BY <1>1 DEF HandledPrefix
<1>2. CASE Invalid(Posted) = {}
  <2> DEFINE h == Head(pending)
  <2>1. PICK n \in 0..Len(Posted) : Handled(SubSeq(Posted, 1, n))
    BY <1>2 DEF HandledPrefix
  <2> DEFINE s == SubSeq(Posted, 1, n)
  <2>2. /\ h \in Records /\ h \in ToSet(pending) /\ ToSet(pending) = {h} \union ToSet(Tail(pending))
        /\ \A u \in ToSet(Tail(pending)) : u[1] = h[1] => h[2] < u[2]
    BY Attempting, TailIs
  <2>3. /\ Posted \in Seq(Records) /\ Ordered(Posted) /\ ToSet(Posted) \subseteq ToSet(pending)
        /\ \A r \in ToSet(Posted), u \in ToSet(pending) : u[1] = r[1] /\ u[2] <= r[2] => u \in ToSet(Posted)
    <3>1. CASE sender = "single"
      <4>1. Posted = << h >> /\ << h >> \in Seq(Records) /\ Ordered(<< h >>) /\ ToSet(<< h >>) = {h}
        BY <2>2, <3>1, OneIs DEF Posted
      <4>2. ASSUME NEW u \in ToSet(pending), u[1] = h[1], u[2] <= h[2] PROVE u = h
        <5>1. u[2] \in Nat /\ h[2] \in Nat
          BY <2>2, OnItsWay, RecordIs
        <5>2. ~(h[2] < u[2])
          BY <4>2, <5>1
        <5> QED
          BY <2>2, <4>2, <5>2
      <4> HIDE DEF h
      <4> QED
        BY <2>2, <4>1, <4>2
    <3>2. CASE sender = "send"
      BY <3>2, Attempting DEF Posted
    <3> QED
      BY <3>1, <3>2
  <2>4. /\ s \in Seq(Records) /\ ToSet(s) \subseteq ToSet(Posted)
        /\ \A r \in ToSet(s), u \in ToSet(Posted) : u[1] = r[1] /\ u[2] <= r[2] => u \in ToSet(s)
    BY <2>3, PrefixIs
  <2>6. Handled(s)
    BY <2>1
  <2> HIDE DEF s, h
  <2>7. \A r \in ToSet(s), u \in ToSet(pending) : u[1] = r[1] /\ u[2] <= r[2] => u \in ToSet(s)
    BY <2>3, <2>4
  <2>8. Handles(s)
    BY <2>3, <2>4, <2>6, <2>7 DEF Handles
  <2> QED
    BY <2>4, <2>8
<1> QED
  BY <1>1, <1>2

----------------------------------------------------------------------------
(* The invariant is inductive *)

LEMMA IInvInit == Init => IInv
<1> SUFFICES ASSUME Init PROVE IInv
  OBVIOUS
<1> USE DEF Init
<1>1. TypeOK
  BY TypeInit
<1>2. InOrder /\ Attempted /\ Emptied
  BY EmptyIs DEF InOrder, Attempted, Emptied
<1>3. Followed
  BY EmptyIs, RecordIs DEF Followed
<1>4. NoSilentLoss /\ OnlyInvalidDropped /\ StoredInOrder /\ DuplicatesAreRetries
  BY RecordIs DEF NoSilentLoss, OnlyInvalidDropped, StoredInOrder, DuplicatesAreRetries
<1> QED
  BY <1>1, <1>2, <1>3, <1>4 DEF IInv

\* A line that is read or missed moves its follower on; what is parsed of it is
\* later than all that was parsed of its container, and was not posted yet.
LEMMA ReadStep ==
    ASSUME IInv, NEW c \in Containers, ReadLine(c) \/ MissLine(c) \/ EndOfOutput(c)
    PROVE  IInv'
<1> DEFINE new == <<c, position'[c]>>
<1>1. TypeOK'
  BY TypeFollow DEF Follow
<1>2. UNCHANGED <<logs, batch, pending, sender, lost, copies, refused, dropped, main, stop, restarts, failures>>
  BY DEF ReadLine, MissLine, EndOfOutput, sending, api, process
<1>3. /\ position \in [Containers -> Nat] /\ position' \in [Containers -> Nat]
      /\ follower \in [Containers -> {"gone", "reading", "putting"}]
      /\ follower' \in [Containers -> {"gone", "reading", "putting"}]
      /\ parsed' \subseteq Records /\ TypeOK
  BY <1>1 DEF IInv, TypeOK
<1>4. /\ \A d \in Containers \ {c} : position'[d] = position[d] /\ follower'[d] = follower[d]
      /\ follower[c] # "putting"
      /\ \/ /\ position'[c] = position[c] + 1
            /\ \/ follower'[c] = "putting" /\ parsed' = parsed \union {new}
               \/ follower'[c] # "putting" /\ parsed' = parsed
         \/ position'[c] = position[c] /\ follower'[c] = "gone" /\ parsed' = parsed
  <2>1. CASE ReadLine(c)
    BY <1>3, <2>1 DEF ReadLine
  <2>2. CASE MissLine(c)
    BY <1>3, <2>2 DEF MissLine
  <2>3. CASE EndOfOutput(c)
    BY <1>3, <2>3 DEF EndOfOutput
  <2> QED
    BY <2>1, <2>2, <2>3
<1>5. new[1] = c /\ new[2] = position'[c]
  OBVIOUS
<1> HIDE DEF new
<1>6. ASSUME NEW d \in Containers
      PROVE  position[d] \in Nat /\ position'[d] \in Nat /\ position[d] <= position'[d]
  BY <1>3, <1>4
<1>7. ASSUME NEW r \in Records, Unqueued(r)' PROVE Unqueued(r)
  <2>1. r[1] \in Containers /\ r[2] \in Nat /\ position[r[1]] \in Nat /\ position'[r[1]] \in Nat
    BY <1>3, RecordIs
  <2> QED
    BY <1>4, <1>7, <2>1 DEF Unqueued
<1>8. ASSUME NEW r \in parsed
      PROVE  ~(position'[r[1]] < r[2]) /\ (r[1] = c => r[2] <= position[c])
  <2>1. r[1] \in Containers /\ r[2] \in Nat /\ ~(position[r[1]] < r[2])
    BY OnItsWay, RecordIs DEF IInv, Followed
  <2> QED
    BY <1>6, <2>1
<1>9. ASSUME NEW r \in parsed', r \notin parsed
      PROVE  /\ r \in Records /\ copies[r] = 0 /\ r[1] = c /\ r[2] = position'[c]
             /\ position[c] < r[2] /\ BeingPut(r)'
  <2>1. /\ r = new /\ r \in Records
        /\ position'[c] = position[c] + 1 /\ follower'[c] = "putting"
    BY <1>3, <1>4, <1>9
  <2>2. position[c] < r[2]
    BY <1>5, <1>6, <2>1
  <2>3. copies[r] = 0
    BY <1>5, <2>1, <2>2 DEF IInv, Followed, Unqueued
  <2>4. BeingPut(r)'
    BY <1>5, <2>1 DEF BeingPut
  <2> QED
    BY <1>5, <2>1, <2>2, <2>3, <2>4
<1>10. parsed \subseteq parsed'
  BY <1>4
<1>11. InOrder' /\ Attempted' /\ OnlyInvalidDropped' /\ DuplicatesAreRetries'
  <2>1. InOrder' /\ OnlyInvalidDropped'
    BY <1>2, <1>10 DEF IInv, InOrder, OnlyInvalidDropped
  <2>2. Attempted' /\ DuplicatesAreRetries'
    BY <1>2 DEF IInv, Attempted, DuplicatesAreRetries, Settled
  <2> QED
    BY <2>1, <2>2
<1>12. NoSilentLoss'
  <2>1. ASSUME NEW r \in parsed PROVE Somewhere(r)'
    <3>1. Somewhere(r) /\ r[1] \in Containers
      BY <1>3, SomewhereIs, OnItsWay, RecordIs DEF IInv
    <3>2. BeingPut(r) => BeingPut(r)'
      BY <1>4, <3>1 DEF BeingPut
    <3> QED
      BY <1>2, <3>1, <3>2 DEF Somewhere, Settled
  <2>2. \A r \in parsed' : Somewhere(r)'
    BY <1>9, <2>1 DEF Somewhere
  <2>3. lost' # {} => sender' = "dead"
    BY <1>2 DEF IInv, NoSilentLoss
  <2> QED
    BY <1>1, <2>2, <2>3, KeepsSomewhere
<1>13. StoredInOrder'
  <2> SUFFICES ASSUME NEW r \in parsed', copies'[r] > 0, NEW i \in 1..r[2], <<r[1], i>> \in parsed'
               PROVE  Settled(<<r[1], i>>)'
    BY DEF StoredInOrder
  <2> DEFINE u == <<r[1], i>>
  <2>1. r \in parsed /\ r[2] \in Nat
    <3>1. r \in Records /\ copies[r] > 0
      BY <1>2, <1>3
    <3>2. r \in parsed
      BY <1>9, <3>1
    <3> QED
      BY <3>1, <3>2, RecordIs
  <2>2. u \in parsed
    <3>1. u[1] = r[1] /\ u[2] = i /\ u \in parsed' /\ i \in Nat /\ i <= r[2]
      BY <2>1
    <3> HIDE DEF u
    <3>2. ASSUME u \notin parsed PROVE FALSE
      <4>1. r[1] = c /\ position[c] < i
        BY <1>9, <3>1, <3>2
      <4>2. r[2] <= position[c] /\ position[c] \in Nat
        BY <1>6, <1>8, <2>1, <4>1
      <4> QED
        BY <2>1, <3>1, <4>1, <4>2
    <3> QED
      BY <3>2
  <2>3. Settled(u)
    BY <1>2, <2>1, <2>2 DEF IInv, StoredInOrder
  <2> QED
    BY <1>2, <2>3 DEF Settled
<1>14. Emptied'
  <2>1. CASE main = "exited"
    <3>1. \A d \in Containers : follower[d] = "gone"
      BY <2>1 DEF IInv, Emptied
    <3>2. MissLine(c)
      BY <3>1 DEF ReadLine, EndOfOutput
    <3> QED
      BY <1>2, <2>1, <3>2 DEF MissLine, IInv, Emptied
  <2> QED
    BY <1>2, <2>1 DEF Emptied
<1>15. Followed'
  <2>1. ASSUME NEW d \in Containers, follower'[d] = "putting" PROVE <<d, position'[d]>> \in parsed'
    <3>1. CASE d # c
      BY <1>4, <1>10, <2>1, <3>1 DEF IInv, Followed
    <3>2. CASE d = c
      BY <1>4, <2>1, <3>2 DEF new
    <3> QED
      BY <3>1, <3>2
  <2>2. ASSUME NEW r \in parsed' PROVE ~(position'[r[1]] < r[2])
    <3>1. ~(position'[c] < position'[c])
      BY <1>6
    <3> QED
      BY <1>5, <1>8, <1>9, <3>1
  <2>3. \A r \in ToSet(logs) \union ToSet(batch) : ~(Unqueued(r)')
    BY <1>7, OnItsWay
  <2>4. \A r \in Records : Unqueued(r)' \/ r \in ToSet(logs) => copies[r] = 0
    BY <1>7 DEF IInv, Followed
  <2> QED
    BY <1>2, <2>1, <2>2, <2>3, <2>4 DEF Followed
<1> QED
  BY <1>1, <1>11, <1>12, <1>13, <1>14, <1>15 DEF IInv

\* A record that is put on the queue is later than all of its container there
\* and in the batch, and was not posted yet.
LEMMA PutStep ==
    ASSUME IInv, NEW c \in Containers, Put(c)
    PROVE  IInv'
<1> DEFINE new == <<c, position[c]>>
<1>1. TypeOK'
  BY TypeFollow DEF Follow
<1>2. /\ UNCHANGED <<position, parsed, batch, pending, sender, lost, copies, refused, dropped, main, stop, restarts, failures>>
      /\ logs' = Append(logs, new)
      /\ follower[c] = "putting" /\ follower' = [follower EXCEPT ![c] = "reading"]
  BY DEF Put, sending, api, process
<1>3. /\ new \in parsed /\ new \in Records /\ Unqueued(new) /\ copies[new] = 0
      /\ new[1] = c /\ new[2] = position[c]
  BY <1>2, OnItsWay DEF IInv, Followed, Unqueued
<1>4. /\ follower \in [Containers -> {"gone", "reading", "putting"}]
      /\ logs \in Seq(Records) /\ batch \in Seq(Records) /\ copies \in [Records -> Nat]
      /\ \A d \in Containers : position[d] \in Nat
  BY Bounds DEF IInv, TypeOK
<1>5. ASSUME NEW r \in ToSet(logs) \union ToSet(batch), r[1] = c PROVE r[2] < new[2]
  <2>1. r[2] \in Nat /\ position[c] \in Nat
    BY <1>4, OnItsWay, RecordIs
  <2>2. ~(position[c] < r[2]) /\ ~(position[c] = r[2])
    BY <1>2, <1>5, OnItsWay DEF Unqueued
  <2> QED
    BY <1>3, <2>1, <2>2
<1> HIDE DEF new
<1>6. ToSet(logs') = ToSet(logs) \union {new}
  BY <1>2, <1>3, <1>4, AppendIs
<1>7. InOrder'
  <2>1. Ordered(logs')
    BY <1>2, <1>3, <1>4, <1>5, OnItsWay, OrderedAppend DEF IInv, InOrder
  <2>2. Ahead(batch, logs')
    BY <1>3, <1>5, <1>6, OnItsWay DEF IInv, InOrder, Ahead
  <2> QED
    BY <1>2, <1>3, <1>6, <2>1, <2>2 DEF IInv, InOrder
<1>8. ASSUME NEW r \in Records
      PROVE  /\ Unqueued(r)' => Unqueued(r)
             /\ r[1] = new[1] /\ r[2] = new[2] => ~(Unqueued(r)')
  <2>1. r[1] \in Containers /\ r[2] \in Nat /\ position[c] \in Nat
    BY <1>4, RecordIs
  <2>2. follower'[c] = "reading" /\ \A d \in Containers \ {c} : follower'[d] = follower[d]
    BY <1>2, <1>4
  <2>3. Unqueued(r)' => Unqueued(r)
    BY <1>2, <2>1, <2>2 DEF Unqueued
  <2>4. r[1] = new[1] /\ r[2] = new[2] => ~(Unqueued(r)')
    BY <1>2, <1>3, <2>1, <2>2 DEF Unqueued
  <2> QED
    BY <2>3, <2>4
<1>9. Followed'
  <2>1. \A d \in Containers : follower'[d] = "putting" => follower[d] = "putting"
    BY <1>2, <1>4
  <2>2. \A r \in ToSet(logs') \union ToSet(batch) : ~(Unqueued(r)')
    BY <1>3, <1>6, <1>8, OnItsWay
  <2>3. \A r \in Records : Unqueued(r)' \/ r \in ToSet(logs') => copies'[r] = 0
    BY <1>2, <1>3, <1>6, <1>8 DEF IInv, Followed
  <2> QED
    BY <1>2, <2>1, <2>2, <2>3 DEF IInv, Followed
<1>10. Attempted' /\ OnlyInvalidDropped' /\ DuplicatesAreRetries'
  BY <1>2 DEF IInv, Attempted, OnlyInvalidDropped, DuplicatesAreRetries, Settled
<1>11. Emptied'
  BY <1>2 DEF IInv, Emptied
<1>12. NoSilentLoss'
  <2>1. ASSUME NEW r \in parsed PROVE Somewhere(r)'
    <3>1. Somewhere(r) /\ r[1] \in Containers /\ r = <<r[1], r[2]>>
      BY SomewhereIs, OnItsWay, RecordIs DEF IInv
    <3>2. BeingPut(r) => BeingPut(r)' \/ r = new
      BY <1>2, <1>4, <3>1 DEF BeingPut, new
    <3> QED
      BY <1>2, <1>6, <3>1, <3>2 DEF Somewhere, Settled
  <2>2. lost' # {} => sender' = "dead"
    BY <1>2 DEF IInv, NoSilentLoss
  <2> QED
    BY <1>1, <1>2, <2>1, <2>2, KeepsSomewhere
<1>13. StoredInOrder'
  BY <1>2, OrderKept
<1> QED
  BY <1>1, <1>7, <1>9, <1>10, <1>11, <1>12, <1>13 DEF IInv

\* The sender moves the first record of the queue to its batch; a batch that
\* is flushed pends as a whole.
LEMMA TakeStep ==
    ASSUME IInv, Take
    PROVE  IInv'
<1>1. /\ UNCHANGED <<position, follower, parsed, lost, copies, refused, dropped, main, stop, restarts, failures>>
      /\ sender = "loop" /\ main # "exited"
  BY DEF Take, following, api, process
<1>2. /\ logs \in Seq(Records) /\ batch \in Seq(Records) /\ Ordered(logs) /\ Ordered(batch) /\ Ahead(batch, logs)
      /\ parsed \subseteq Records
  BY DEF IInv, TypeOK, InOrder
<1> DEFINE h == Head(logs)
<1>3. \/ /\ logs # << >> /\ batch' = Append(batch, h) /\ logs' = Tail(logs)
      \/ UNCHANGED <<batch, logs>>
  BY DEF Take
<1>4. \/ sender' = "send" /\ pending' = batch' /\ batch' # << >>
      \/ sender' = "loop" /\ pending' = << >>
  BY DEF Take
<1>5. /\ logs' \in Seq(Records) /\ Len(logs') <= QueueSize /\ batch' \in Seq(Records)
      /\ ToSet(logs') \union ToSet(batch') = ToSet(logs) \union ToSet(batch)
      /\ ToSet(logs') \subseteq ToSet(logs)
      /\ Ordered(logs') /\ Ordered(batch') /\ Ahead(batch', logs')
      /\ \A r \in ToSet(batch') : r \in ToSet(batch) \/ r \in ToSet(logs)
  <2>1. CASE UNCHANGED <<batch, logs>>
    BY <1>2, <2>1 DEF IInv, TypeOK
  <2>2. CASE logs # << >> /\ batch' = Append(batch, h) /\ logs' = Tail(logs)
    <3>1. /\ h \in Records /\ h \in ToSet(logs) /\ logs' \in Seq(Records)
          /\ Len(logs') = Len(logs) - 1 /\ Len(logs) \in Nat
          /\ ToSet(logs) = {h} \union ToSet(logs') /\ Ordered(logs')
          /\ \A u \in ToSet(logs') : u[1] = h[1] => h[2] < u[2]
      BY <1>2, <2>2, TailIs
    <3>2. batch' \in Seq(Records) /\ ToSet(batch') = ToSet(batch) \union {h}
      BY <1>2, <2>2, <3>1, AppendIs
    <3>3. Ordered(batch')
      <4>1. \A u \in ToSet(batch) : u[1] = h[1] => u[2] < h[2]
        BY <1>2, <3>1 DEF Ahead
      <4> QED
        BY <1>2, <2>2, <3>1, <4>1, OrderedAppend
    <3>4. Ahead(batch', logs')
      BY <1>2, <3>1, <3>2 DEF Ahead
    <3>5. Len(logs') <= QueueSize
      <4>1. Len(logs) <= QueueSize /\ QueueSize \in Nat
        BY CollectorAssumption DEF IInv, TypeOK
      <4> QED
        BY <3>1, <4>1
    <3> HIDE DEF h
    <3> QED
      BY <3>1, <3>2, <3>3, <3>4, <3>5
  <2> QED
    BY <1>3, <2>1, <2>2
<1>6. TypeOK'
  BY <1>1, <1>4, <1>5, EmptyIs DEF IInv, TypeOK
<1>7. InOrder'
  BY <1>1, <1>4, <1>5, EmptyIs DEF IInv, InOrder
<1>8. Followed'
  <2>1. \A r \in Records : Unqueued(r)' <=> Unqueued(r)
    BY <1>1 DEF Unqueued
  <2> QED
    BY <1>1, <1>2, <1>5, <2>1, OnItsWay DEF IInv, Followed
<1>9. Attempted'
  <2>1. \A r \in ToSet(batch') : copies'[r] <= failures'
    <3>1. \A r \in ToSet(batch) : copies[r] <= failures
      BY <1>1 DEF IInv, Attempted
    <3>2. \A r \in ToSet(logs) : copies[r] = 0
      BY OnItsWay DEF IInv, Followed
    <3>3. failures \in Nat
      BY Bounds DEF IInv
    <3> QED
      BY <1>1, <1>5, <3>1, <3>2, <3>3
  <2> QED
    BY <1>4, <2>1 DEF Attempted
<1>10. NoSilentLoss'
  <2>1. ASSUME NEW r \in parsed PROVE Somewhere(r)'
    <3>1. Somewhere(r)
      BY SomewhereIs DEF IInv
    <3> QED
      BY <1>1, <1>5, <3>1 DEF Somewhere, BeingPut, Settled
  <2>2. lost' # {} => sender' = "dead"
    BY <1>1 DEF IInv, NoSilentLoss
  <2> QED
    BY <1>1, <1>6, <2>1, <2>2, KeepsSomewhere
<1>11. OnlyInvalidDropped' /\ StoredInOrder' /\ DuplicatesAreRetries'
  BY <1>1, OrderKept DEF IInv, OnlyInvalidDropped, DuplicatesAreRetries
<1>12. Emptied'
  BY <1>1 DEF Emptied
<1> QED
  BY <1>6, <1>7, <1>8, <1>9, <1>10, <1>11, <1>12 DEF IInv

\* What the rest of a step keeps when records were handled, or none.
LEMMA HandledRest ==
    ASSUME IInv, sender \in {"send", "single"}, UNCHANGED <<position, follower, logs, parsed>>,
           batch' \in {batch, << >>},
           \/ UNCHANGED <<copies, refused>>
           \/ \E s \in Seq(Records) : Handles(s),
           dropped \subseteq dropped'
    PROVE  /\ Followed' /\ StoredInOrder'
           /\ copies' \in [Records -> Nat] /\ refused' \subseteq Records
           /\ \A r \in Records : Settled(r) => Settled(r)'
           /\ \A r \in Records : copies'[r] <= 1 + failures
<1>1. /\ \A r \in Records : Unqueued(r)' <=> Unqueued(r)
      /\ ToSet(batch') \subseteq ToSet(batch)
  BY EmptyIs DEF Unqueued
<1>2. CASE UNCHANGED <<copies, refused>>
  <2>1. Followed'
    BY <1>1, <1>2, OnItsWay DEF IInv, Followed
  <2>2. StoredInOrder'
    BY <1>2, OrderKept
  <2> QED
    BY <1>2, <2>1, <2>2 DEF IInv, TypeOK, Settled, DuplicatesAreRetries
<1>3. CASE \E s \in Seq(Records) : Handles(s)
  <2> PICK s \in Seq(Records) : Handles(s)
    BY <1>3
  <2>1. /\ copies' \in [Records -> Nat] /\ refused' \subseteq Records /\ refused \subseteq refused'
        /\ \A r \in Records : copies[r] <= copies'[r]
    BY HandledIs
  <2>2. /\ \A r \in Records : copies'[r] <= 1 + failures
        /\ \A r \in Records : Unqueued(r) \/ r \in ToSet(logs) => copies'[r] = 0
        /\ \A r \in parsed : copies'[r] > 0 =>
             \A i \in 1..r[2] : LET u == <<r[1], i>> IN
                 u \in parsed => copies'[u] > 0 \/ u \in refused' \/ u \in dropped
    BY HandledKeeps
  <2>3. Followed'
    BY <1>1, <2>2, OnItsWay DEF IInv, Followed
  <2>4. StoredInOrder'
    BY <2>2 DEF StoredInOrder, Settled
  <2>5. ASSUME NEW r \in Records, Settled(r) PROVE Settled(r)'
    <3>1. copies[r] \in Nat /\ copies'[r] \in Nat /\ copies[r] <= copies'[r]
      BY <2>1 DEF IInv, TypeOK
    <3> QED
      BY <2>1, <2>5, <3>1 DEF Settled
  <2> QED
    BY <2>1, <2>2, <2>3, <2>4, <2>5
<1> QED
  BY <1>2, <1>3

\* An answer: the sender goes on with rest, and what no longer pends is settled.
LEMMA AnswerKeeps ==
    ASSUME IInv, sender \in {"send", "single"},
           UNCHANGED <<position, follower, logs, parsed, lost, main, stop, restarts, failures>>,
           \/ UNCHANGED <<copies, refused>>
           \/ \E s \in Seq(Records) : Handles(s),
           dropped \subseteq dropped',
           \A r \in dropped' : r \in dropped \/ (r \in ToSet(pending) /\ Kind(r) = "invalid"),
           NEW rest \in Seq(Records), Ordered(rest), ToSet(rest) \subseteq ToSet(pending),
           NEW state \in {"send", "single"}, Continue(rest, state),
           \A r \in ToSet(pending) : r \in ToSet(rest) \/ Settled(r)',
           \A r \in ToSet(rest) : copies'[r] = copies[r]
    PROVE  IInv'
<1>1. main # "exited" /\ ToSet(pending) \subseteq Records
  BY Attempting, OnItsWay
<1>2. /\ Followed' /\ StoredInOrder'
      /\ copies' \in [Records -> Nat] /\ refused' \subseteq Records
      /\ \A r \in Records : Settled(r) => Settled(r)'
      /\ \A r \in Records : copies'[r] <= 1 + failures
  BY HandledRest DEF Continue
<1>3. TypeOK'
  <2>1. dropped' \subseteq Records
    BY <1>1 DEF IInv, TypeOK
  <2> QED
    BY <1>2, <2>1, EmptyIs DEF IInv, TypeOK, Continue
<1>4. InOrder' /\ Attempted' /\ NoSilentLoss'
  BY <1>2, <1>3, ContinueKeeps
<1>5. OnlyInvalidDropped' /\ DuplicatesAreRetries'
  BY <1>2 DEF IInv, OnlyInvalidDropped, DuplicatesAreRetries
<1>6. Emptied'
  BY <1>1 DEF Emptied
<1> QED
  BY <1>2, <1>3, <1>4, <1>5, <1>6 DEF IInv

LEMMA PostOkStep ==
    ASSUME IInv, PostOk
    PROVE  IInv'
<1>1. /\ UNCHANGED <<position, follower, logs, parsed, lost, main, stop, restarts, failures, dropped>>
      /\ sender \in {"send", "single"}
  BY DEF PostOk, following, process
<1>2. Handles(pending) /\ pending \in Seq(Records)
  BY <1>1, AllHandled, Attempting DEF PostOk
<1>3. \A r \in ToSet(pending) : Settled(r)'
  BY <1>2, HandledIs DEF Settled
<1> PICK rest \in Seq(Records) : rest = << >>
  BY EmptyIs
<1>4. Ordered(rest) /\ ToSet(rest) = {}
  BY EmptyIs
<1>5. Continue(rest, "send")
  BY DEF PostOk, Continue
<1>6. \E s \in Seq(Records) : Handles(s)
  BY <1>2
<1> QED
  BY <1>1, <1>3, <1>4, <1>5, <1>6, AnswerKeeps

LEMMA PostIndicesStep ==
    ASSUME IInv, PostIndices
    PROVE  IInv'
<1>1. /\ UNCHANGED <<position, follower, logs, parsed, lost, main, stop, restarts, failures, copies, refused>>
      /\ sender \in {"send", "single"}
  BY DEF PostIndices, following, process
<1>2. pending \in Seq(Records) /\ Ordered(pending)
  BY <1>1, Attempting
<1>3. PICK indices \in SUBSET Invalid(pending) :
         /\ dropped' = dropped \union {pending[i] : i \in indices}
         /\ Continue(Without(pending, indices), "send")
  BY DEF PostIndices
<1>4. \A i \in indices : i \in DOMAIN pending /\ Kind(pending[i]) = "invalid"
  BY DEF Invalid
<1> PICK rest \in Seq(Records) : rest = Without(pending, indices)
  BY <1>2, <1>4, WithoutIs
<1>5. /\ Ordered(rest) /\ ToSet(rest) \subseteq ToSet(pending)
      /\ \A r \in ToSet(pending) : r \in ToSet(rest) \/ \E i \in indices : r = pending[i]
  BY <1>2, <1>4, WithoutIs
<1>6. \A r \in ToSet(pending) : r \in ToSet(rest) \/ Settled(r)'
  BY <1>3, <1>5 DEF Settled
<1>7. ASSUME NEW r \in dropped' PROVE  r \in dropped \/ (r \in ToSet(pending) /\ Kind(r) = "invalid")
  <2>1. CASE r \in dropped
    BY <2>1
  <2>2. CASE \E i \in indices : r = pending[i]
    BY <1>4, <2>2 DEF ToSet
  <2> QED
    BY <1>3, <2>1, <2>2
<1>8. Continue(rest, "send")
  BY <1>3
<1>9. dropped \subseteq dropped'
  BY <1>3
<1> QED
  BY <1>1, <1>5, <1>6, <1>7, <1>8, <1>9, AnswerKeeps

LEMMA PostSingleStep ==
    ASSUME IInv, PostSingle
    PROVE  IInv'
<1>1. /\ UNCHANGED <<position, follower, logs, parsed, lost, main, stop, restarts, failures>>
      /\ sender \in {"send", "single"}
  BY DEF PostSingle, following, process
<1>2. pending # << >> /\ pending \in Seq(Records) /\ Ordered(pending) /\ ToSet(pending) \subseteq Records
  BY <1>1, Attempting, OnItsWay
<1> PICK h \in Records, rest \in Seq(Records) : h = Head(pending) /\ rest = Tail(pending)
  BY <1>2, TailIs
<1>3. /\ h \in ToSet(pending) /\ Ordered(rest)
      /\ ToSet(pending) = {h} \union ToSet(rest)
      /\ \A u \in ToSet(rest) : u[1] = h[1] => h[2] < u[2]
  BY <1>2, TailIs
<1>4. Continue(rest, "single")
  BY DEF PostSingle
<1>5. h \notin ToSet(rest)
  <2>1. h[2] \in Nat
    BY RecordIs
  <2>2. ~(h[2] < h[2])
    BY <2>1
  <2> QED
    BY <1>3, <2>2
<1>6. CASE Kind(h) = "invalid"
  <2>1. dropped' = dropped \union {h} /\ UNCHANGED <<copies, refused>>
    BY <1>6 DEF PostSingle
  <2>2. Settled(h)'
    BY <2>1 DEF Settled
  <2>3. /\ \A r \in ToSet(pending) : r \in ToSet(rest) \/ Settled(r)'
        /\ \A r \in dropped' : r \in dropped \/ (r \in ToSet(pending) /\ Kind(r) = "invalid")
        /\ dropped \subseteq dropped'
    BY <1>3, <1>6, <2>1, <2>2
  <2> QED
    BY <1>1, <1>3, <1>4, <2>1, <2>3, AnswerKeeps
<1>7. CASE Kind(h) # "invalid"
  <2>1. Handles(<< h >>) /\ UNCHANGED dropped
    BY <1>1, <1>7, HeadHandled DEF PostSingle
  <2>2. ToSet(<< h >>) = {h} /\ << h >> \in Seq(Records)
    BY OneIs
  <2>3. /\ \A r \in Records : r # h => copies'[r] = copies[r]
        /\ copies'[h] > 0 \/ h \in refused'
    BY <2>1, <2>2, HandledIs
  <2>4. Settled(h)'
    BY <2>3 DEF Settled
  <2>5. /\ \A r \in ToSet(pending) : r \in ToSet(rest) \/ Settled(r)'
        /\ \A r \in ToSet(rest) : copies'[r] = copies[r]
    BY <1>2, <1>3, <1>5, <2>3, <2>4
  <2>6. \E s \in Seq(Records) : Handles(s)
    BY <2>1, <2>2
  <2> QED
    BY <1>1, <1>3, <1>4, <2>1, <2>5, <2>6, AnswerKeeps
<1> QED
  BY <1>6, <1>7

\* A failed post: the batch waits for the next attempt, or ends with its thread.
LEMMA FailStep ==
    ASSUME IInv, PostFails \/ PostRaises
    PROVE  IInv'
<1>1. /\ UNCHANGED <<position, follower, logs, parsed, dropped, main, stop, restarts>>
      /\ sender \in {"send", "single"} /\ HandledPrefix
      /\ failures < MaxFailures /\ failures' = failures + 1 /\ pending' = << >>
      /\ \/ sender' = "backoff" /\ UNCHANGED <<batch, lost>>
         \/ sender' = "dead" /\ batch' = << >> /\ lost' = ToSet(batch)
  BY DEF PostFails, PostRaises, following, process
<1>2. main # "exited" /\ batch # << >>
  BY <1>1, Attempting
<1>3. /\ Followed' /\ StoredInOrder'
      /\ copies' \in [Records -> Nat] /\ refused' \subseteq Records
      /\ \A r \in Records : Settled(r) => Settled(r)'
      /\ \A r \in Records : copies'[r] <= 1 + failures
  <2>1. UNCHANGED <<copies, refused>> \/ \E s \in Seq(Records) : Handles(s)
    BY <1>1, PrefixHandled
  <2> QED
    BY <1>1, <2>1, HandledRest
<1>4. failures \in Nat /\ MaxFailures \in Nat /\ failures' \in 0..MaxFailures
  <2>1. failures \in Nat /\ MaxFailures \in Nat
    BY Bounds DEF IInv
  <2> QED
    BY <1>1, <2>1
<1>5. TypeOK'
  BY <1>1, <1>3, <1>4, EmptyIs, OnItsWay DEF IInv, TypeOK
<1>6. InOrder'
  BY <1>1, EmptyIs DEF IInv, InOrder
<1>7. \A r \in Records : copies'[r] <= failures'
  BY <1>1, <1>3, <1>4
<1>8. Attempted'
  <2>1. CASE sender' = "backoff" /\ UNCHANGED batch
    BY <1>2, <1>7, <2>1, OnItsWay DEF Attempted
  <2>2. CASE sender' = "dead" /\ batch' = << >>
    BY <2>2, EmptyIs DEF Attempted
  <2> QED
    BY <1>1, <2>1, <2>2
<1>9. NoSilentLoss'
  <2>1. lost = {}
    BY <1>1 DEF IInv, NoSilentLoss
  <2>2. ASSUME NEW r \in parsed PROVE Somewhere(r)'
    <3>1. Somewhere(r) /\ r \in Records
      BY SomewhereIs, OnItsWay DEF IInv
    <3>2. r \in ToSet(batch) => r \in ToSet(batch') \/ r \in lost'
      BY <1>1
    <3> QED
      BY <1>1, <1>3, <2>1, <3>1, <3>2 DEF Somewhere, BeingPut
  <2>3. lost' # {} => sender' = "dead"
    BY <1>1, <2>1
  <2> QED
    BY <1>1, <1>5, <2>2, <2>3, KeepsSomewhere
<1>10. DuplicatesAreRetries' /\ OnlyInvalidDropped'
  <2>1. \A r \in Records : copies'[r] \in Nat /\ failures' \in Nat
    BY <1>3, <1>4
  <2>2. \A r \in Records : copies'[r] <= 1 + failures'
    BY <1>7, <2>1
  <2> QED
    BY <1>1, <2>2 DEF IInv, DuplicatesAreRetries, OnlyInvalidDropped
<1>11. Emptied'
  BY <1>1, <1>2 DEF Emptied
<1> QED
  BY <1>3, <1>5, <1>6, <1>8, <1>9, <1>10, <1>11 DEF IInv

\* The steps of the sender that only change what it is doing: after a failed
\* attempt the whole batch pends again, or is held.
LEMMA SenderStep ==
    ASSUME IInv, PostNoIndices \/ Retry \/ SenderExits
    PROVE  IInv'
<1>1. UNCHANGED <<position, follower, logs, parsed, lost, batch, copies, refused, dropped, main, stop, restarts, failures>>
  BY DEF PostNoIndices, Retry, SenderExits, following, api, process
<1>2. /\ main # "exited" /\ sender # "dead" /\ batch \in Seq(Records) /\ Ordered(batch)
      /\ \/ sender = "send" /\ sender' = "single" /\ pending' = pending
         \/ sender = "backoff" /\ sender' = "send" /\ pending' = batch /\ batch # << >>
         \/ sender = "backoff" /\ sender' = "loop" /\ pending' = << >>
         \/ sender = "loop" /\ sender' = "done" /\ pending' = pending
  BY DEF PostNoIndices, Retry, SenderExits, IInv, Emptied, Attempted, TypeOK, InOrder
<1>3. TypeOK'
  BY <1>1, <1>2, EmptyIs DEF IInv, TypeOK
<1>4. InOrder'
  BY <1>1, <1>2, EmptyIs DEF IInv, InOrder
<1>5. Followed'
  <2>1. \A r \in Records : Unqueued(r)' <=> Unqueued(r)
    BY <1>1 DEF Unqueued
  <2> QED
    BY <1>1, <2>1, OnItsWay DEF IInv, Followed
<1>6. Attempted'
  <2>1. \A r \in Records : Settled(r)' <=> Settled(r)
    BY <1>1 DEF Settled
  <2> QED
    BY <1>1, <1>2, <2>1, OnItsWay DEF IInv, Attempted
<1>7. NoSilentLoss' /\ OnlyInvalidDropped' /\ StoredInOrder' /\ DuplicatesAreRetries'
  <2>1. lost' = {}
    BY <1>1, <1>2 DEF IInv, NoSilentLoss
  <2>2. OnlyInvalidDropped' /\ StoredInOrder' /\ DuplicatesAreRetries'
    BY <1>1 DEF IInv, OnlyInvalidDropped, StoredInOrder, DuplicatesAreRetries, Settled
  <2>3. \A r \in parsed : Somewhere(r)'
    <3>1. \A r \in parsed : Somewhere(r)
      BY SomewhereIs DEF IInv
    <3> QED
      BY <1>1, <3>1 DEF Somewhere, BeingPut, Settled
  <2> QED
    BY <1>1, <1>3, <2>1, <2>2, <2>3, KeepsSomewhere
<1>8. Emptied'
  BY <1>1, <1>2 DEF Emptied
<1> QED
  BY <1>3, <1>4, <1>5, <1>6, <1>7, <1>8 DEF IInv

\* The main thread changes no record.
LEMMA MainStep ==
    ASSUME IInv, LoopTest \/ Discover \/ Signal \/ UNCHANGED vars
    PROVE  IInv'
<1>1. /\ UNCHANGED <<position, logs, parsed, lost, batch, pending, sender, copies, refused, dropped, restarts, failures>>
      /\ main' = "exited" => main = "exited" /\ UNCHANGED follower
  BY DEF LoopTest, Discover, Signal, vars, following, sending, api, process
<1>2. /\ follower' \in [Containers -> {"gone", "reading", "putting"}]
      /\ \A c \in Containers : follower'[c] = "putting" <=> follower[c] = "putting"
  <2>1. follower \in [Containers -> {"gone", "reading", "putting"}]
    BY DEF IInv, TypeOK
  <2>2. CASE UNCHANGED follower
    BY <2>1, <2>2
  <2>3. CASE Discover
    BY <2>1, <2>3 DEF Discover
  <2> QED
    BY <2>2, <2>3 DEF LoopTest, Signal, vars, following
<1>3. TypeOK'
  BY <1>1, <1>2 DEF IInv, TypeOK, LoopTest, Discover, Signal, vars, process
<1>4. Followed'
  <2>1. ASSUME NEW r \in Records, Unqueued(r)' PROVE Unqueued(r)
    <3>1. r[1] \in Containers
      BY RecordIs
    <3> QED
      BY <1>1, <1>2, <2>1, <3>1 DEF Unqueued
  <2> QED
    BY <1>1, <1>2, <2>1, OnItsWay DEF IInv, Followed
<1>5. InOrder' /\ OnlyInvalidDropped'
  BY <1>1 DEF IInv, InOrder, OnlyInvalidDropped
<1>6. Attempted' /\ NoSilentLoss' /\ StoredInOrder' /\ DuplicatesAreRetries'
  <2>1. Attempted' /\ StoredInOrder' /\ DuplicatesAreRetries'
    BY <1>1 DEF IInv, Attempted, StoredInOrder, DuplicatesAreRetries, Settled
  <2>2. ASSUME NEW r \in parsed PROVE Somewhere(r)'
    <3>1. Somewhere(r) /\ r[1] \in Containers
      BY SomewhereIs, OnItsWay, RecordIs DEF IInv
    <3> QED
      BY <1>1, <1>2, <3>1 DEF Somewhere, BeingPut, Settled
  <2>3. lost' # {} => sender' = "dead"
    BY <1>1 DEF IInv, NoSilentLoss
  <2> QED
    BY <1>1, <1>3, <2>1, <2>2, <2>3, KeepsSomewhere
<1>7. Emptied'
  BY <1>1 DEF IInv, Emptied
<1> QED
  BY <1>3, <1>4, <1>5, <1>6, <1>7 DEF IInv

\* The process ends, with what it held, or starts again with nothing.
LEMMA ProcessStep ==
    ASSUME IInv, JoinReturns \/ Dies \/ Restart
    PROVE  IInv'
<1>1. UNCHANGED <<position, copies, refused, dropped, failures>>
  BY DEF JoinReturns, Dies, Restart, ProcessEnds, following, api
<1>2. /\ logs' = << >> /\ parsed' = {} /\ lost' = {} /\ batch' = << >> /\ pending' = << >>
      /\ sender' \in {"done", "loop"} /\ (main' = "exited" => sender' = "done")
      /\ follower' \in [Containers -> {"gone", "reading", "putting"}]
      /\ \A c \in Containers : follower'[c] = "gone"
  <2>1. CASE JoinReturns \/ Dies
    BY <2>1 DEF JoinReturns, Dies, ProcessEnds
  <2>2. CASE Restart
    BY <2>2 DEF Restart, following, IInv, Emptied, TypeOK
  <2> QED
    BY <2>1, <2>2
<1>3. TypeOK'
  <2>1. restarts' \in 0..MaxRestarts
    <3>1. restarts \in 0..MaxRestarts /\ restarts \in Nat /\ MaxRestarts \in Nat
      BY Bounds DEF IInv, TypeOK
    <3> QED
      BY <3>1 DEF JoinReturns, Dies, Restart, ProcessEnds
  <2>2. main' \in {"waiting", "exited"} /\ stop' \in BOOLEAN
    BY DEF JoinReturns, Dies, Restart, ProcessEnds, IInv, TypeOK
  <2>3. QueueSize \in Nat
    BY CollectorAssumption
  <2> QED
    BY <1>1, <1>2, <2>1, <2>2, <2>3, EmptyIs DEF IInv, TypeOK
<1>4. Followed'
  <2>1. ASSUME NEW r \in Records, Unqueued(r)' PROVE Unqueued(r)
    <3>1. r[1] \in Containers
      BY RecordIs
    <3> QED
      BY <1>1, <1>2, <2>1, <3>1 DEF Unqueued
  <2> QED
    BY <1>1, <1>2, <2>1, EmptyIs DEF IInv, Followed
<1>5. InOrder' /\ OnlyInvalidDropped' /\ Attempted' /\ Emptied'
  BY <1>1, <1>2, EmptyIs DEF IInv, InOrder, OnlyInvalidDropped, Attempted, Emptied
<1>6. NoSilentLoss' /\ StoredInOrder' /\ DuplicatesAreRetries'
  BY <1>1, <1>2 DEF IInv, NoSilentLoss, StoredInOrder, DuplicatesAreRetries
<1> QED
  BY <1>3, <1>4, <1>5, <1>6 DEF IInv

LEMMA IInvStep == IInv /\ [Next]_vars => IInv'
<1> SUFFICES ASSUME IInv, [Next]_vars PROVE IInv'
  OBVIOUS
<1>1. CASE \E c \in Containers : Follow(c)
  BY <1>1, ReadStep, PutStep DEF Follow
<1>2. CASE Send
  BY <1>2, TakeStep, SenderStep, PostOkStep, PostIndicesStep, PostSingleStep DEF Send
<1>3. CASE PostFails \/ PostRaises
  BY <1>3, FailStep
<1>4. CASE LoopTest \/ Discover \/ Signal \/ UNCHANGED vars
  BY <1>4, MainStep
<1>5. CASE JoinReturns \/ Dies \/ Restart
  BY <1>5, ProcessStep
<1> QED
  BY <1>1, <1>2, <1>3, <1>4, <1>5 DEF Next

LEMMA IInvHolds == Spec => []IInv
<1>1. Init => IInv
  BY IInvInit
<1>2. IInv /\ [Next]_vars => IInv'
  BY IInvStep
<1> QED
  BY <1>1, <1>2, PTL DEF Spec

----------------------------------------------------------------------------

\* The variables of the collector keep their types, and the queue its maxsize.
THEOREM TypeCorrect == Spec => []TypeOK
<1>1. IInv => TypeOK
  BY DEF IInv
<1> QED
  BY <1>1, IInvHolds, PTL

\* While its process lives, a record that a follower parsed waits for the queue,
\* is on it, in the batch, settled by an answer, or in the one batch that a
\* sender thread held when it died.
THEOREM NothingLost == Spec => []NoSilentLoss
<1>1. IInv => NoSilentLoss
  BY DEF IInv
<1> QED
  BY <1>1, IInvHolds, PTL

\* The 422 recovery, by index or one by one, drops no record the API would take.
THEOREM ValidKept == Spec => []OnlyInvalidDropped
<1>1. IInv => OnlyInvalidDropped
  BY DEF IInv
<1> QED
  BY <1>1, IInvHolds, PTL

\* Through any failures, retries and 422 recoveries, a record is stored only
\* when the earlier ones that were parsed of its container are settled.
THEOREM OrderOfArrival == Spec => []StoredInOrder
<1>1. IInv => StoredInOrder
  BY DEF IInv
<1> QED
  BY <1>1, IInvHolds, PTL

\* A record is stored once, and once more at most for each post that failed.
THEOREM CopiesCounted == Spec => []DuplicatesAreRetries
<1>1. IInv => DuplicatesAreRetries
  BY DEF IInv
<1> QED
  BY <1>1, IInvHolds, PTL
====
