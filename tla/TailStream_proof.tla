---- MODULE TailStream_proof ----
(***************************************************************************)
(* What a tail stream delivers has no gap, no duplicate and no disorder,   *)
(* for all backends, filters, queue sizes and streams.                     *)
(*                                                                         *)
(* Ungapped speaks of the records that are due.  The invariant that carries*)
(* it speaks of all that is on its way, matching or not, because a record  *)
(* of a Redis connection is filtered only when it is fetched; and of the   *)
(* streams that have not subscribed yet, whose way must be empty when they *)
(* do.                                                                     *)
(***************************************************************************)
EXTENDS TailStream, FiniteSetTheorems, SequenceTheorems, TLAPS

-----------------------------------------------------------------------------
(* The inductive invariant *)

Active(s) == task[s] \in {"getting", "got", "raised"} /\ pc[s] # "leaving"

\* What is said of records is said of published ones.
Known == \A s \in Streams : raised \union missed[s] \subseteq 1..published /\ since[s] <= published

\* A stream that has not begun to fetch is not subscribed and holds nothing.
FetchingAt(s) ==
    /\ task[s] \in {"none", "starting"} => s \notin ToSet(subscribers)
    /\ pc[s] = "ready" => task[s] = "none"
    /\ pc[s] = "ready" \/ (task[s] = "starting" /\ pc[s] # "leaving") => ToSet(Way(s)) = {}
Fetching == \A s \in Streams : FetchingAt(s)

\* What an active stream has on its way: in order, since it subscribed, and
\* all that is due up to a point, or for a subscribed stream all that is due.
DeliveringAt(s) ==
    Active(s) =>
        /\ Increasing(Way(s))
        /\ ToSet(Way(s)) \subseteq ((since[s] + 1)..published) \ missed[s]
        /\ \A r \in ToSet(Way(s)) : {d \in Due(s) : d < r} \subseteq ToSet(Way(s))
        /\ s \in ToSet(subscribers) => Due(s) \subseteq ToSet(Way(s))
Delivering == \A s \in Streams : DeliveringAt(s)

IInv == TypeOK /\ Known /\ Fetching /\ Delivering

-----------------------------------------------------------------------------
(* Subsequences *)

\* Indices have different ranks, from one to their number.
LEMMA RankOrders ==
    ASSUME NEW I \in SUBSET Nat, IsFiniteSet(I)
    PROVE  /\ Cardinality(I) \in Nat
           /\ \A i \in I : Rank(I, i) \in 1..Cardinality(I)
           /\ \A i, j \in I : i < j => Rank(I, i) < Rank(I, j)
<1> DEFINE Upto(i) == {k \in I : k <= i}
<1>1. Cardinality(I) \in Nat
  BY FS_CardinalityType
<1>2. ASSUME NEW i \in I
      PROVE  IsFiniteSet(Upto(i)) /\ Rank(I, i) = Cardinality(Upto(i)) /\ Rank(I, i) \in 1..Cardinality(I)
  <2>1. Upto(i) \in SUBSET I /\ i \in Upto(i) /\ Rank(I, i) = Cardinality(Upto(i))
    BY DEF Rank
  <2> HIDE DEF Upto
  <2>2. IsFiniteSet(Upto(i)) /\ Cardinality(Upto(i)) <= Cardinality(I)
        /\ Cardinality(Upto(i)) \in Nat /\ Cardinality(Upto(i)) # 0
    BY <2>1, FS_Subset, FS_CardinalityType, FS_EmptySet
  <2> QED
    BY <1>1, <2>1, <2>2
<1>3. ASSUME NEW i \in I, NEW j \in I, i < j PROVE Rank(I, i) < Rank(I, j)
  <2>1. Upto(i) \in SUBSET Upto(j) /\ j \in Upto(j) /\ j \notin Upto(i)
    <3>1. i \in Nat /\ j \in Nat /\ \A k \in I : k \in Nat
      OBVIOUS
    <3>2. \A k \in I : k <= i => k <= j
      BY <1>3, <3>1
    <3>3. j <= j /\ ~(j <= i)
      BY <1>3, <3>1
    <3> QED
      BY <3>2, <3>3
  <2>2. /\ IsFiniteSet(Upto(j)) /\ Rank(I, i) = Cardinality(Upto(i)) /\ Rank(I, j) = Cardinality(Upto(j))
        /\ Rank(I, i) \in Int /\ Rank(I, j) \in Int
    BY <1>1, <1>2
  <2> HIDE DEF Upto
  <2>3. Rank(I, i) <= Rank(I, j) /\ Rank(I, i) # Rank(I, j)
    BY <2>1, <2>2, FS_Subset
  <2> QED
    BY <2>2, <2>3
<1> QED
  BY <1>1, <1>2, <1>3

\* Place is the inverse of Rank.
LEMMA PlaceInverts ==
    ASSUME NEW I \in SUBSET Nat, IsFiniteSet(I)
    PROVE  /\ \A n \in 1..Cardinality(I) : Place(I, n) \in I /\ Rank(I, Place(I, n)) = n
           /\ \A i \in I : Place(I, Rank(I, i)) = i
           /\ \A m, n \in 1..Cardinality(I) : m < n => Place(I, m) < Place(I, n)
<1> DEFINE N == 1..Cardinality(I)
           rank == [i \in I |-> Rank(I, i)]
<1>1. N \subseteq Nat /\ \A i \in I : Rank(I, i) \in N /\ Rank(I, i) \in Nat
  <2>1. Cardinality(I) \in Nat /\ \A i \in I : Rank(I, i) \in 1..Cardinality(I)
    BY RankOrders
  <2> QED
    BY <2>1
<1>2. ASSUME NEW i \in I, NEW j \in I, Rank(I, i) = Rank(I, j) PROVE i = j
  <2>1. i \in Nat /\ j \in Nat
    OBVIOUS
  <2>2. i < j \/ j < i \/ i = j
    BY <2>1
  <2>3. \A x, y \in I : x < y => Rank(I, x) < Rank(I, y)
    BY RankOrders
  <2>4. ~(Rank(I, i) < Rank(I, i))
    BY <1>1
  <2> QED
    BY <1>2, <2>2, <2>3, <2>4
<1>3. \A n \in N : \E i \in I : Rank(I, i) = n
  <2>1. rank \in [I -> N] /\ \A i \in I : rank[i] = Rank(I, i)
    BY <1>1
  <2>2. IsFiniteSet(N) /\ Cardinality(N) = Cardinality(I)
    <3>1. Cardinality(I) \in Nat
      BY RankOrders
    <3> QED
      BY <3>1, FS_Interval
  <2> HIDE DEF rank, N
  <2>3. rank \in Injection(I, N)
    BY <1>2, <2>1 DEF Injection, IsInjective
  <2>4. rank \in Surjection(I, N)
    BY <2>2, <2>3, FS_Injection
  <2> QED
    BY <2>1, <2>4 DEF Surjection
<1>4. \A n \in N : Place(I, n) \in I /\ Rank(I, Place(I, n)) = n
  BY <1>3 DEF Place
<1>5. \A i \in I : Place(I, Rank(I, i)) = i
  BY <1>1, <1>2, <1>4
<1>6. ASSUME NEW m \in N, NEW n \in N, m < n PROVE Place(I, m) < Place(I, n)
  <2>1. Place(I, m) \in Nat /\ Place(I, n) \in Nat /\ m \in Nat /\ n \in Nat
    BY <1>1, <1>4
  <2>2. CASE Place(I, n) <= Place(I, m)
    <3>1. Place(I, n) < Place(I, m) \/ Place(I, n) = Place(I, m)
      BY <2>1, <2>2
    <3>2. n < m \/ n = m
      BY <1>4, <3>1, RankOrders
    <3> QED
      BY <1>6, <2>1, <3>2
  <2> QED
    BY <2>1, <2>2
<1> QED
  BY <1>4, <1>5, <1>6

\* What is picked is in order, and is all that was to be picked.
LEMMA PickedIs ==
    ASSUME NEW T, NEW s \in Seq(T), NEW I \in SUBSET DOMAIN s
    PROVE  /\ Picked(s, I) \in Seq(T)
           /\ DOMAIN Picked(s, I) = 1..Cardinality(I) /\ Cardinality(I) \in Nat
           /\ \A n \in DOMAIN Picked(s, I) : Place(I, n) \in I /\ Picked(s, I)[n] = s[Place(I, n)]
           /\ \A m, n \in DOMAIN Picked(s, I) : m < n => Place(I, m) < Place(I, n)
           /\ \A i \in I : \E n \in DOMAIN Picked(s, I) : Picked(s, I)[n] = s[i]
<1>1. DOMAIN s = 1..Len(s) /\ Len(s) \in Nat /\ s \in [1..Len(s) -> T]
  BY LenProperties
<1>2. I \subseteq Nat /\ IsFiniteSet(I)
  <2>1. IsFiniteSet(1..Len(s)) /\ I \in SUBSET (1..Len(s))
    BY <1>1, FS_Interval
  <2> QED
    BY <1>1, <2>1, FS_Subset
<1>3. Cardinality(I) \in Nat /\ \A i \in I : Rank(I, i) \in 1..Cardinality(I)
  BY <1>2, RankOrders
<1>4. /\ \A n \in 1..Cardinality(I) : Place(I, n) \in I
      /\ \A m, n \in 1..Cardinality(I) : m < n => Place(I, m) < Place(I, n)
      /\ \A i \in I : Place(I, Rank(I, i)) = i
  BY <1>2, PlaceInverts
<1>5. Picked(s, I) \in [1..Cardinality(I) -> T]
  BY <1>1, <1>4 DEF Picked
<1>6. Picked(s, I) \in Seq(T)
  BY <1>3, <1>5
<1> QED
  BY <1>3, <1>4, <1>6 DEF Picked

-----------------------------------------------------------------------------
(* Sequences *)

\* To unsubscribe streams takes them, and no others, off the subscribers.
LEMMA UnsubscribedIs ==
    ASSUME subscribers \in Seq(Streams), NEW S
    PROVE  /\ Unsubscribed(S) \in Seq(Streams)
           /\ ToSet(Unsubscribed(S)) = ToSet(subscribers) \ S
           /\ IsInjective(subscribers) => IsInjective(Unsubscribed(S))
<1> DEFINE I == {i \in DOMAIN subscribers : subscribers[i] \notin S}
           t == Unsubscribed(S)
<1>1. I \in SUBSET DOMAIN subscribers /\ t = Picked(subscribers, I)
  BY DEF Unsubscribed
<1>2. \A i \in DOMAIN subscribers : i \in I <=> subscribers[i] \notin S
  OBVIOUS
<1> HIDE DEF I, t
<1>3. /\ t \in Seq(Streams) /\ DOMAIN t \subseteq Nat
      /\ \A n \in DOMAIN t : Place(I, n) \in I /\ t[n] = subscribers[Place(I, n)]
      /\ \A m, n \in DOMAIN t : m < n => Place(I, m) < Place(I, n)
      /\ \A i \in I : \E n \in DOMAIN t : t[n] = subscribers[i]
  BY <1>1, PickedIs
<1>4. ASSUME NEW s PROVE s \in ToSet(t) <=> s \in ToSet(subscribers) \ S
  <2>1. ASSUME s \in ToSet(t) PROVE s \in ToSet(subscribers) \ S
    <3>1. PICK n \in DOMAIN t : s = t[n]
      BY <2>1 DEF ToSet
    <3> QED
      BY <1>1, <1>2, <1>3, <3>1 DEF ToSet
  <2>2. ASSUME s \in ToSet(subscribers), s \notin S PROVE s \in ToSet(t)
    <3>1. PICK i \in DOMAIN subscribers : s = subscribers[i]
      BY <2>2 DEF ToSet
    <3>2. i \in I
      BY <1>2, <2>2, <3>1
    <3> QED
      BY <1>3, <3>1, <3>2 DEF ToSet
  <2> QED
    BY <2>1, <2>2
<1>5. ASSUME IsInjective(subscribers), NEW m \in DOMAIN t, NEW n \in DOMAIN t, t[m] = t[n]
      PROVE  m = n
  <2>1. Place(I, m) = Place(I, n) /\ Place(I, m) \in Nat
    <3>1. Place(I, m) \in DOMAIN subscribers /\ Place(I, n) \in DOMAIN subscribers
      BY <1>1, <1>3
    <3>2. DOMAIN subscribers \subseteq Nat
      BY LenProperties
    <3> QED
      BY <1>3, <1>5, <3>1, <3>2 DEF IsInjective
  <2>2. m \in Nat /\ n \in Nat
    BY <1>3
  <2>3. ~(m < n) /\ ~(n < m)
    BY <1>3, <2>1
  <2> QED
    BY <2>2, <2>3
<1>6. IsInjective(subscribers) => IsInjective(t)
  BY <1>5 DEF IsInjective
<1> QED
  BY <1>3, <1>4, <1>6 DEF t

\* The order of two sequences of records, one after the other.
Before(s, t) == \A a \in ToSet(s), b \in ToSet(t) : a < b

LEMMA EmptyIs ==
    /\ << >> \in Seq(Records) /\ Len(<< >>) = 0 /\ ToSet(<< >>) = {}
    /\ Increasing(<< >>) /\ \A t : Before(<< >>, t) /\ Before(t, << >>)
BY DEF ToSet, Increasing, Before

LEMMA OneIs ==
    ASSUME NEW r \in Records
    PROVE  << r >> \in Seq(Records) /\ Len(<< r >>) = 1 /\ ToSet(<< r >>) = {r} /\ Increasing(<< r >>)
<1>1. DOMAIN << r >> = {1} /\ << r >>[1] = r /\ << r >> \in Seq(Records) /\ Len(<< r >>) = 1
  OBVIOUS
<1> QED
  BY <1>1 DEF ToSet, Increasing

LEMMA ConcatIs ==
    ASSUME NEW s \in Seq(Records), NEW t \in Seq(Records)
    PROVE  /\ s \o t \in Seq(Records)
           /\ ToSet(s \o t) = ToSet(s) \union ToSet(t)
           /\ Increasing(s \o t) <=> Increasing(s) /\ Increasing(t) /\ Before(s, t)
<1> DEFINE u == s \o t
           m == Len(s)
           n == Len(t)
<1>1. /\ u \in Seq(Records) /\ m \in Nat /\ n \in Nat
      /\ DOMAIN s = 1..m /\ DOMAIN t = 1..n /\ DOMAIN u = 1..(m + n)
      /\ \A i \in 1..m : u[i] = s[i]
      /\ \A i \in 1..n : u[m + i] = t[i]
  <2>1. u \in Seq(Records) /\ Len(u) = m + n /\ m \in Nat /\ n \in Nat
    OBVIOUS
  <2>2. \A i \in 1..m : u[i] = s[i]
    OBVIOUS
  <2>3. \A i \in 1..n : u[m + i] = t[i]
    OBVIOUS
  <2> QED
    BY <2>1, <2>2, <2>3, LenProperties
<1> HIDE DEF u, m, n
<1>2. ASSUME NEW i \in 1..(m + n)
      PROVE  i \in 1..m \/ (i - m \in 1..n /\ m + (i - m) = i /\ ~(i <= m))
  BY <1>1
<1>3. ToSet(u) = ToSet(s) \union ToSet(t)
  <2>1. ASSUME NEW e \in ToSet(u) PROVE e \in ToSet(s) \/ e \in ToSet(t)
    <3>1. PICK i \in 1..(m + n) : e = u[i]
      BY <1>1 DEF ToSet
    <3>2. CASE i \in 1..m
      BY <1>1, <3>1, <3>2 DEF ToSet
    <3>3. CASE i - m \in 1..n /\ m + (i - m) = i
      <4>1. u[m + (i - m)] = t[i - m]
        BY <1>1, <3>3
      <4> QED
        BY <1>1, <3>1, <3>3, <4>1 DEF ToSet
    <3> QED
      BY <1>2, <3>2, <3>3
  <2>2. ASSUME NEW e \in ToSet(s) PROVE e \in ToSet(u)
    <3>1. PICK i \in 1..m : e = s[i]
      BY <1>1 DEF ToSet
    <3>2. i \in 1..(m + n)
      BY <1>1
    <3> QED
      BY <1>1, <3>1, <3>2 DEF ToSet
  <2>3. ASSUME NEW e \in ToSet(t) PROVE e \in ToSet(u)
    <3>1. PICK i \in 1..n : e = t[i]
      BY <1>1 DEF ToSet
    <3>2. m + i \in 1..(m + n)
      BY <1>1
    <3> QED
      BY <1>1, <3>1, <3>2 DEF ToSet
  <2> QED
    BY <2>1, <2>2, <2>3
<1>4. ASSUME Increasing(u) PROVE Increasing(s) /\ Increasing(t) /\ Before(s, t)
  <2>1. Increasing(s)
    <3>1. \A i \in 1..m : i \in 1..(m + n)
      BY <1>1
    <3> QED
      BY <1>1, <1>4, <3>1 DEF Increasing
  <2>2. Increasing(t)
    <3> SUFFICES ASSUME NEW i \in 1..n, NEW j \in 1..n, i < j PROVE t[i] < t[j]
      BY <1>1 DEF Increasing
    <3>1. m + i \in 1..(m + n) /\ m + j \in 1..(m + n) /\ m + i < m + j
      BY <1>1
    <3> QED
      BY <1>1, <1>4, <3>1 DEF Increasing
  <2>3. Before(s, t)
    <3> SUFFICES ASSUME NEW a \in ToSet(s), NEW b \in ToSet(t) PROVE a < b
      BY DEF Before
    <3>1. PICK i \in 1..m : a = s[i]
      BY <1>1 DEF ToSet
    <3>2. PICK j \in 1..n : b = t[j]
      BY <1>1 DEF ToSet
    <3>3. i \in 1..(m + n) /\ m + j \in 1..(m + n) /\ i < m + j
      BY <1>1
    <3> QED
      BY <1>1, <1>4, <3>1, <3>2, <3>3 DEF Increasing
  <2> QED
    BY <2>1, <2>2, <2>3
<1>5. ASSUME Increasing(s), Increasing(t), Before(s, t) PROVE Increasing(u)
  <2> SUFFICES ASSUME NEW i \in 1..(m + n), NEW j \in 1..(m + n), i < j PROVE u[i] < u[j]
    BY <1>1 DEF Increasing
  <2>1. CASE i \in 1..m /\ j \in 1..m
    BY <1>1, <1>5, <2>1 DEF Increasing
  <2>2. CASE i \in 1..m /\ j - m \in 1..n /\ m + (j - m) = j
    <3>1. u[i] = s[i] /\ u[m + (j - m)] = t[j - m]
      BY <1>1, <2>2
    <3>2. s[i] \in ToSet(s) /\ t[j - m] \in ToSet(t)
      BY <1>1, <2>2 DEF ToSet
    <3> QED
      BY <1>5, <2>2, <3>1, <3>2 DEF Before
  <2>3. CASE i - m \in 1..n /\ m + (i - m) = i /\ j - m \in 1..n /\ m + (j - m) = j
    <3>1. u[m + (i - m)] = t[i - m] /\ u[m + (j - m)] = t[j - m] /\ i - m < j - m
      BY <1>1, <2>3
    <3> QED
      BY <1>1, <1>5, <2>3, <3>1 DEF Increasing
  <2>4. ~(i - m \in 1..n /\ ~(i <= m) /\ j \in 1..m)
    BY <1>1
  <2> QED
    BY <1>2, <2>1, <2>2, <2>3, <2>4
<1> QED
  BY <1>1, <1>3, <1>4, <1>5 DEF u

LEMMA HeadTailIs ==
    ASSUME NEW s \in Seq(Records), s # << >>
    PROVE  /\ Head(s) \in Records /\ Tail(s) \in Seq(Records)
           /\ Len(Tail(s)) = Len(s) - 1 /\ Len(s) \in Nat
           /\ ToSet(s) = {Head(s)} \union ToSet(Tail(s))
           /\ Increasing(s) => Increasing(Tail(s)) /\ Before(<< Head(s) >>, Tail(s))
<1>1. Head(s) \in Records /\ Tail(s) \in Seq(Records) /\ Len(Tail(s)) = Len(s) - 1 /\ Len(s) \in Nat
  BY HeadTailProperties, EmptySeq, LenProperties
<1>2. s = << Head(s) >> \o Tail(s)
  <2> DEFINE u == << Head(s) >> \o Tail(s)
  <2>1. u \in Seq(Records) /\ Len(u) = Len(s)
    BY <1>1, EmptySeq
  <2>2. ASSUME NEW i \in 1..Len(s) PROVE u[i] = s[i]
    <3>1. i = 1 \/ i - 1 \in 1..(Len(s) - 1)
      BY <1>1
    <3>2. Head(s) = s[1] /\ \A j \in 1..(Len(s) - 1) : Tail(s)[j] = s[j + 1]
      BY <1>1, HeadTailProperties
    <3> QED
      BY <1>1, <3>1, <3>2
  <2> HIDE DEF u
  <2>3. u = s
    BY <2>1, <2>2, SeqEqual
  <2> QED
    BY <2>3 DEF u
<1>3. << Head(s) >> \in Seq(Records) /\ ToSet(<< Head(s) >>) = {Head(s)}
  BY <1>1, OneIs
<1>4. /\ ToSet(s) = ToSet(<< Head(s) >>) \union ToSet(Tail(s))
      /\ Increasing(s) => Increasing(Tail(s)) /\ Before(<< Head(s) >>, Tail(s))
  BY <1>1, <1>2, <1>3, ConcatIs
<1> QED
  BY <1>1, <1>3, <1>4

LEMMA AppendIs ==
    ASSUME NEW s \in Seq(Records), NEW r \in Records
    PROVE  /\ Append(s, r) \in Seq(Records) /\ Len(Append(s, r)) = Len(s) + 1
           /\ ToSet(Append(s, r)) = ToSet(s) \union {r}
           /\ Increasing(s) /\ (\A e \in ToSet(s) : e < r) => Increasing(Append(s, r))
<1>1. Append(s, r) = s \o << r >> /\ Append(s, r) \in Seq(Records) /\ Len(Append(s, r)) = Len(s) + 1
  BY AppendIsConcat, AppendProperties
<1>2. << r >> \in Seq(Records) /\ ToSet(<< r >>) = {r} /\ Increasing(<< r >>)
  BY OneIs
<1>3. (\A e \in ToSet(s) : e < r) => Before(s, << r >>)
  BY <1>2 DEF Before
<1> DEFINE u == s \o << r >>
<1>4. /\ ToSet(u) = ToSet(s) \union {r}
      /\ Increasing(s) /\ (\A e \in ToSet(s) : e < r) => Increasing(u)
  BY <1>2, <1>3, ConcatIs
<1>5. Append(s, r) = u
  BY <1>1
<1> HIDE DEF u
<1> QED
  BY <1>1, <1>4, <1>5

-----------------------------------------------------------------------------
(* The way of a stream *)

LEMMA FourIs ==
    ASSUME NEW a \in Seq(Records), NEW b \in Seq(Records), NEW c \in Seq(Records), NEW d \in Seq(Records)
    PROVE  /\ ToSet(a \o b \o c \o d) = ToSet(a) \union ToSet(b) \union ToSet(c) \union ToSet(d)
           /\ Increasing(a \o b \o c \o d) <=>
                /\ Increasing(a) /\ Increasing(b) /\ Increasing(c) /\ Increasing(d)
                /\ Before(a, b) /\ Before(a, c) /\ Before(a, d)
                /\ Before(b, c) /\ Before(b, d) /\ Before(c, d)
<1>1. /\ a \o b \in Seq(Records) /\ ToSet(a \o b) = ToSet(a) \union ToSet(b)
      /\ Increasing(a \o b) <=> Increasing(a) /\ Increasing(b) /\ Before(a, b)
  BY ConcatIs
<1> DEFINE e == a \o b
<1> HIDE DEF e
<1>2. e \in Seq(Records)
  BY <1>1 DEF e
<1>3. /\ e \o c \in Seq(Records) /\ ToSet(e \o c) = ToSet(e) \union ToSet(c)
      /\ Increasing(e \o c) <=> Increasing(e) /\ Increasing(c) /\ Before(e, c)
  BY <1>2, ConcatIs
<1> DEFINE f == e \o c
<1> HIDE DEF f
<1>4. f \in Seq(Records)
  BY <1>3 DEF f
<1>5. /\ ToSet(f \o d) = ToSet(f) \union ToSet(d)
      /\ Increasing(f \o d) <=> Increasing(f) /\ Increasing(d) /\ Before(f, d)
  BY <1>4, ConcatIs
<1>6. /\ ToSet(e) = ToSet(a) \union ToSet(b)
      /\ Increasing(e) <=> Increasing(a) /\ Increasing(b) /\ Before(a, b)
  BY <1>1 DEF e
<1>7. /\ ToSet(f) = ToSet(e) \union ToSet(c)
      /\ Increasing(f) <=> Increasing(e) /\ Increasing(c) /\ Before(e, c)
  BY <1>3 DEF f
<1>8. Before(e, c) <=> Before(a, c) /\ Before(b, c)
  BY <1>6 DEF Before
<1>9. Before(f, d) <=> Before(a, d) /\ Before(b, d) /\ Before(c, d)
  BY <1>6, <1>7 DEF Before
<1>10. ToSet(f \o d) = ToSet(a) \union ToSet(b) \union ToSet(c) \union ToSet(d)
  BY <1>5, <1>6, <1>7
<1>11. Increasing(f \o d) <=>
                /\ Increasing(a) /\ Increasing(b) /\ Increasing(c) /\ Increasing(d)
                /\ Before(a, b) /\ Before(a, c) /\ Before(a, d)
                /\ Before(b, c) /\ Before(b, d) /\ Before(c, d)
  BY <1>5, <1>6, <1>7, <1>8, <1>9
<1> QED
  BY <1>10, <1>11 DEF e, f

LEMMA PartsTyped ==
    ASSUME TypeOK, NEW s \in Streams
    PROVE  /\ delivered[s] \in Seq(Records) /\ sending[s] \in Seq(Records)
           /\ held[s] \in Seq(Records) /\ queue[s] \in Seq(Records)
           /\ task[s] # "got" => held[s] = << >>
           /\ pc[s] # "sending" => sending[s] = << >>
           /\ task[s] = "got" => \E r \in Records : held[s] = << r >>
<1>1. /\ delivered[s] \in Seq(Records) /\ sending[s] \in Seq(Records)
      /\ held[s] \in Seq(Records) /\ queue[s] \in Seq(Records)
  BY DEF TypeOK
<1>2. task[s] # "got" => held[s] = << >>
  BY <1>1, EmptySeq DEF TypeOK
<1>3. pc[s] # "sending" => sending[s] = << >>
  BY <1>1, EmptySeq DEF TypeOK
<1>4. ASSUME task[s] = "got" PROVE \E r \in Records : held[s] = << r >>
  <2>1. Len(held[s]) = 1
    BY <1>4 DEF TypeOK
  <2>2. held[s][1] \in Records
    BY <1>1, <2>1, ElementOfSeq
  <2>3. held[s] = << held[s][1] >>
    BY <1>1, <2>1, <2>2
  <2> QED
    BY <2>2, <2>3
<1> QED
  BY <1>1, <1>2, <1>3, <1>4

LEMMA WayIs ==
    ASSUME TypeOK, NEW s \in Streams
    PROVE  /\ ToSet(Way(s)) = ToSet(delivered[s]) \union ToSet(sending[s]) \union ToSet(held[s]) \union ToSet(queue[s])
           /\ ToSet(Way(s)) \subseteq Records
           /\ Increasing(Way(s)) <=>
                /\ Increasing(delivered[s]) /\ Increasing(sending[s]) /\ Increasing(held[s]) /\ Increasing(queue[s])
                /\ Before(delivered[s], sending[s]) /\ Before(delivered[s], held[s]) /\ Before(delivered[s], queue[s])
                /\ Before(sending[s], held[s]) /\ Before(sending[s], queue[s]) /\ Before(held[s], queue[s])
<1>1. \A t \in Seq(Records) : ToSet(t) \subseteq Records
  BY LenProperties, ElementOfSeq DEF ToSet
<1>2. /\ delivered[s] \in Seq(Records) /\ sending[s] \in Seq(Records)
      /\ held[s] \in Seq(Records) /\ queue[s] \in Seq(Records)
  BY PartsTyped
<1>3. Way(s) = delivered[s] \o sending[s] \o held[s] \o queue[s]
  BY DEF Way
<1> DEFINE a == delivered[s]
           b == sending[s]
           c == held[s]
           d == queue[s]
<1> HIDE DEF a, b, c, d
<1>4. a \in Seq(Records) /\ b \in Seq(Records) /\ c \in Seq(Records) /\ d \in Seq(Records)
  BY <1>2 DEF a, b, c, d
<1>5. /\ ToSet(a \o b \o c \o d) = ToSet(a) \union ToSet(b) \union ToSet(c) \union ToSet(d)
      /\ Increasing(a \o b \o c \o d) <=>
                /\ Increasing(a) /\ Increasing(b) /\ Increasing(c) /\ Increasing(d)
                /\ Before(a, b) /\ Before(a, c) /\ Before(a, d)
                /\ Before(b, c) /\ Before(b, d) /\ Before(c, d)
  BY <1>4, FourIs
<1>6. ToSet(Way(s)) = ToSet(delivered[s]) \union ToSet(sending[s]) \union ToSet(held[s]) \union ToSet(queue[s])
  BY <1>3, <1>5 DEF a, b, c, d
<1>7. ToSet(Way(s)) \subseteq Records
  BY <1>1, <1>2, <1>6
<1> QED
  BY <1>3, <1>5, <1>6, <1>7 DEF a, b, c, d

LEMMA NextWayIs ==
    ASSUME TypeOK', NEW s \in Streams
    PROVE  /\ ToSet(Way(s))' = ToSet(delivered'[s]) \union ToSet(sending'[s]) \union ToSet(held'[s]) \union ToSet(queue'[s])
           /\ Increasing(Way(s))' <=>
                /\ Increasing(delivered'[s]) /\ Increasing(sending'[s]) /\ Increasing(held'[s]) /\ Increasing(queue'[s])
                /\ Before(delivered'[s], sending'[s]) /\ Before(delivered'[s], held'[s]) /\ Before(delivered'[s], queue'[s])
                /\ Before(sending'[s], held'[s]) /\ Before(sending'[s], queue'[s]) /\ Before(held'[s], queue'[s])
<1>1. delivered'[s] \in Seq(Records) /\ sending'[s] \in Seq(Records) /\ held'[s] \in Seq(Records) /\ queue'[s] \in Seq(Records)
  BY DEF TypeOK
<1> QED
  BY <1>1, FourIs DEF Way

LEMMA MatchIs ==
    ASSUME NEW s, NEW r
    PROVE  RecordMatchesTail(s, r) \in {"yes", "no", "raises"}
BY DEF RecordMatchesTail

\* A step that moves what is on the way keeps its order and loses nothing that
\* is due keeps what is said of the stream.
LEMMA WayKept ==
    ASSUME IInv, NEW s \in Streams, UNCHANGED <<filter, published, raised, missed>>, since'[s] = since[s],
           s \in ToSet(subscribers') => s \in ToSet(subscribers),
           Active(s)' => Active(s),
           Increasing(Way(s)) => Increasing(Way(s))',
           ToSet(Way(s))' \subseteq ToSet(Way(s)),
           \A r \in ToSet(Way(s)) : RecordMatchesTail(s, r) = "yes" => r \in ToSet(Way(s))'
    PROVE  DeliveringAt(s)'
<1>1. \A r : RecordMatchesTail(s, r)' = RecordMatchesTail(s, r)
  BY DEF RecordMatchesTail
<1>2. Due(s)' = Due(s) /\ \A d \in Due(s) : RecordMatchesTail(s, d) = "yes"
  BY <1>1 DEF Due
<1>3. CASE Active(s)'
  <2>1. /\ Increasing(Way(s))
        /\ ToSet(Way(s)) \subseteq ((since[s] + 1)..published) \ missed[s]
        /\ \A r \in ToSet(Way(s)) : {d \in Due(s) : d < r} \subseteq ToSet(Way(s))
        /\ s \in ToSet(subscribers) => Due(s) \subseteq ToSet(Way(s))
    BY <1>3 DEF IInv, Delivering, DeliveringAt
  <2>2. /\ Increasing(Way(s))'
        /\ ToSet(Way(s))' \subseteq ((since'[s] + 1)..published') \ missed'[s]
    BY <2>1
  <2>3. \A r \in ToSet(Way(s))' : {d \in Due(s)' : d < r} \subseteq ToSet(Way(s))'
    BY <1>2, <2>1
  <2>4. s \in ToSet(subscribers') => Due(s)' \subseteq ToSet(Way(s))'
    BY <1>2, <2>1
  <2> QED
    BY <2>2, <2>3, <2>4 DEF DeliveringAt
<1>4. CASE ~Active(s)'
  BY <1>4 DEF DeliveringAt
<1> QED
  BY <1>3, <1>4

\* A step of one stream does not touch what is said of the others.
Elsewhere(s) ==
    \A u \in Streams \ {s} :
        /\ task'[u] = task[u] /\ pc'[u] = pc[u] /\ since'[u] = since[u]
        /\ delivered'[u] = delivered[u] /\ sending'[u] = sending[u]
        /\ held'[u] = held[u] /\ queue'[u] = queue[u]
        /\ u \in ToSet(subscribers') <=> u \in ToSet(subscribers)

LEMMA StepKeeps ==
    ASSUME IInv, TypeOK', NEW s \in Streams, UNCHANGED <<filter, published, raised, missed>>,
           Elsewhere(s), since'[s] <= published, FetchingAt(s)', DeliveringAt(s)'
    PROVE  IInv'
<1>1. Known'
  BY DEF IInv, Known, Elsewhere
<1>2. ASSUME NEW u \in Streams \ {s} PROVE FetchingAt(u)' /\ DeliveringAt(u)'
  <2>1. Way(u)' = Way(u)
    BY DEF Elsewhere, Way
  <2>2. Active(u)' <=> Active(u)
    BY DEF Elsewhere, Active
  <2>3. FetchingAt(u)'
    BY <2>1 DEF IInv, Fetching, FetchingAt, Elsewhere
  <2>4. ToSet(Way(u))' = ToSet(Way(u)) /\ (Increasing(Way(u))' <=> Increasing(Way(u)))
    BY <2>1 DEF ToSet, Increasing
  <2>5. DeliveringAt(u)'
    BY <2>2, <2>4, WayKept DEF Elsewhere
  <2> QED
    BY <2>3, <2>5
<1> QED
  BY <1>1, <1>2 DEF IInv, Fetching, Delivering

-----------------------------------------------------------------------------
(* Publishing *)

\* What a publish does, on either backend: the streams of S get the record on
\* their queues; one that stays subscribed and is not in S is not due it.
Publishes(S, r) ==
    /\ S \subseteq ToSet(subscribers)
    /\ queue' = [u \in Streams |-> IF u \in S THEN Append(queue[u], r) ELSE queue[u]]
    /\ backend = "memory" => \A u \in S : Len(queue[u]) < QueueSize
    /\ subscribers' \in Seq(Streams) /\ IsInjective(subscribers')
    /\ ToSet(subscribers') \subseteq ToSet(subscribers)
    /\ raised' \in {raised, raised \union {r}}
    /\ missed' \in [Streams -> SUBSET Records]
    /\ \A u \in Streams : /\ missed'[u] \in {missed[u], missed[u] \union {r}}
                          /\ u \in S => missed'[u] = missed[u]
    /\ \A u \in ToSet(subscribers') :
         RecordMatchesTail(u, r) = "yes" /\ r \notin raised' \union missed'[u] => u \in S

LEMMA SubscribersTyped ==
    ASSUME TypeOK
    PROVE  subscribers \in Seq(Streams) /\ ToSet(subscribers) \subseteq Streams
<1>1. subscribers \in Seq(Streams)
  BY DEF TypeOK
<1> QED
  BY <1>1, LenProperties, ElementOfSeq DEF ToSet

LEMMA CountsTyped ==
    ASSUME TypeOK
    PROVE  /\ published \in Nat /\ published <= MaxRecords /\ MaxRecords \in Nat /\ QueueSize \in Nat \ {0}
           /\ \A s \in Streams : since[s] \in Nat /\ since[s] <= MaxRecords
           /\ \A s \in Streams : queue[s] \in Seq(Records) /\ Len(queue[s]) \in Nat
           /\ \A r \in Records : r \in Nat
<1>1. MaxRecords \in Nat /\ QueueSize \in Nat \ {0}
  BY TailStreamAssumption
<1>2. published \in 0..MaxRecords /\ since \in [Streams -> 0..MaxRecords] /\ queue \in [Streams -> Seq(Records)]
  BY DEF TypeOK
<1>3. \A s \in Streams : queue[s] \in Seq(Records) /\ Len(queue[s]) \in Nat
  BY <1>2, LenProperties
<1> QED
  BY <1>1, <1>2, <1>3 DEF Records

LEMMA PublishIs ==
    ASSUME IInv, Publish
    PROVE  \E S \in SUBSET Streams : Publishes(S, published')
<1> PICK r : r = published'
  OBVIOUS
<1>1. /\ subscribers \in Seq(Streams) /\ ToSet(subscribers) \subseteq Streams /\ IsInjective(subscribers)
      /\ missed \in [Streams -> SUBSET Records]
  BY SubscribersTyped DEF IInv, TypeOK
<1>2. r \in Records
  BY CountsTyped DEF IInv, Publish, Records
<1>3. CASE PublishMemory(r)
  <2> DEFINE S == Takers(r) \ Full(Takers(r))
  <2>1. Takers(r) \subseteq ToSet(subscribers)
    BY DEF Takers, ToSet
  <2>2. /\ queue' = [u \in Streams |-> IF u \in S THEN Append(queue[u], r) ELSE queue[u]]
        /\ UNCHANGED missed
    BY <1>3 DEF PublishMemory, Enqueue
  <2>3. \A u \in S : Len(queue[u]) < QueueSize
    <3> SUFFICES ASSUME NEW u \in S PROVE Len(queue[u]) < QueueSize
      OBVIOUS
    <3>1. ~(Len(queue[u]) >= QueueSize) /\ u \in Streams
      BY <1>1, <2>1 DEF Full
    <3>2. Len(queue[u]) \in Nat /\ QueueSize \in Nat
      BY <3>1, CountsTyped DEF IInv
    <3> QED
      BY <3>1, <3>2
  <2>4. CASE Raising(r) = {}
    <3>1. subscribers' = Unsubscribed(Full(Takers(r))) /\ UNCHANGED raised
      BY <1>3, <2>4 DEF PublishMemory
    <3>2. /\ subscribers' \in Seq(Streams) /\ IsInjective(subscribers')
          /\ ToSet(subscribers') = ToSet(subscribers) \ Full(Takers(r))
      BY <1>1, <3>1, UnsubscribedIs
    <3>3. ASSUME NEW u \in ToSet(subscribers), RecordMatchesTail(u, r) = "yes" PROVE u \in Takers(r)
      BY <2>4, <3>3 DEF Takers, ToSet
    <3> HIDE DEF S
    <3>4. \A u \in ToSet(subscribers') : RecordMatchesTail(u, r) = "yes" => u \in S
      BY <3>2, <3>3 DEF S
    <3> QED
      BY <1>1, <2>1, <2>2, <2>3, <3>1, <3>2, <3>4 DEF Publishes, S
  <2>5. CASE Raising(r) # {}
    <3>1. raised' = raised \union {r} /\ UNCHANGED subscribers
      BY <1>3, <2>5 DEF PublishMemory
    <3> QED
      BY <1>1, <2>1, <2>2, <2>3, <3>1 DEF Publishes
  <2> QED
    BY <2>4, <2>5
<1>4. CASE PublishRedis(r)
  <2>1. PICK S \in SUBSET ToSet(subscribers) :
           /\ queue' = [u \in Streams |-> IF u \in S THEN Append(queue[u], r) ELSE queue[u]]
           /\ missed' = [u \in Streams |-> IF u \in ToSet(subscribers) \ S THEN missed[u] \union {r}
                                           ELSE missed[u]]
    BY <1>4 DEF PublishRedis, Enqueue
  <2>2. UNCHANGED <<subscribers, raised>> /\ backend = "redis"
    BY <1>4 DEF PublishRedis
  <2>3. missed' \in [Streams -> SUBSET Records]
    BY <1>1, <1>2, <2>1
  <2>4. \A u \in Streams : u \in ToSet(subscribers) \ S => r \in missed'[u]
    BY <2>1
  <2> QED
    BY <1>1, <2>1, <2>2, <2>3, <2>4 DEF Publishes
<1> QED
  BY <1>3, <1>4 DEF Publish

LEMMA PublishStep ==
    ASSUME IInv, Publish
    PROVE  IInv'
<1> PICK r : r = published'
  OBVIOUS
<1>1. PICK S \in SUBSET Streams : Publishes(S, r)
  BY PublishIs
<1>2. /\ r = published + 1 /\ r \in Records /\ published' \in 0..MaxRecords /\ published \in Nat /\ r \in Nat
      /\ UNCHANGED <<backend, filter, since, task, held, pc, sending, late, delivered>>
  BY CountsTyped DEF IInv, Publish, Records, loop
<1>3. /\ \A u \in Streams : queue'[u] = IF u \in S THEN Append(queue[u], r) ELSE queue[u]
      /\ \A u \in S : u \in Streams
  BY <1>1 DEF Publishes
<1>4. ASSUME NEW u \in Streams
      PROVE  /\ queue[u] \in Seq(Records) /\ queue'[u] \in Seq(Records)
             /\ ToSet(queue'[u]) = ToSet(queue[u]) \union (IF u \in S THEN {r} ELSE {})
             /\ backend = "memory" => Len(queue'[u]) <= QueueSize
             /\ Increasing(queue[u]) /\ (\A e \in ToSet(queue[u]) : e < r) => Increasing(queue'[u])
  <2>1. queue[u] \in Seq(Records) /\ Len(queue[u]) \in Nat /\ QueueSize \in Nat
    BY CountsTyped DEF IInv
  <2>2. CASE u \in S
    <3>1. queue'[u] = Append(queue[u], r) /\ (backend = "memory" => Len(queue[u]) < QueueSize)
      BY <1>1, <1>3, <2>2 DEF Publishes
    <3>2. /\ queue'[u] \in Seq(Records) /\ Len(queue'[u]) = Len(queue[u]) + 1
          /\ ToSet(queue'[u]) = ToSet(queue[u]) \union {r}
          /\ Increasing(queue[u]) /\ (\A e \in ToSet(queue[u]) : e < r) => Increasing(queue'[u])
      BY <1>2, <2>1, <3>1, AppendIs
    <3>3. backend = "memory" => Len(queue'[u]) <= QueueSize
      BY <2>1, <3>1, <3>2
    <3> QED
      BY <2>1, <2>2, <3>2, <3>3
  <2>3. CASE u \notin S
    <3>1. queue'[u] = queue[u]
      BY <1>3, <2>3
    <3> QED
      BY <2>1, <2>3, <3>1 DEF IInv, TypeOK
  <2> QED
    BY <2>2, <2>3
<1>5. TypeOK'
  <2>1. queue' \in [Streams -> Seq(Records)]
    BY <1>1, <1>4 DEF Publishes
  <2>2. subscribers' \in Seq(Streams) /\ IsInjective(subscribers') /\ missed' \in [Streams -> SUBSET Records]
    BY <1>1 DEF Publishes
  <2>3. raised' \subseteq Records
    BY <1>1, <1>2 DEF Publishes, IInv, TypeOK
  <2> QED
    BY <1>2, <1>4, <2>1, <2>2, <2>3 DEF IInv, TypeOK
<1>6. ASSUME NEW u \in Streams
      PROVE  /\ raised \subseteq raised' /\ raised' \subseteq raised \union {r}
             /\ missed[u] \subseteq missed'[u] /\ missed'[u] \subseteq missed[u] \union {r}
             /\ u \in S => missed'[u] = missed[u]
             /\ u \in ToSet(subscribers') => u \in ToSet(subscribers)
             /\ u \in S => u \in ToSet(subscribers)
  BY <1>1 DEF Publishes
<1>7. Known'
  <2>1. \A x \in 1..published : x \in 1..r
    BY <1>2
  <2>2. r \in 1..r
    BY <1>2
  <2>3. \A u \in Streams : since[u] <= r
    BY <1>2, CountsTyped DEF IInv, Known
  <2> QED
    BY <1>2, <1>6, <2>1, <2>2, <2>3 DEF IInv, Known
<1>8. ASSUME NEW u \in Streams
      PROVE  /\ ToSet(Way(u))' = ToSet(Way(u)) \union (IF u \in S THEN {r} ELSE {})
             /\ Increasing(Way(u)) /\ (\A e \in ToSet(Way(u)) : e < r) => Increasing(Way(u))'
  <2>1. ToSet(Way(u))' = ToSet(Way(u)) \union (IF u \in S THEN {r} ELSE {})
    BY <1>2, <1>4, <1>5, NextWayIs, WayIs DEF IInv
  <2>2. ASSUME Increasing(Way(u)), \A e \in ToSet(Way(u)) : e < r PROVE Increasing(Way(u))'
    <3>1. /\ Increasing(delivered[u]) /\ Increasing(sending[u]) /\ Increasing(held[u]) /\ Increasing(queue[u])
          /\ Before(delivered[u], sending[u]) /\ Before(delivered[u], held[u]) /\ Before(delivered[u], queue[u])
          /\ Before(sending[u], held[u]) /\ Before(sending[u], queue[u]) /\ Before(held[u], queue[u])
          /\ ToSet(Way(u)) = ToSet(delivered[u]) \union ToSet(sending[u]) \union ToSet(held[u]) \union ToSet(queue[u])
      BY <2>2, WayIs DEF IInv
    <3>2. Increasing(queue'[u])
      BY <1>4, <2>2, <3>1
    <3>3. Before(delivered[u], queue'[u]) /\ Before(sending[u], queue'[u]) /\ Before(held[u], queue'[u])
      BY <1>4, <2>2, <3>1 DEF Before
    <3> QED
      BY <1>2, <1>5, <3>1, <3>2, <3>3, NextWayIs
  <2> QED
    BY <2>1, <2>2
<1>9. Fetching'
  <2> SUFFICES ASSUME NEW u \in Streams PROVE FetchingAt(u)'
    BY DEF Fetching
  <2>1. FetchingAt(u)
    BY DEF IInv, Fetching
  <2> QED
    BY <1>2, <1>6, <1>8, <2>1 DEF FetchingAt
<1>10. Delivering'
  <2> SUFFICES ASSUME NEW u \in Streams, Active(u) PROVE DeliveringAt(u)'
    BY <1>2 DEF Delivering, DeliveringAt, Active
  <2>1. /\ Increasing(Way(u))
        /\ ToSet(Way(u)) \subseteq ((since[u] + 1)..published) \ missed[u]
        /\ \A w \in ToSet(Way(u)) : {d \in Due(u) : d < w} \subseteq ToSet(Way(u))
        /\ u \in ToSet(subscribers) => Due(u) \subseteq ToSet(Way(u))
    BY DEF IInv, Delivering, DeliveringAt
  <2>2. since[u] \in Nat /\ since[u] <= published /\ raised \union missed[u] \subseteq 1..published
    BY CountsTyped DEF IInv, Known
  <2>3. \A e \in (since[u] + 1)..published : e \in (since'[u] + 1)..published' /\ e < r /\ e # r
    BY <1>2, <2>2
  <2>4. r \in (since'[u] + 1)..published' /\ r \notin raised \union missed[u]
    BY <1>2, <2>2
  <2>5. \A d : RecordMatchesTail(u, d)' = RecordMatchesTail(u, d)
    BY <1>2 DEF RecordMatchesTail
  <2>6. ASSUME NEW d \in Due(u)'
        PROVE  d \in Due(u) \/ (d = r /\ RecordMatchesTail(u, r) = "yes" /\ r \notin raised' \union missed'[u])
    <3>1. /\ d \in (since[u] + 1)..r /\ RecordMatchesTail(u, d) = "yes"
          /\ d \notin missed'[u] \union raised'
      BY <1>2, <2>5 DEF Due
    <3>2. d = r \/ d \in (since[u] + 1)..published
      BY <1>2, <2>2, <3>1
    <3> QED
      BY <1>6, <3>1, <3>2 DEF Due
  <2>7. Increasing(Way(u))'
    BY <1>8, <2>1, <2>3
  <2>8. ToSet(Way(u))' \subseteq ((since'[u] + 1)..published') \ missed'[u]
    BY <1>6, <1>8, <2>1, <2>3, <2>4
  <2>9. ASSUME NEW w \in ToSet(Way(u))', NEW d \in Due(u)', d < w PROVE d \in ToSet(Way(u))'
    <3>1. CASE w \in ToSet(Way(u))
      <4>1. w < r
        BY <2>1, <2>3, <3>1
      <4>2. d # r
        <5>1. w \in Nat
          BY <2>1, <2>2, <3>1
        <5> QED
          BY <1>2, <2>9, <4>1, <5>1
      <4> QED
        BY <1>8, <2>1, <2>6, <2>9, <3>1, <4>2
    <3>2. CASE w = r /\ u \in S
      BY <1>6, <1>8, <2>1, <2>6, <3>2
    <3> QED
      BY <1>8, <3>1, <3>2
  <2>10. ASSUME u \in ToSet(subscribers'), NEW d \in Due(u)' PROVE d \in ToSet(Way(u))'
    <3>1. u \in ToSet(subscribers) /\ Due(u) \subseteq ToSet(Way(u))
      BY <1>6, <2>1, <2>10
    <3>2. d = r /\ d \notin Due(u) => u \in S
      BY <1>1, <2>6, <2>10 DEF Publishes
    <3> QED
      BY <1>8, <2>6, <3>1, <3>2
  <2> QED
    BY <2>7, <2>8, <2>9, <2>10 DEF DeliveringAt
<1> QED
  BY <1>5, <1>7, <1>9, <1>10 DEF IInv

-----------------------------------------------------------------------------
(* The fetch and the loop *)

LEMMA SubscribeStep ==
    ASSUME IInv, NEW s \in Streams, Subscribe(s)
    PROVE  IInv'
<1>1. /\ UNCHANGED <<backend, filter, published, raised, missed, queue, held, pc, sending, late, delivered>>
      /\ subscribers' = Append(subscribers, s) /\ since' = [since EXCEPT ![s] = published]
      /\ task[s] = "starting" /\ task' = [task EXCEPT ![s] = "getting"]
  BY DEF Subscribe, Become, loop
<1>2. s \notin ToSet(subscribers) /\ pc[s] # "ready" /\ (pc[s] # "leaving" => ToSet(Way(s)) = {})
  BY <1>1 DEF IInv, Fetching, FetchingAt
<1>3. subscribers \in Seq(Streams) /\ IsInjective(subscribers) /\ task \in [Streams -> {"none", "starting", "getting", "got", "raised", "abandoned"}]
      /\ since \in [Streams -> 0..MaxRecords] /\ published \in 0..MaxRecords /\ published \in Nat
  BY CountsTyped DEF IInv, TypeOK
<1>4. /\ subscribers' \in Seq(Streams) /\ Len(subscribers) \in Nat
      /\ DOMAIN subscribers = 1..Len(subscribers) /\ DOMAIN subscribers' = 1..(Len(subscribers) + 1)
      /\ \A i \in 1..Len(subscribers) : subscribers'[i] = subscribers[i]
      /\ subscribers'[Len(subscribers) + 1] = s
  BY <1>1, <1>3, AppendProperties, LenProperties
<1>5. ToSet(subscribers') = ToSet(subscribers) \union {s}
  BY <1>4 DEF ToSet
<1>6. IsInjective(subscribers')
  <2> SUFFICES ASSUME NEW i \in DOMAIN subscribers', NEW j \in DOMAIN subscribers', subscribers'[i] = subscribers'[j]
               PROVE  i = j
    BY DEF IsInjective
  <2>1. \A k \in 1..Len(subscribers) : subscribers'[k] # s
    BY <1>2, <1>4 DEF ToSet
  <2>2. i \in 1..Len(subscribers) \/ i = Len(subscribers) + 1
    BY <1>4
  <2>3. j \in 1..Len(subscribers) \/ j = Len(subscribers) + 1
    BY <1>4
  <2> QED
    BY <1>3, <1>4, <2>1, <2>2, <2>3 DEF IsInjective
<1>7. TypeOK'
  BY <1>1, <1>3, <1>4, <1>6 DEF IInv, TypeOK
<1>8. Way(s)' = Way(s)
  BY <1>1 DEF Way
<1>9. FetchingAt(s)'
  BY <1>1, <1>2, <1>3 DEF FetchingAt
<1>10. DeliveringAt(s)'
  <2> SUFFICES ASSUME Active(s)' PROVE DeliveringAt(s)'
    BY DEF DeliveringAt
  <2>1. ToSet(Way(s)) = {} /\ ToSet(Way(s))' = {}
    BY <1>1, <1>2, <1>8 DEF Active, ToSet
  <2>2. Increasing(Way(s))'
    BY <1>8, <2>1 DEF Increasing, ToSet
  <2>3. since'[s] = published
    BY <1>1, <1>3
  <2>4. (since'[s] + 1)..published' = {}
    BY <1>1, <1>3, <2>3
  <2>5. Due(s)' = {}
    BY <2>4 DEF Due
  <2> QED
    BY <2>1, <2>2, <2>5 DEF DeliveringAt
<1>11. Elsewhere(s)
  BY <1>1, <1>3, <1>5 DEF Elsewhere
<1>12. since'[s] <= published
  BY <1>1, <1>3
<1> QED
  BY <1>1, <1>7, <1>9, <1>10, <1>11, <1>12, StepKeeps

\* The steps of stream s, but its subscription: what they may change.
Own(s) ==
    /\ UNCHANGED <<backend, filter, published, raised, missed, since>>
    /\ \A u \in Streams \ {s} :
        /\ task'[u] = task[u] /\ pc'[u] = pc[u]
        /\ delivered'[u] = delivered[u] /\ sending'[u] = sending[u]
        /\ held'[u] = held[u] /\ queue'[u] = queue[u]
    /\ subscribers' = subscribers \/ subscribers' = Unsubscribed({s})
    /\ late' \subseteq Streams

LEMMA SubscribersOwn ==
    ASSUME IInv, NEW s \in Streams, Own(s)
    PROVE  /\ subscribers' \in Seq(Streams) /\ IsInjective(subscribers')
           /\ Elsewhere(s) /\ since'[s] = since[s] /\ since'[s] <= published
           /\ ToSet(subscribers') \subseteq ToSet(subscribers)
           /\ subscribers' = Unsubscribed({s}) => s \notin ToSet(subscribers')
<1>1. subscribers \in Seq(Streams) /\ IsInjective(subscribers)
  BY DEF IInv, TypeOK
<1>2. /\ Unsubscribed({s}) \in Seq(Streams) /\ IsInjective(Unsubscribed({s}))
      /\ ToSet(Unsubscribed({s})) = ToSet(subscribers) \ {s}
  BY <1>1, UnsubscribedIs
<1>3. /\ subscribers' \in Seq(Streams) /\ IsInjective(subscribers')
      /\ ToSet(subscribers') \subseteq ToSet(subscribers)
      /\ \A u \in Streams \ {s} : u \in ToSet(subscribers') <=> u \in ToSet(subscribers)
      /\ subscribers' = Unsubscribed({s}) => s \notin ToSet(subscribers')
  BY <1>1, <1>2 DEF Own
<1>4. since'[s] = since[s] /\ since'[s] <= published
  BY DEF Own, IInv, Known
<1>5. Elsewhere(s)
  BY <1>3 DEF Own, Elsewhere
<1> QED
  BY <1>3, <1>4, <1>5

Tasks == {"none", "starting", "getting", "got", "raised", "abandoned"}
Places == {"ready", "waiting", "sending", "beating", "closing", "leaving"} \union Ends

\* Such a step keeps the types when it does for s.
LEMMA OwnTyped ==
    ASSUME IInv, NEW s \in Streams, Own(s),
           task' \in [Streams -> Tasks], pc' \in [Streams -> Places],
           queue' \in [Streams -> Seq(Records)], Len(queue'[s]) <= Len(queue[s]),
           held' \in [Streams -> Seq(Records)], Len(held'[s]) = IF task'[s] = "got" THEN 1 ELSE 0,
           sending' \in [Streams -> Seq(Records)], Len(sending'[s]) = IF pc'[s] = "sending" THEN 1 ELSE 0,
           delivered' \in [Streams -> Seq(Records)]
    PROVE  TypeOK'
<1>1. backend' = "memory" => \A u \in Streams : Len(queue'[u]) <= QueueSize
  <2> SUFFICES ASSUME backend = "memory", NEW u \in Streams PROVE Len(queue'[u]) <= QueueSize
    BY DEF Own
  <2>1. CASE u # s
    BY <2>1 DEF Own, IInv, TypeOK
  <2>2. CASE u = s
    <3>1. Len(queue[s]) <= QueueSize /\ Len(queue[s]) \in Nat /\ QueueSize \in Nat
      BY CountsTyped DEF IInv, TypeOK
    <3>2. Len(queue'[s]) \in Nat
      BY LenProperties
    <3> QED
      BY <2>2, <3>1, <3>2
  <2> QED
    BY <2>1, <2>2
<1>2. \A u \in Streams : Len(held'[u]) = IF task'[u] = "got" THEN 1 ELSE 0
  BY DEF Own, IInv, TypeOK
<1>3. \A u \in Streams : Len(sending'[u]) = IF pc'[u] = "sending" THEN 1 ELSE 0
  BY DEF Own, IInv, TypeOK
<1>4. UNCHANGED <<backend, filter, published, raised, missed, since>> /\ late' \subseteq Streams
  BY DEF Own
<1> QED
  BY <1>1, <1>2, <1>3, <1>4, SubscribersOwn DEF IInv, TypeOK, Tasks, Places


LEMMA Typed ==
    ASSUME IInv
    PROVE  /\ task \in [Streams -> Tasks] /\ pc \in [Streams -> Places]
           /\ queue \in [Streams -> Seq(Records)] /\ held \in [Streams -> Seq(Records)]
           /\ sending \in [Streams -> Seq(Records)] /\ delivered \in [Streams -> Seq(Records)]
           /\ late \subseteq Streams
BY DEF IInv, TypeOK, Tasks, Places

LEMMA GetStep ==
    ASSUME IInv, NEW s \in Streams, Get(s)
    PROVE  IInv'
<1> USE Typed
<1> PICK r \in Records, q \in Seq(Records) : r = Head(queue[s]) /\ q = Tail(queue[s])
  BY HeadTailIs DEF Get
<1>1. /\ UNCHANGED <<backend, filter, published, raised, missed, since, pc, sending, late, delivered>>
      /\ task[s] = "getting" /\ queue' = [queue EXCEPT ![s] = q]
      /\ \/ /\ task' = [task EXCEPT ![s] = "got"] /\ held' = [held EXCEPT ![s] = << r >>]
            /\ UNCHANGED subscribers
         \/ /\ RecordMatchesTail(s, r) = "no" /\ UNCHANGED <<task, held, subscribers>>
         \/ /\ RecordMatchesTail(s, r) = "raises" /\ task' = [task EXCEPT ![s] = "raised"]
            /\ subscribers' = Unsubscribed({s}) /\ UNCHANGED held
  BY DEF Get, Become, loop
<1>2. /\ ToSet(queue[s]) = {r} \union ToSet(q) /\ Len(q) = Len(queue[s]) - 1 /\ Len(queue[s]) \in Nat
      /\ Increasing(queue[s]) => Increasing(q) /\ Before(<< r >>, q)
  <2>1. queue[s] # << >> /\ queue[s] \in Seq(Records)
    BY DEF Get
  <2> QED
    BY <2>1, HeadTailIs
<1>3. << r >> \in Seq(Records) /\ Len(<< r >>) = 1 /\ ToSet(<< r >>) = {r} /\ Increasing(<< r >>)
  BY OneIs
<1>4. held[s] = << >>
  BY <1>1, PartsTyped DEF IInv
<1>5. /\ queue'[s] = q /\ queue' \in [Streams -> Seq(Records)] /\ \A u \in Streams \ {s} : queue'[u] = queue[u]
      /\ Len(q) <= Len(queue[s])
  BY <1>1, <1>2
<1>6. /\ task' \in [Streams -> Tasks] /\ held' \in [Streams -> Seq(Records)]
      /\ \A u \in Streams \ {s} : task'[u] = task[u] /\ held'[u] = held[u]
      /\ \/ task'[s] = "got" /\ held'[s] = << r >>
         \/ task'[s] \in {"getting", "raised"} /\ held'[s] = << >> /\ RecordMatchesTail(s, r) # "yes"
  BY <1>1, <1>3, <1>4 DEF Tasks
<1>7. Own(s)
  BY <1>1, <1>5, <1>6 DEF Own
<1>8. TypeOK'
  <2>1. Len(held'[s]) = IF task'[s] = "got" THEN 1 ELSE 0
    BY <1>3, <1>6, EmptyIs
  <2>2. Len(sending'[s]) = IF pc'[s] = "sending" THEN 1 ELSE 0
    BY <1>1 DEF IInv, TypeOK
  <2> QED
    BY <1>1, <1>5, <1>6, <1>7, <2>1, <2>2, OwnTyped
<1>9. FetchingAt(s)'
  <2>1. pc'[s] # "ready" /\ task'[s] \in {"got", "getting", "raised"}
    BY <1>1, <1>6 DEF IInv, Fetching, FetchingAt
  <2> QED
    BY <2>1 DEF FetchingAt
<1>10. DeliveringAt(s)'
  <2>1. ToSet(held'[s]) \union ToSet(q) \subseteq ToSet(queue[s])
    BY <1>2, <1>3, <1>6, EmptyIs
  <2>2. ToSet(Way(s))' \subseteq ToSet(Way(s))
    BY <1>1, <1>5, <1>8, <2>1, WayIs, NextWayIs DEF IInv
  <2>3. ASSUME NEW d \in ToSet(Way(s)), RecordMatchesTail(s, d) = "yes" PROVE d \in ToSet(Way(s))'
    <3>1. d \in ToSet(delivered[s]) \union ToSet(sending[s]) \union ToSet(q) \union {r}
      BY <1>2, <1>4, EmptyIs, WayIs DEF IInv
    <3>2. d = r => d \in ToSet(held'[s])
      BY <1>3, <1>6, <2>3
    <3> QED
      BY <1>1, <1>5, <1>8, <3>1, <3>2, NextWayIs
  <2>4. ASSUME Increasing(Way(s)) PROVE Increasing(Way(s))'
    <3>1. /\ Increasing(delivered[s]) /\ Increasing(sending[s]) /\ Increasing(queue[s])
          /\ Before(delivered[s], sending[s]) /\ Before(delivered[s], queue[s]) /\ Before(sending[s], queue[s])
      BY <2>4, WayIs DEF IInv
    <3>2. Increasing(q) /\ Before(<< r >>, q)
      BY <1>2, <3>1
    <3>3. Increasing(held'[s]) /\ Before(held'[s], q)
      BY <1>3, <1>6, <3>2, EmptyIs
    <3>4. /\ Before(delivered[s], held'[s]) /\ Before(delivered[s], q)
          /\ Before(sending[s], held'[s]) /\ Before(sending[s], q)
      BY <2>1, <3>1 DEF Before
    <3> QED
      BY <1>1, <1>5, <1>8, <3>1, <3>2, <3>3, <3>4, NextWayIs
  <2>5. Active(s)' => Active(s)
    BY <1>1 DEF Active
  <2> QED
    BY <1>1, <1>7, <2>2, <2>3, <2>4, <2>5, SubscribersOwn, WayKept
<1> QED
  BY <1>1, <1>7, <1>8, <1>9, <1>10, SubscribersOwn, StepKeeps

\* A command that raises, before the stream has subscribed or after.
LEMMA GetRaisesStep ==
    ASSUME IInv, NEW s \in Streams, GetRaises(s)
    PROVE  IInv'
<1> USE Typed
<1>1. /\ UNCHANGED <<backend, filter, published, raised, missed, since, queue, held, pc, sending, late, delivered>>
      /\ task[s] \in {"starting", "getting"} /\ task' = [task EXCEPT ![s] = "raised"]
      /\ subscribers' = Unsubscribed({s})
  BY DEF GetRaises, Become, loop
<1>2. task'[s] = "raised" /\ task' \in [Streams -> Tasks] /\ \A u \in Streams \ {s} : task'[u] = task[u]
  BY <1>1 DEF Tasks
<1>3. Own(s)
  BY <1>1, <1>2 DEF Own
<1>4. TypeOK'
  <2>1. Len(held'[s]) = 0 /\ Len(sending'[s]) = IF pc'[s] = "sending" THEN 1 ELSE 0
    BY <1>1 DEF IInv, TypeOK
  <2>2. Len(queue'[s]) <= Len(queue[s])
    BY <1>1, CountsTyped DEF IInv
  <2> QED
    BY <1>1, <1>2, <1>3, <2>1, <2>2, OwnTyped
<1>5. FetchingAt(s)'
  BY <1>1, <1>2 DEF IInv, Fetching, FetchingAt
<1>6. Way(s)' = Way(s) /\ s \notin ToSet(subscribers')
  BY <1>1, <1>3, SubscribersOwn DEF Way
<1>7. ToSet(Way(s))' = ToSet(Way(s)) /\ (Increasing(Way(s))' <=> Increasing(Way(s)))
  BY <1>6 DEF ToSet, Increasing
<1>8. DeliveringAt(s)'
  <2>1. CASE task[s] = "getting"
    <3>1. Active(s)' => Active(s)
      BY <1>1, <2>1 DEF Active
    <3> QED
      BY <1>1, <1>3, <1>7, <3>1, SubscribersOwn, WayKept
  <2>2. CASE task[s] = "starting"
    <3>1. Active(s)' => ToSet(Way(s)) = {}
      BY <1>1, <2>2 DEF IInv, Fetching, FetchingAt, Active
    <3>2. ToSet(Way(s)) = {} => Increasing(Way(s))'
      BY <1>6 DEF ToSet, Increasing
    <3> QED
      BY <1>6, <1>7, <3>1, <3>2 DEF DeliveringAt
  <2> QED
    BY <1>1, <2>1, <2>2
<1> QED
  BY <1>1, <1>3, <1>4, <1>5, <1>8, SubscribersOwn, StepKeeps

\* A step after which the stream is not active.
LEMMA InactiveKeeps ==
    ASSUME IInv, TypeOK', NEW s \in Streams, Own(s), FetchingAt(s)', ~(Active(s)')
    PROVE  IInv'
<1>1. DeliveringAt(s)'
  BY DEF DeliveringAt
<1> QED
  BY <1>1, SubscribersOwn, StepKeeps DEF Own

\* A step that moves records along the way of a stream.
LEMMA MovingKeeps ==
    ASSUME IInv, TypeOK', NEW s \in Streams, Own(s), FetchingAt(s)', Active(s)' => Active(s),
           Increasing(Way(s)) => Increasing(Way(s))', ToSet(Way(s))' = ToSet(Way(s))
    PROVE  IInv'
<1>1. DeliveringAt(s)'
  BY SubscribersOwn, WayKept DEF Own
<1> QED
  BY <1>1, SubscribersOwn, StepKeeps DEF Own

\* The stream ends, or its client has gone: nothing more is said of it.
LEMMA EndStep ==
    ASSUME IInv, NEW s \in Streams, Finalize(s) \/ Disconnect(s) \/ Raise(s) \/ End(s)
    PROVE  IInv'
<1> USE Typed
<1>1. CASE Finalize(s)
  <2>1. /\ UNCHANGED <<backend, filter, published, raised, missed, since, held, pc, sending, late, delivered>>
        /\ task[s] = "abandoned" /\ task' = [task EXCEPT ![s] = "none"]
        /\ subscribers' = Unsubscribed({s}) /\ queue' = [queue EXCEPT ![s] = << >>]
    BY <1>1 DEF Finalize, Become, loop
  <2>2. /\ task'[s] = "none" /\ task' \in [Streams -> Tasks] /\ \A u \in Streams \ {s} : task'[u] = task[u]
        /\ queue'[s] = << >> /\ queue' \in [Streams -> Seq(Records)] /\ \A u \in Streams \ {s} : queue'[u] = queue[u]
    BY <2>1, EmptyIs DEF Tasks
  <2>3. Own(s)
    BY <2>1, <2>2 DEF Own
  <2>4. TypeOK'
    <3>1. Len(held'[s]) = 0 /\ Len(sending'[s]) = IF pc'[s] = "sending" THEN 1 ELSE 0
      BY <2>1 DEF IInv, TypeOK
    <3>2. Len(queue'[s]) <= Len(queue[s])
      BY <2>2, EmptyIs, CountsTyped DEF IInv
    <3> QED
      BY <2>1, <2>2, <2>3, <3>1, <3>2, OwnTyped
  <2>5. FetchingAt(s)'
    <3>1. pc'[s] # "ready"
      BY <2>1 DEF IInv, Fetching, FetchingAt
    <3> QED
      BY <2>1, <2>2, <2>3, <3>1, SubscribersOwn DEF FetchingAt
  <2> QED
    BY <2>2, <2>3, <2>4, <2>5, InactiveKeeps DEF Active
<1>2. CASE Disconnect(s) \/ Raise(s)
  <2>1. /\ UNCHANGED <<backend, filter, published, raised, missed, since, subscribers, queue, task, held, late, delivered>>
        /\ pc' = [pc EXCEPT ![s] = "leaving"]
        /\ sending' = [sending EXCEPT ![s] = << >>] \/ (UNCHANGED sending /\ pc[s] = "waiting")
    BY <1>2 DEF Disconnect, Raise, Goto, hub
  <2>2. /\ pc'[s] = "leaving" /\ pc' \in [Streams -> Places] /\ \A u \in Streams \ {s} : pc'[u] = pc[u]
        /\ sending'[s] = << >> /\ sending' \in [Streams -> Seq(Records)]
        /\ \A u \in Streams \ {s} : sending'[u] = sending[u]
    BY <2>1, EmptyIs, PartsTyped DEF Places, IInv
  <2>3. Own(s)
    BY <2>1, <2>2 DEF Own
  <2>4. TypeOK'
    <3>1. /\ Len(held'[s]) = IF task'[s] = "got" THEN 1 ELSE 0
          /\ Len(sending'[s]) = IF pc'[s] = "sending" THEN 1 ELSE 0
      BY <2>1, <2>2, EmptyIs DEF IInv, TypeOK
    <3>2. Len(queue'[s]) <= Len(queue[s])
      BY <2>1, CountsTyped DEF IInv
    <3> QED
      BY <2>1, <2>2, <2>3, <3>1, <3>2, OwnTyped
  <2>5. FetchingAt(s)'
    BY <2>1, <2>2 DEF IInv, Fetching, FetchingAt
  <2> QED
    BY <2>2, <2>3, <2>4, <2>5, InactiveKeeps DEF Active
<1>3. CASE End(s)
  <2> PICK l \in Ends : l = IF task[s] = "raised" THEN "failed" ELSE "closed"
    BY DEF Ends
  <2>1. /\ UNCHANGED <<backend, filter, published, raised, missed, since, sending, late, delivered>>
        /\ pc[s] \in {"closing", "leaving"} /\ pc' = [pc EXCEPT ![s] = l] /\ held' = [held EXCEPT ![s] = << >>]
        /\ \/ task' = [task EXCEPT ![s] = "abandoned"] /\ UNCHANGED <<subscribers, queue>>
           \/ /\ task' = [task EXCEPT ![s] = "none"] /\ subscribers' = Unsubscribed({s})
              /\ queue' = [queue EXCEPT ![s] = << >>]
    BY <1>3 DEF End, Become, Goto
  <2>2. /\ task'[s] \in {"none", "abandoned"} /\ task' \in [Streams -> Tasks]
        /\ \A u \in Streams \ {s} : task'[u] = task[u]
        /\ queue' \in [Streams -> Seq(Records)] /\ \A u \in Streams \ {s} : queue'[u] = queue[u]
        /\ queue'[s] = << >> \/ queue'[s] = queue[s]
        /\ task'[s] = "none" => subscribers' = Unsubscribed({s})
    BY <2>1, EmptyIs DEF Tasks
  <2>3. /\ pc'[s] = l /\ pc' \in [Streams -> Places] /\ \A u \in Streams \ {s} : pc'[u] = pc[u]
        /\ held'[s] = << >> /\ held' \in [Streams -> Seq(Records)] /\ \A u \in Streams \ {s} : held'[u] = held[u]
    BY <2>1, EmptyIs DEF Places
  <2>4. Own(s)
    BY <2>1, <2>2, <2>3 DEF Own
  <2>5. TypeOK'
    <3>1. Len(held'[s]) = 0 /\ task'[s] # "got"
      BY <2>2, <2>3, EmptyIs
    <3>2. Len(sending'[s]) = 0 /\ pc'[s] # "sending"
      BY <2>1, <2>3, EmptyIs, PartsTyped DEF IInv, Ends
    <3>3. Len(queue'[s]) <= Len(queue[s])
      BY <2>2, EmptyIs, CountsTyped DEF IInv
    <3> QED
      BY <2>1, <2>2, <2>3, <2>4, <3>1, <3>2, <3>3, OwnTyped
  <2>6. FetchingAt(s)'
    BY <2>2, <2>3, <2>4, SubscribersOwn DEF FetchingAt, Ends
  <2> QED
    BY <2>2, <2>4, <2>5, <2>6, InactiveKeeps DEF Active
<1> QED
  BY <1>1, <1>2, <1>3

\* The first fetch is created: nothing is on the way yet.
LEMMA BeginStep ==
    ASSUME IInv, NEW s \in Streams, Begin(s)
    PROVE  IInv'
<1> USE Typed
<1>1. /\ UNCHANGED <<backend, filter, published, raised, missed, since, subscribers, queue, held, sending, late, delivered>>
      /\ pc[s] = "ready" /\ pc' = [pc EXCEPT ![s] = "waiting"] /\ task' = [task EXCEPT ![s] = "starting"]
  BY DEF Begin, Become, Goto, hub
<1>2. /\ task'[s] = "starting" /\ task' \in [Streams -> Tasks] /\ \A u \in Streams \ {s} : task'[u] = task[u]
      /\ pc'[s] = "waiting" /\ pc' \in [Streams -> Places] /\ \A u \in Streams \ {s} : pc'[u] = pc[u]
  BY <1>1 DEF Tasks, Places
<1>3. task[s] = "none" /\ ToSet(Way(s)) = {} /\ s \notin ToSet(subscribers)
  BY <1>1 DEF IInv, Fetching, FetchingAt
<1>4. Own(s)
  BY <1>1, <1>2 DEF Own
<1>5. TypeOK'
  <2>1. Len(held'[s]) = 0 /\ Len(sending'[s]) = 0
    BY <1>1, <1>3 DEF IInv, TypeOK
  <2>2. Len(queue'[s]) <= Len(queue[s])
    BY <1>1, CountsTyped DEF IInv
  <2> QED
    BY <1>1, <1>2, <1>4, <2>1, <2>2, OwnTyped
<1>6. FetchingAt(s)'
  <2>1. Way(s)' = Way(s)
    BY <1>1 DEF Way
  <2> QED
    BY <1>1, <1>2, <1>3, <2>1 DEF FetchingAt, ToSet
<1> QED
  BY <1>2, <1>4, <1>5, <1>6, InactiveKeeps DEF Active

\* The record that was fetched goes into an event.
LEMMA HandOverStep ==
    ASSUME IInv, NEW s \in Streams, Take(s)
    PROVE  IInv'
<1> USE Typed
<1>1. /\ UNCHANGED <<backend, filter, published, raised, missed, since, subscribers, queue, delivered>>
      /\ pc[s] = "waiting" /\ task[s] = "got" /\ pc' = [pc EXCEPT ![s] = "sending"]
      /\ task' = [task EXCEPT ![s] = "getting"] /\ late' = late \ {s}
      /\ sending' = [sending EXCEPT ![s] = held[s]] /\ held' = [held EXCEPT ![s] = << >>]
  BY DEF Take, Become, Goto, hub
<1>2. /\ task'[s] = "getting" /\ task' \in [Streams -> Tasks] /\ \A u \in Streams \ {s} : task'[u] = task[u]
      /\ pc'[s] = "sending" /\ pc' \in [Streams -> Places] /\ \A u \in Streams \ {s} : pc'[u] = pc[u]
  BY <1>1 DEF Tasks, Places
<1>3. /\ sending'[s] = held[s] /\ held'[s] = << >> /\ sending[s] = << >>
      /\ sending' \in [Streams -> Seq(Records)] /\ held' \in [Streams -> Seq(Records)]
      /\ \A u \in Streams \ {s} : sending'[u] = sending[u] /\ held'[u] = held[u]
  BY <1>1, EmptyIs, PartsTyped DEF IInv
<1>4. Own(s)
  BY <1>1, <1>2, <1>3 DEF Own
<1>5. TypeOK'
  <2>1. /\ Len(held'[s]) = IF task'[s] = "got" THEN 1 ELSE 0
        /\ Len(sending'[s]) = IF pc'[s] = "sending" THEN 1 ELSE 0
    BY <1>1, <1>2, <1>3, EmptyIs DEF IInv, TypeOK
  <2>2. Len(queue'[s]) <= Len(queue[s])
    BY <1>1, CountsTyped DEF IInv
  <2> QED
    BY <1>1, <1>2, <1>3, <1>4, <2>1, <2>2, OwnTyped
<1>6. FetchingAt(s)'
  BY <1>2 DEF FetchingAt
<1>7. ToSet(Way(s))' = ToSet(Way(s))
  <2>1. ToSet(Way(s)) = ToSet(delivered[s]) \union ToSet(held[s]) \union ToSet(queue[s])
    BY <1>3, EmptyIs, WayIs DEF IInv
  <2>2. ToSet(Way(s))' = ToSet(delivered'[s]) \union ToSet(sending'[s]) \union ToSet(queue'[s])
    BY <1>3, <1>5, EmptyIs, NextWayIs
  <2> QED
    BY <1>1, <1>3, <2>1, <2>2
<1>8. Increasing(Way(s)) => Increasing(Way(s))'
  BY <1>1, <1>3, <1>5, EmptyIs, WayIs, NextWayIs DEF IInv
<1>9. Active(s)' => Active(s)
  BY <1>1 DEF Active
<1> QED
  BY <1>4, <1>5, <1>6, <1>7, <1>8, <1>9, MovingKeeps

\* The client takes an event, which is a heartbeat when it holds no record.
LEMMA SentStep ==
    ASSUME IInv, NEW s \in Streams, Sent(s)
    PROVE  IInv'
<1> USE Typed
<1> PICK l \in {"closing", "waiting"} : l = IF s \in late THEN "closing" ELSE "waiting"
  OBVIOUS
<1>1. /\ UNCHANGED <<backend, filter, published, raised, missed, since, subscribers, queue, task, held, late>>
      /\ pc[s] \in {"sending", "beating"} /\ pc' = [pc EXCEPT ![s] = l]
      /\ delivered' = [delivered EXCEPT ![s] = @ \o sending[s]] /\ sending' = [sending EXCEPT ![s] = << >>]
  BY DEF Sent, Goto, hub
<1>2. /\ ToSet(delivered[s] \o sending[s]) = ToSet(delivered[s]) \union ToSet(sending[s])
      /\ delivered[s] \o sending[s] \in Seq(Records)
      /\ Increasing(delivered[s] \o sending[s]) <=>
           Increasing(delivered[s]) /\ Increasing(sending[s]) /\ Before(delivered[s], sending[s])
  BY PartsTyped, ConcatIs DEF IInv
<1> PICK d \in Seq(Records) : d = delivered[s] \o sending[s]
  BY <1>2
<1>3. /\ pc'[s] = l /\ pc' \in [Streams -> Places] /\ \A u \in Streams \ {s} : pc'[u] = pc[u]
      /\ sending'[s] = << >> /\ delivered'[s] = d
      /\ sending' \in [Streams -> Seq(Records)] /\ delivered' \in [Streams -> Seq(Records)]
      /\ \A u \in Streams \ {s} : sending'[u] = sending[u] /\ delivered'[u] = delivered[u]
  <2>1. delivered' = [delivered EXCEPT ![s] = d]
    BY <1>1
  <2> QED
    BY <1>1, <2>1, EmptyIs DEF Places
<1>4. Own(s)
  BY <1>1, <1>3 DEF Own
<1>5. TypeOK'
  <2>1. /\ Len(held'[s]) = IF task'[s] = "got" THEN 1 ELSE 0
        /\ Len(sending'[s]) = IF pc'[s] = "sending" THEN 1 ELSE 0
    BY <1>1, <1>3, EmptyIs DEF IInv, TypeOK
  <2>2. Len(queue'[s]) <= Len(queue[s])
    BY <1>1, CountsTyped DEF IInv
  <2> QED
    BY <1>1, <1>3, <1>4, <2>1, <2>2, OwnTyped
<1>6. ToSet(d) = ToSet(delivered[s]) \union ToSet(sending[s])
  BY <1>2
<1>7. ToSet(Way(s))' = ToSet(Way(s))
  <2>1. ToSet(Way(s)) = ToSet(delivered[s]) \union ToSet(sending[s]) \union ToSet(held[s]) \union ToSet(queue[s])
    BY WayIs DEF IInv
  <2>2. ToSet(Way(s))' = ToSet(delivered'[s]) \union ToSet(held'[s]) \union ToSet(queue'[s])
    BY <1>3, <1>5, EmptyIs, NextWayIs
  <2>3. ToSet(delivered'[s]) = ToSet(delivered[s]) \union ToSet(sending[s])
    BY <1>3, <1>6
  <2> QED
    BY <1>1, <2>1, <2>2, <2>3
<1>8. Increasing(Way(s)) => Increasing(Way(s))'
  <2>1. ASSUME NEW t, Before(delivered[s], t), Before(sending[s], t) PROVE Before(d, t)
    BY <1>6, <2>1 DEF Before
  <2>2. Increasing(d) <=> Increasing(delivered[s]) /\ Increasing(sending[s]) /\ Before(delivered[s], sending[s])
    BY <1>2
  <2> SUFFICES ASSUME Increasing(Way(s)) PROVE Increasing(Way(s))'
    OBVIOUS
  <2>3. /\ Increasing(delivered[s]) /\ Increasing(sending[s]) /\ Increasing(held[s]) /\ Increasing(queue[s])
        /\ Before(delivered[s], sending[s]) /\ Before(delivered[s], held[s]) /\ Before(delivered[s], queue[s])
        /\ Before(sending[s], held[s]) /\ Before(sending[s], queue[s]) /\ Before(held[s], queue[s])
    BY WayIs DEF IInv
  <2>4. Increasing(d) /\ Before(d, held[s]) /\ Before(d, queue[s])
    BY <2>1, <2>2, <2>3
  <2>5. /\ delivered'[s] = d /\ sending'[s] = << >> /\ held'[s] = held[s] /\ queue'[s] = queue[s]
        /\ Increasing(<< >>) /\ \A t : Before(<< >>, t) /\ Before(t, << >>)
    BY <1>1, <1>3, EmptyIs
  <2> QED
    BY <1>5, <2>3, <2>4, <2>5, NextWayIs
<1>9. Active(s)' => Active(s)
  BY <1>1 DEF Active
<1>10. FetchingAt(s)'
  BY <1>1, <1>3, <1>7 DEF IInv, Fetching, FetchingAt
<1> QED
  BY <1>4, <1>5, <1>7, <1>8, <1>9, <1>10, MovingKeeps

\* The clock moves nothing.
LEMMA ClockStep ==
    ASSUME IInv, NEW s \in Streams, Beat(s) \/ Deadline(s)
    PROVE  IInv'
<1> USE Typed
<1>1. /\ UNCHANGED <<backend, filter, published, raised, missed, since, subscribers, queue, task, held, sending, delivered>>
      /\ late' \subseteq Streams
      /\ pc' = pc \/ (pc[s] = "waiting" /\ pc' = [pc EXCEPT ![s] = "beating"])
  BY DEF Beat, Deadline, Goto, hub
<1>2. /\ pc' \in [Streams -> Places] /\ \A u \in Streams \ {s} : pc'[u] = pc[u]
      /\ pc'[s] = pc[s] \/ (pc[s] = "waiting" /\ pc'[s] = "beating")
  BY <1>1 DEF Places
<1>3. Own(s)
  BY <1>1, <1>2 DEF Own
<1>4. TypeOK'
  <2>1. Len(held'[s]) = (IF task'[s] = "got" THEN 1 ELSE 0) /\ Len(sending'[s]) = IF pc'[s] = "sending" THEN 1 ELSE 0
    BY <1>1, <1>2 DEF IInv, TypeOK
  <2>2. Len(queue'[s]) <= Len(queue[s])
    BY <1>1, CountsTyped DEF IInv
  <2> QED
    BY <1>1, <1>2, <1>3, <2>1, <2>2, OwnTyped
<1>5. ToSet(Way(s))' = ToSet(Way(s)) /\ (Increasing(Way(s))' <=> Increasing(Way(s)))
  BY <1>1 DEF Way, ToSet, Increasing
<1>6. FetchingAt(s)'
  BY <1>1, <1>2, <1>5 DEF IInv, Fetching, FetchingAt
<1>7. Active(s)' => Active(s)
  BY <1>1, <1>2 DEF Active
<1> QED
  BY <1>3, <1>4, <1>5, <1>6, <1>7, MovingKeeps

LEMMA IInvInit == Init => IInv
<1> SUFFICES ASSUME Init PROVE IInv
  OBVIOUS
<1>1. MaxRecords \in Nat /\ QueueSize \in Nat
  BY TailStreamAssumption
<1>2. [backend |-> backend, filter |-> filter] \in Workloads
  <2>1. PICK w \in Workloads : backend = w.backend /\ filter = w.filter
    BY DEF Init
  <2>2. PICK S \in SUBSET Streams : w \in [backend : {"memory", "redis"}, filter : [S -> Filters]]
    BY <2>1, TailStreamAssumption
  <2>3. w = [backend |-> w.backend, filter |-> w.filter]
    BY <2>2
  <2> QED
    BY <2>1, <2>3
<1>3. << >> \in Seq(Streams) /\ IsInjective(<< >>) /\ ToSet(<< >>) = {}
  BY DEF IsInjective, ToSet
<1>4. TypeOK
  BY <1>1, <1>2, <1>3, EmptyIs DEF Init, TypeOK, Ends
<1>5. Known
  BY DEF Init, Known
<1>6. ASSUME NEW s \in Streams PROVE ToSet(Way(s)) = {} /\ task[s] = "none"
  <2>1. delivered[s] = << >> /\ sending[s] = << >> /\ held[s] = << >> /\ queue[s] = << >> /\ task[s] = "none"
    BY DEF Init
  <2> QED
    BY <1>4, <2>1, EmptyIs, WayIs
<1>7. Fetching
  <2>1. ToSet(subscribers) = {}
    BY <1>3 DEF Init
  <2> QED
    BY <1>6, <2>1 DEF Fetching, FetchingAt
<1>8. Delivering
  BY <1>6 DEF Delivering, DeliveringAt, Active
<1> QED
  BY <1>4, <1>5, <1>7, <1>8 DEF IInv

LEMMA IInvStep == IInv /\ [Next]_vars => IInv'
<1> SUFFICES ASSUME IInv, [Next]_vars PROVE IInv'
  OBVIOUS
<1>1. CASE Publish
  BY <1>1, PublishStep
<1>2. ASSUME NEW s \in Streams, Fetch(s) \/ GetRaises(s) PROVE IInv'
  BY <1>2, SubscribeStep, GetStep, GetRaisesStep, EndStep DEF Fetch
<1>3. ASSUME NEW s \in Streams, Run(s) \/ Beat(s) \/ Deadline(s) \/ Disconnect(s) PROVE IInv'
  BY <1>3, BeginStep, HandOverStep, SentStep, EndStep, ClockStep DEF Run
<1>4. CASE UNCHANGED vars
  <2>1. /\ UNCHANGED <<backend, filter, published, raised, missed, subscribers, since, queue, task, held>>
        /\ UNCHANGED <<pc, sending, late, delivered>>
    BY <1>4 DEF vars, hub, loop
  <2>2. TypeOK' /\ Known'
    BY <2>1 DEF IInv, TypeOK, Known
  <2>3. \A s \in Streams : Way(s)' = Way(s) /\ Due(s)' = Due(s) /\ (Active(s)' <=> Active(s))
    BY <2>1 DEF Way, Due, Active, RecordMatchesTail
  <2>4. Fetching'
    BY <2>1, <2>3 DEF IInv, Fetching, FetchingAt
  <2>5. Delivering'
    BY <2>1, <2>3 DEF IInv, Delivering, DeliveringAt
  <2> QED
    BY <2>2, <2>4, <2>5 DEF IInv
<1> QED
  BY <1>1, <1>2, <1>3, <1>4 DEF Next

LEMMA IInvHolds == Spec => []IInv
<1>1. Init => IInv
  BY IInvInit
<1>2. IInv /\ [Next]_vars => IInv'
  BY IInvStep
<1> QED
  BY <1>1, <1>2, PTL DEF Spec

-----------------------------------------------------------------------------

\* The variables of the tail streams keep their types: a queue of the hub never
\* outgrows its bound, and no stream is subscribed twice.
THEOREM TypeCorrect == Spec => []TypeOK
<1>1. IInv => TypeOK
  BY DEF IInv
<1> QED
  BY <1>1, IInvHolds, PTL

\* On either backend, through evictions, failing commands, lost connections and
\* filters that raise, what a stream gets has no gap, no duplicate, no disorder.
THEOREM NoGap == Spec => []Ungapped
<1>1. IInv => Ungapped
  <2> SUFFICES ASSUME IInv, NEW s \in Streams, Active(s)
               PROVE  /\ Increasing(Way(s))
                      /\ Got(s) \subseteq Due(s)
                      /\ \A r \in Got(s) : {d \in Due(s) : d < r} \subseteq Got(s)
                      /\ s \in ToSet(subscribers) => Got(s) = Due(s)
    BY DEF Ungapped, Active
  <2>1. /\ Increasing(Way(s))
        /\ ToSet(Way(s)) \subseteq ((since[s] + 1)..published) \ missed[s]
        /\ \A r \in ToSet(Way(s)) : {d \in Due(s) : d < r} \subseteq ToSet(Way(s))
        /\ s \in ToSet(subscribers) => Due(s) \subseteq ToSet(Way(s))
    BY DEF IInv, Delivering, DeliveringAt
  <2>2. Got(s) = ToSet(Way(s)) \intersect Due(s)
    BY <2>1 DEF Got, Due
  <2> QED
    BY <2>1, <2>2
<1> QED
  BY <1>1, IInvHolds, PTL
====
