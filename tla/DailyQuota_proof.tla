---- MODULE DailyQuota_proof ----
(***************************************************************************)
(* For every finite set of callers, owners, every limit and number of days:*)
(* the Redis counters of DailyQuota are owned to the last unit, and the    *)
(* claims granted under one key never exceed the limit.                    *)
(*                                                                         *)
(* GrantedWithinLimit alone is not inductive: IncrBy compares the counter, *)
(* not the granted claims, with the limit.  CounterIsOwned ties the two:   *)
(* the counter is at least the granted load, so a value within the limit   *)
(* bounds the load after the grant.  The load of a set of callers is the   *)
(* cardinality of the units they claim, which lets the finite set theorems *)
(* stand in for the induction that a sum would need.                       *)
(***************************************************************************)
EXTENDS DailyQuota, FiniteSetTheorems, TLAPS

LEMMA TypeStep == TypeOK /\ [Next]_vars => TypeOK'
<1> SUFFICES ASSUME TypeOK, [Next]_vars PROVE TypeOK'
  OBVIOUS
<1> USE QuotaAssumption DEF TypeOK, Stages, Counters, Days
<1>1. ASSUME NEW c \in Callers, ComputeKey(c) PROVE TypeOK'
  BY <1>1 DEF ComputeKey
<1>2. ASSUME NEW c \in Callers, IncrBy(c) PROVE TypeOK'
  BY <1>2 DEF IncrBy
<1>3. ASSUME NEW c \in Callers, DecrBy(c) PROVE TypeOK'
  BY <1>3 DEF DecrBy
<1>4. CASE Midnight
  BY <1>4 DEF Midnight
<1>5. CASE UNCHANGED vars
  BY <1>5 DEF vars
<1> QED
  BY <1>1, <1>2, <1>3, <1>4, <1>5 DEF Next

LEMMA TypeInit == Init => TypeOK
BY QuotaAssumption DEF Init, TypeOK, Stages, Counters, Days

\* The type invariant: IncrBy and DecrBy keep the counters integers, and the
\* date of a key is one of the days that have begun.
THEOREM TypeCorrect == Spec => []TypeOK
BY TypeInit, TypeStep, PTL DEF Spec

-----------------------------------------------------------------------------

\* A set of callers claims finitely many units.
LEMMA UnitsFinite ==
    ASSUME TypeOK, NEW S \in SUBSET Callers
    PROVE  IsFiniteSet(Units(S)) /\ Load(S) \in Nat
<1>1. IsFiniteSet(S)
  BY QuotaAssumption, FS_Subset
<1>2. IsFiniteSet(1..MaxAmount)
  BY QuotaAssumption, FS_Interval
<1>3. IsFiniteSet(S \X (1..MaxAmount))
  BY <1>1, <1>2, FS_Product
<1>4. Units(S) \in SUBSET (S \X (1..MaxAmount))
  BY DEF Units
<1>5. IsFiniteSet(Units(S))
  BY <1>3, <1>4, FS_Subset
<1> QED
  BY <1>5, FS_CardinalityType DEF Load

\* One more caller adds exactly its amount to the load.
LEMMA LoadAdd ==
    ASSUME TypeOK, NEW S \in SUBSET Callers, NEW c \in Callers \ S
    PROVE  Load(S \union {c}) = Load(S) + amount[c]
<1> DEFINE Mine == {c} \X (1..amount[c])
<1>1. amount[c] \in 1..MaxAmount /\ amount[c] \in Nat
  BY QuotaAssumption DEF TypeOK
<1>2. IsFiniteSet(1..amount[c]) /\ Cardinality(1..amount[c]) = amount[c]
  <2>1. 1 \in Int /\ amount[c] \in Int /\ ~(1 > amount[c])
    BY <1>1
  <2> HIDE DEF Mine
  <2>2. IsFiniteSet(1..amount[c]) /\ Cardinality(1..amount[c]) = amount[c] - 1 + 1
    BY <2>1, FS_Interval
  <2> QED
    BY <1>1, <2>2
<1>3. IsFiniteSet({c}) /\ Cardinality({c}) = 1
  BY FS_Singleton
<1>4. IsFiniteSet(Mine) /\ Cardinality(Mine) = amount[c]
  <2>1. IsFiniteSet(Mine) /\ Cardinality(Mine) = 1 * amount[c]
    BY <1>2, <1>3, FS_Product
  <2> QED
    BY <2>1, <1>1
<1>5. Units(S \union {c}) = Units(S) \union Mine
  <2>1. ASSUME NEW u \in Units(S \union {c}) PROVE u \in Units(S) \union Mine
    BY <2>1, <1>1 DEF Units
  <2>2. ASSUME NEW u \in Units(S) \union Mine PROVE u \in Units(S \union {c})
    BY <2>2, <1>1, QuotaAssumption DEF Units
  <2> QED
    BY <2>1, <2>2
<1>6. Units(S) \cap Mine = {}
  BY DEF Units
<1>7. IsFiniteSet(Units(S)) /\ Load(S) \in Nat
  BY UnitsFinite
<1>8. Cardinality(Units(S) \union Mine)
        = Cardinality(Units(S)) + Cardinality(Mine) - Cardinality(Units(S) \cap Mine)
  BY <1>4, <1>7, FS_Union
<1>9. Cardinality(Units(S) \cap Mine) = 0
  BY <1>6, FS_EmptySet
<1>10. Load(S \union {c}) = Cardinality(Units(S) \union Mine)
  BY <1>5, Zenon DEF Load
<1>11. Load(S) = Cardinality(Units(S))
  BY DEF Load
<1> HIDE DEF Mine
<1> QED
  BY <1>1, <1>4, <1>7, <1>8, <1>9, <1>10, <1>11

\* A smaller set of callers claims no more.
LEMMA LoadMonotone ==
    ASSUME TypeOK, NEW T \in SUBSET Callers, NEW S \in SUBSET T
    PROVE  Load(S) <= Load(T)
<1>1. IsFiniteSet(Units(T))
  BY UnitsFinite
<1>2. Units(S) \in SUBSET Units(T)
  BY DEF Units
<1> QED
  BY <1>1, <1>2, FS_Subset DEF Load

\* Nobody claims nothing.
LEMMA LoadNone == Load({}) = 0
<1>1. Units({}) = {}
  BY DEF Units
<1> QED
  BY <1>1, FS_EmptySet DEF Load

-----------------------------------------------------------------------------

\* The inductive invariant: the counter of a date is the load of the granted
\* and the pending claims, and the granted claims are within the limit.
QuotaInv == TypeOK /\ CounterIsOwned /\ GrantedWithinLimit

LEMMA InitQuotaInv == Init => QuotaInv
<1> SUFFICES ASSUME Init PROVE QuotaInv
  OBVIOUS
<1>1. TypeOK
  BY TypeInit
<1>2. ASSUME NEW x \in Counters PROVE GrantedOn(x) = {} /\ ChargedOn(x) = {}
  BY DEF Init, GrantedOn, OverOn, ChargedOn
<1>3. \A x \in Counters : counter[x] = 0
  BY DEF Init
<1>4. CounterIsOwned
  BY <1>2, <1>3, LoadNone DEF CounterIsOwned
<1>5. GrantedWithinLimit
  BY <1>2, LoadNone, QuotaAssumption DEF GrantedWithinLimit
<1> QED
  BY <1>1, <1>4, <1>5 DEF QuotaInv

\* The load of fixed callers is the same in every state: amounts never change.
LEMMA LoadUnchanged ==
    ASSUME UNCHANGED amount, NEW S
    PROVE  Load(S)' = Load(S)
BY DEF Load, Units

\* ComputeKey, Midnight and stuttering leave the charges and the grants alone.
LEMMA ChargesUntouched ==
    ASSUME QuotaInv, TypeOK', UNCHANGED <<amount, counter>>,
           \A x \in Counters : GrantedOn(x)' = GrantedOn(x) /\ ChargedOn(x)' = ChargedOn(x)
    PROVE  QuotaInv'
<1>1. ASSUME NEW x \in Counters PROVE Load(ChargedOn(x))' = Load(ChargedOn(x))
  BY DEF Load, Units
<1>2. ASSUME NEW x \in Counters PROVE Load(GrantedOn(x))' = Load(GrantedOn(x))
  BY DEF Load, Units
<1>3. Counters' = Counters
  BY DEF Counters, Days
<1>4. CounterIsOwned'
  BY <1>1, <1>3 DEF QuotaInv, CounterIsOwned
<1>5. GrantedWithinLimit'
  BY <1>2, <1>3 DEF QuotaInv, GrantedWithinLimit
<1> QED
  BY <1>4, <1>5 DEF QuotaInv

LEMMA IncrByQuotaInv ==
    ASSUME QuotaInv, TypeOK', NEW c \in Callers, IncrBy(c)
    PROVE  QuotaInv'
<1>0. PICK k \in Counters : k = key[c]
  BY DEF QuotaInv, TypeOK
<1> DEFINE value == counter[k] + amount[c]
<1> USE DEF GrantedOn, OverOn, ChargedOn
<1>1. /\ TypeOK /\ stage[c] = "keyed" /\ UNCHANGED <<owner, amount, key>>
      /\ k = key[c]
  BY <1>0 DEF QuotaInv, TypeOK, IncrBy
<1>2. ASSUME NEW x \in Counters \ {k}
      PROVE  /\ ChargedOn(x)' = ChargedOn(x)
             /\ GrantedOn(x)' = GrantedOn(x)
             /\ counter'[x] = counter[x]
  BY <1>1 DEF TypeOK, IncrBy
<1>3. c \notin ChargedOn(k) /\ ChargedOn(k)' = ChargedOn(k) \union {c}
  BY <1>1 DEF TypeOK, IncrBy
<1>4. counter'[k] = value
  BY <1>1 DEF TypeOK, IncrBy
<1>5. value = Load(ChargedOn(k) \union {c})
  <2>1. counter[k] = Load(ChargedOn(k))
    BY <1>1 DEF QuotaInv, CounterIsOwned
  <2> QED
    BY <1>1, <1>3, <2>1, LoadAdd
<1>6. Load(GrantedOn(k)') <= Limit
  <2>1. CASE value > Limit
    <3>1. GrantedOn(k)' = GrantedOn(k)
      BY <1>1, <2>1 DEF TypeOK, IncrBy
    <3> QED
      BY <1>1, <3>1 DEF QuotaInv, GrantedWithinLimit
  <2>2. CASE ~(value > Limit)
    <3>1. GrantedOn(k)' = GrantedOn(k) \union {c}
      BY <1>1, <2>2 DEF TypeOK, IncrBy
    <3>2. GrantedOn(k) \union {c} \in SUBSET (ChargedOn(k) \union {c})
      OBVIOUS
    <3>3. Load(GrantedOn(k) \union {c}) <= value
      BY <1>1, <1>5, <3>2, LoadMonotone
    <3>4. value \in Nat /\ Load(GrantedOn(k) \union {c}) \in Nat
      BY <1>1, <1>5, UnitsFinite
    <3> HIDE DEF GrantedOn, OverOn, ChargedOn, value
    <3>5. Load(GrantedOn(k) \union {c}) <= Limit
      BY <2>2, <3>3, <3>4, QuotaAssumption
    <3> QED
      BY <3>1, <3>5, Zenon
  <2> QED
    BY <2>1, <2>2
<1>7. ASSUME NEW x \in Counters
      PROVE  /\ Load(ChargedOn(x))' = Load(ChargedOn(x)')
             /\ Load(GrantedOn(x))' = Load(GrantedOn(x)')
  BY <1>1 DEF Load, Units
<1>8. Counters' = Counters
  BY DEF Counters, Days
<1> HIDE DEF GrantedOn, OverOn, ChargedOn, value
<1>9. ASSUME NEW x \in Counters
      PROVE  counter'[x] = Load(ChargedOn(x))' /\ Load(GrantedOn(x))' <= Limit
  <2>1. CASE x = k
    BY <2>1, <1>3, <1>4, <1>5, <1>6, <1>7
  <2>2. CASE x # k
    BY <2>2, <1>2, <1>7 DEF QuotaInv, CounterIsOwned, GrantedWithinLimit
  <2> QED
    BY <2>1, <2>2
<1> QED
  BY <1>8, <1>9 DEF QuotaInv, CounterIsOwned, GrantedWithinLimit

LEMMA DecrByQuotaInv ==
    ASSUME QuotaInv, TypeOK', NEW c \in Callers, DecrBy(c)
    PROVE  QuotaInv'
<1>0. PICK k \in Counters : k = key[c]
  BY DEF QuotaInv, TypeOK
<1> USE DEF GrantedOn, OverOn, ChargedOn
<1>1. /\ TypeOK /\ stage[c] = "over" /\ UNCHANGED <<owner, amount, key>>
      /\ k = key[c]
  BY <1>0 DEF QuotaInv, TypeOK, DecrBy
<1>2. ASSUME NEW x \in Counters \ {k}
      PROVE  ChargedOn(x)' = ChargedOn(x) /\ counter'[x] = counter[x]
  BY <1>1 DEF TypeOK, DecrBy
<1>3. ASSUME NEW x \in Counters PROVE GrantedOn(x)' = GrantedOn(x)
  BY <1>1 DEF TypeOK, DecrBy
<1>4. /\ ChargedOn(k)' \in SUBSET Callers
      /\ c \notin ChargedOn(k)'
      /\ ChargedOn(k) = ChargedOn(k)' \union {c}
  BY <1>1 DEF TypeOK, DecrBy
<1>5. counter'[k] = counter[k] - amount[c]
  BY <1>1 DEF TypeOK, DecrBy
<1>6. counter[k] = Load(ChargedOn(k)') + amount[c]
  <2>1. counter[k] = Load(ChargedOn(k))
    BY <1>1 DEF QuotaInv, CounterIsOwned
  <2>2. Load(ChargedOn(k)' \union {c}) = Load(ChargedOn(k)') + amount[c]
    BY <1>1, <1>4, LoadAdd
  <2> QED
    BY <1>4, <2>1, <2>2
<1>7. ASSUME NEW x \in Counters
      PROVE  /\ Load(ChargedOn(x))' = Load(ChargedOn(x)')
             /\ Load(GrantedOn(x))' = Load(GrantedOn(x)')
  BY <1>1 DEF Load, Units
<1>8. Load(ChargedOn(k)') \in Nat /\ amount[c] \in Nat
  BY <1>1, <1>4, UnitsFinite, QuotaAssumption DEF TypeOK
<1>9. Counters' = Counters
  BY DEF Counters, Days
<1> HIDE DEF GrantedOn, OverOn, ChargedOn
<1>10. ASSUME NEW x \in Counters
       PROVE  counter'[x] = Load(ChargedOn(x))' /\ Load(GrantedOn(x))' <= Limit
  <2>1. CASE x = k
    <3>1. counter'[k] = Load(ChargedOn(k)')
      BY <1>5, <1>6, <1>8
    <3> QED
      BY <2>1, <3>1, <1>3, <1>7 DEF QuotaInv, GrantedWithinLimit
  <2>2. CASE x # k
    BY <2>2, <1>2, <1>3, <1>7 DEF QuotaInv, CounterIsOwned, GrantedWithinLimit
  <2> QED
    BY <2>1, <2>2
<1> QED
  BY <1>9, <1>10 DEF QuotaInv, CounterIsOwned, GrantedWithinLimit

LEMMA QuotaStep == QuotaInv /\ [Next]_vars => QuotaInv'
<1> SUFFICES ASSUME QuotaInv, [Next]_vars PROVE QuotaInv'
  OBVIOUS
<1>0. TypeOK /\ TypeOK'
  BY TypeStep DEF QuotaInv
<1>1. ASSUME NEW c \in Callers, ComputeKey(c) PROVE QuotaInv'
  <2>1. \A x \in Counters : GrantedOn(x)' = GrantedOn(x) /\ ChargedOn(x)' = ChargedOn(x)
    BY <1>0, <1>1 DEF ComputeKey, TypeOK, GrantedOn, OverOn, ChargedOn
  <2> QED
    BY <1>0, <1>1, <2>1, ChargesUntouched DEF ComputeKey
<1>2. ASSUME NEW c \in Callers, IncrBy(c) PROVE QuotaInv'
  BY <1>0, <1>2, IncrByQuotaInv
<1>3. ASSUME NEW c \in Callers, DecrBy(c) PROVE QuotaInv'
  BY <1>0, <1>3, DecrByQuotaInv
<1>4. ASSUME Midnight \/ UNCHANGED vars PROVE QuotaInv'
  <2>1. UNCHANGED <<owner, amount, stage, key, counter>>
    BY <1>4 DEF Midnight, vars
  <2>2. \A x \in Counters : GrantedOn(x)' = GrantedOn(x) /\ ChargedOn(x)' = ChargedOn(x)
    BY <2>1 DEF GrantedOn, OverOn, ChargedOn
  <2> QED
    BY <1>0, <2>1, <2>2, ChargesUntouched
<1> QED
  BY <1>1, <1>2, <1>3, <1>4 DEF Next

\* Every unit in a Redis counter belongs to a granted or a still pending claim
\* of its date: no INCRBY or DECRBY is lost, doubled or put on another key.
THEOREM CounterOwned == Spec => []CounterIsOwned
<1>1. QuotaInv => CounterIsOwned
  BY DEF QuotaInv
<1> QED
  BY <1>1, InitQuotaInv, QuotaStep, PTL DEF Spec

\* The daily quota is never exceeded, however many calls of
\* _reserve_daily_redis_counter interleave and wherever they stop.
THEOREM QuotaSafe == Spec => []GrantedWithinLimit
<1>1. QuotaInv => GrantedWithinLimit
  BY DEF QuotaInv
<1> QED
  BY <1>1, InitQuotaInv, QuotaStep, PTL DEF Spec

-----------------------------------------------------------------------------

\* Initially no claim is granted, as the promise has it.
LEMMA PromiseInit == Init => Promise!Init
BY DEF Init, Promise!Init, GrantedOn

\* Every step of the counter is a grant of the promise or invisible to it.
LEMMA PromiseStep == QuotaInv /\ QuotaInv' /\ [Next]_vars => [Promise!Next]_Promise!vars
<1> SUFFICES ASSUME QuotaInv, QuotaInv', [Next]_vars PROVE [Promise!Next]_Promise!vars
  OBVIOUS
<1> DEFINE granted == [x \in Counters |-> GrantedOn(x)]
<1>0. TypeOK
  BY DEF QuotaInv
<1>1. ASSUME UNCHANGED amount, \A x \in Counters : GrantedOn(x)' = GrantedOn(x)
      PROVE  UNCHANGED Promise!vars
  BY <1>1 DEF Promise!vars, Days
<1>2. ASSUME NEW c \in Callers, ComputeKey(c) PROVE UNCHANGED Promise!vars
  <2>1. \A x \in Counters : GrantedOn(x)' = GrantedOn(x)
    BY <1>0, <1>2 DEF ComputeKey, TypeOK, GrantedOn
  <2> QED
    BY <1>1, <1>2, <2>1 DEF ComputeKey
<1>3. ASSUME NEW c \in Callers, DecrBy(c) PROVE UNCHANGED Promise!vars
  <2>1. \A x \in Counters : GrantedOn(x)' = GrantedOn(x)
    BY <1>0, <1>3 DEF DecrBy, TypeOK, GrantedOn
  <2> QED
    BY <1>1, <1>3, <2>1 DEF DecrBy
<1>4. ASSUME NEW c \in Callers, IncrBy(c) PROVE [Promise!Next]_Promise!vars
  <2>0. PICK k \in Counters : k = key[c]
    BY <1>0 DEF TypeOK
  <2>1. stage[c] = "keyed" /\ UNCHANGED <<owner, amount, key>>
    BY <1>4 DEF IncrBy
  <2>2. CASE stage'[c] = "over"
    <3>1. \A x \in Counters : GrantedOn(x)' = GrantedOn(x)
      BY <1>0, <1>4, <2>2 DEF IncrBy, TypeOK, GrantedOn
    <3> QED
      BY <1>1, <2>1, <3>1
  <2>3. CASE stage'[c] # "over"
    <3>1. /\ GrantedOn(k)' = GrantedOn(k) \union {c}
          /\ \A x \in Counters \ {k} : GrantedOn(x)' = GrantedOn(x)
      BY <1>0, <1>4, <2>0, <2>1, <2>3 DEF IncrBy, TypeOK, GrantedOn
    <3>2. \A x \in Counters : c \notin GrantedOn(x)
      BY <2>1 DEF GrantedOn
    <3>3. Load(GrantedOn(k) \union {c}) <= Limit
      <4>1. Load(GrantedOn(k))' <= Limit
        BY <2>0 DEF QuotaInv, GrantedWithinLimit, Days
      <4>2. Load(GrantedOn(k))' = Load(GrantedOn(k)')
        BY <2>1 DEF Load, Units
      <4> QED
        BY <3>1, <4>1, <4>2, Zenon
    <3>4. Promise!Load(GrantedOn(k) \union {c}) <= Limit
      <4>1. Promise!Units(GrantedOn(k) \union {c}) = Units(GrantedOn(k) \union {c})
        BY DEF Promise!Units, Units
      <4>2. \A S : Promise!Cardinality(S) = Cardinality(S)
        BY DEF Promise!Cardinality, Cardinality, Promise!IsFiniteSet, IsFiniteSet
      <4> QED
        BY <3>3, <4>1, <4>2 DEF Promise!Load, Load
    <3>5. granted' = [granted EXCEPT ![k] = @ \union {c}]
      BY <2>0, <3>1 DEF Days
    <3>6. Promise!Grant(c, k)
      BY <2>0, <2>1, <3>2, <3>4, <3>5 DEF Promise!Grant
    <3> QED
      BY <2>0, <3>6 DEF Promise!Next
  <2> QED
    BY <2>2, <2>3
<1>5. ASSUME Midnight \/ UNCHANGED vars PROVE UNCHANGED Promise!vars
  <2>1. UNCHANGED <<owner, amount, stage, key>>
    BY <1>5 DEF Midnight, vars
  <2> QED
    BY <1>1, <2>1 DEF GrantedOn
<1> QED
  BY <1>2, <1>3, <1>4, <1>5 DEF Next

\* The Redis counter implements the promise of a daily quota.
THEOREM PromiseKept == Spec => KeepsPromise
<1>1. Spec => []QuotaInv
  BY InitQuotaInv, QuotaStep, PTL DEF Spec
<1> QED
  BY <1>1, PromiseInit, PromiseStep, PTL DEF Spec, KeepsPromise, Promise!Spec

-----------------------------------------------------------------------------

\* A call goes over by its own INCRBY only, whose value is the load of what
\* is charged to its key and its own claim.
LEMMA OverHasCause ==
    ASSUME QuotaInv, [Next]_vars, NEW c \in Callers, stage[c] = "keyed", stage'[c] = "over"
    PROVE  Load(ChargedOn(key[c]) \union {c}) > Limit
<1>0. TypeOK /\ stage \in [Callers -> Stages]
  BY DEF QuotaInv, TypeOK
<1>1. IncrBy(c)
  BY <1>0 DEF Next, vars, ComputeKey, IncrBy, DecrBy, Midnight
<1>2. counter[key[c]] + amount[c] > Limit
  BY <1>0, <1>1 DEF IncrBy
<1>3. key[c] \in Counters /\ ChargedOn(key[c]) \in SUBSET Callers /\ c \notin ChargedOn(key[c])
  BY <1>0 DEF TypeOK, ChargedOn, GrantedOn, OverOn
<1>4. Load(ChargedOn(key[c]) \union {c}) = Load(ChargedOn(key[c])) + amount[c]
  BY <1>0, <1>3, LoadAdd
<1>5. counter[key[c]] = Load(ChargedOn(key[c]))
  BY <1>3 DEF QuotaInv, CounterIsOwned
<1> QED
  BY <1>2, <1>4, <1>5

\* No call is refused without cause: what was granted before, what is still to
\* be put back and its own claim exceed the limit.
THEOREM RefusalHasCause == Spec => RefusedForCause
<1>1. Spec => []QuotaInv
  BY InitQuotaInv, QuotaStep, PTL DEF Spec
<1> DEFINE Caused == \A c \in Callers : stage[c] = "keyed" /\ stage'[c] = "over" =>
                         Load(ChargedOn(key[c]) \union {c}) > Limit
<1>2. QuotaInv /\ [Next]_vars => [Caused]_vars
  BY OverHasCause
<1> QED
  BY <1>1, <1>2, PTL DEF Spec, RefusedForCause
====
