---- MODULE DailyQuota ----
(***************************************************************************)
(* The daily quota counters that PostgresClickHouseStore keeps in Redis    *)
(* (persistent_store.py, _reserve_daily_redis_counter), one per owner of a *)
(* quota (an API key, a project, an agent) and UTC date.  Each call of it  *)
(* is a caller here; calls of one process and of several interleave        *)
(* between their Redis commands.  A call                                   *)
(*   - computes the counter's key from its owner and today's UTC date,     *)
(*   - increments that counter by its amount and reads the new value,      *)
(*   - if the value is over the limit, decrements it again in a second     *)
(*     command and raises rate_limited.                                    *)
(* Midnight may pass between any two of these, and a caller may stop for   *)
(* ever between the increment and the decrement (its process died, Redis   *)
(* went away): nothing here obliges it to go on.                           *)
(*                                                                         *)
(* The 48 hours' expiry set on a counter outlives every use of its key and *)
(* is left out: no command of a call reaches a key of another date.        *)
(***************************************************************************)
EXTENDS Integers, FiniteSets

CONSTANTS
    Callers,    \* calls of _reserve_daily_redis_counter for one kind of quota
    Owners,     \* the API keys, projects or agents that quota is kept for
    MaxAmount,  \* the largest claim of a call (MAX_LOG_BYTES, or 1 for a query)
    Limit,      \* the configured limit (zero disables the quota: no call is made)
    LastDay     \* bound: the last UTC date of the behaviour

ASSUME QuotaAssumption ==
    /\ IsFiniteSet(Callers)
    /\ MaxAmount \in Nat \ {0}
    /\ Limit \in Nat \ {0}
    /\ LastDay \in Nat \ {0}

VARIABLES
    owner,      \* owner[c]: whose quota caller c claims a part of
    amount,     \* amount[c]: how much it claims
    stage,      \* stage[c]: where caller c stands
    key,        \* key[c]: the counter c has computed the key of
    counter,    \* counter[x]: the Redis counter with key x
    today       \* the current UTC date

vars == <<owner, amount, stage, key, counter, today>>

Days == 1..LastDay
Counters == Owners \X Days
Stages == {"idle", "keyed", "over", "granted", "refused"}

\* Every variable has its type; no call computes a key of a date that is not.
TypeOK ==
    /\ owner \in [Callers -> Owners]
    /\ amount \in [Callers -> 1..MaxAmount]
    /\ stage \in [Callers -> Stages]
    /\ key \in [Callers -> Counters]
    /\ counter \in [Counters -> Int]
    /\ today \in Days

\* The units that the callers in S claim, one <<caller, i>> for each i up to
\* the caller's amount, and how many there are.
Units(S) == {u \in S \X (1..MaxAmount) : u[2] <= amount[u[1]]}
Load(S) == Cardinality(Units(S))

GrantedOn(x) == {c \in Callers : stage[c] = "granted" /\ key[c] = x}
OverOn(x) == {c \in Callers : stage[c] = "over" /\ key[c] = x}
ChargedOn(x) == GrantedOn(x) \union OverOn(x)

Init ==
    /\ owner \in [Callers -> Owners]
    /\ amount \in [Callers -> 1..MaxAmount]
    /\ stage = [c \in Callers |-> "idle"]
    /\ key = [c \in Callers |-> <<owner[c], 1>>]
    /\ counter = [x \in Counters |-> 0]
    /\ today = 1

\* (Mutant of ComputeKey: the date rounded up to the next midnight.)
ComputeKeyOfTomorrow(c) ==
    /\ stage[c] = "idle"
    /\ stage' = [stage EXCEPT ![c] = "keyed"]
    /\ key' = [key EXCEPT ![c] = <<owner[c], today + 1>>]
    /\ UNCHANGED <<owner, amount, counter, today>>

\* key = f"{prefix}:{utc_now().date().isoformat()}"
ComputeKey(c) ==
    /\ stage[c] = "idle"
    /\ stage' = [stage EXCEPT ![c] = "keyed"]
    /\ key' = [key EXCEPT ![c] = <<owner[c], today>>]
    /\ UNCHANGED <<owner, amount, counter, today>>

\* INCRBY returns the new value, which alone decides.  (The mutants
\* compare the value read before the increment, and refuse at the limit.)
IncrByStaleValue(c) ==
    LET x == key[c] IN
    /\ stage[c] = "keyed"
    /\ counter' = [counter EXCEPT ![x] = @ + amount[c]]
    /\ stage' = [stage EXCEPT ![c] = IF counter[x] > Limit THEN "over" ELSE "granted"]
    /\ UNCHANGED <<owner, amount, key, today>>

IncrByStrict(c) ==
    LET value == counter[key[c]] + amount[c] IN
    /\ stage[c] = "keyed"
    /\ counter' = [counter EXCEPT ![key[c]] = value]
    /\ stage' = [stage EXCEPT ![c] = IF value >= Limit THEN "over" ELSE "granted"]
    /\ UNCHANGED <<owner, amount, key, today>>

IncrBy(c) ==
    LET value == counter[key[c]] + amount[c] IN
    /\ stage[c] = "keyed"
    /\ counter' = [counter EXCEPT ![key[c]] = value]
    /\ stage' = [stage EXCEPT ![c] = IF value > Limit THEN "over" ELSE "granted"]
    /\ UNCHANGED <<owner, amount, key, today>>

\* DECRBY on the key computed before, then raise rate_limited.  (The mutants
\* recompute the key from the clock, and forget the decrement.)
DecrByToday(c) ==
    /\ stage[c] = "over"
    /\ counter' = [counter EXCEPT ![<<owner[c], today>>] = @ - amount[c]]
    /\ stage' = [stage EXCEPT ![c] = "refused"]
    /\ UNCHANGED <<owner, amount, key, today>>

DecrByForgotten(c) ==
    /\ stage[c] = "over"
    /\ stage' = [stage EXCEPT ![c] = "refused"]
    /\ UNCHANGED <<owner, amount, key, counter, today>>

DecrBy(c) ==
    /\ stage[c] = "over"
    /\ counter' = [counter EXCEPT ![key[c]] = @ - amount[c]]
    /\ stage' = [stage EXCEPT ![c] = "refused"]
    /\ UNCHANGED <<owner, amount, key, today>>

\* The environment: the UTC date changes.
Midnight ==
    /\ today < LastDay
    /\ today' = today + 1
    /\ UNCHANGED <<owner, amount, stage, key, counter>>

Next ==
    \/ \E c \in Callers : ComputeKey(c) \/ IncrBy(c) \/ DecrBy(c)
    \/ Midnight

Spec == Init /\ [][Next]_vars

-----------------------------------------------------------------------------

\* Every unit in a counter is owned: by a call that was granted its claim or
\* by one that is over the limit and still has its DECRBY to do, on the date
\* of the key it computed.  A lost or doubled INCRBY or DECRBY, or one on the
\* key of another date, breaks it.
CounterIsOwned ==
    \A x \in Counters : counter[x] = Load(ChargedOn(x))

\* The quota itself: however calls interleave, and wherever they stop, the
\* claims granted under one date's key stay within the limit.
GrantedWithinLimit ==
    \A x \in Counters : Load(GrantedOn(x)) <= Limit

\* A call is turned away only when the claims granted so far, those still
\* waiting for their DECRBY and its own together exceed the limit: once the
\* refused calls have all put their claims back, a claim that fits is granted.
\* (The pending ones do count: a large refused claim in flight may turn away a
\* small one that would fit, which store.py's atomic check never does.)
RefusedForCause ==
    [][\A c \in Callers :
         stage[c] = "keyed" /\ stage'[c] = "over" =>
             Load(ChargedOn(key[c]) \union {c}) > Limit]_vars

\* The counter implements the promise of a daily quota: calls over the limit
\* are invisible, a grant lands on the date of its key.
Promise == INSTANCE QuotaPromise WITH granted <- [x \in Counters |-> GrantedOn(x)]
KeepsPromise == Promise!Spec
====
