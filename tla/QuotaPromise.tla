---- MODULE QuotaPromise ----
(***************************************************************************)
(* What a daily quota promises, whatever store keeps the counter: the      *)
(* claims granted to one owner on one day never add up to more than the    *)
(* limit, and a grant is never taken back.                                 *)
(* It is store.py's in-memory _reserve_*_quota seen from its caller, with  *)
(* one freedom more: nothing is said of when a claim may be refused, since *)
(* the Redis implementation (DailyQuota) may refuse one that would fit.    *)
(***************************************************************************)
EXTENDS Integers, FiniteSets

CONSTANTS
    Callers,    \* the calls that claim a part of the quota
    MaxAmount,  \* the largest claim
    Limit,      \* the configured limit
    Counters    \* an owner of the quota and a UTC date, each

VARIABLES
    amount,     \* what each caller claims: bytes of a log, or 1 for a query
    granted     \* for each counter, the callers that were granted their claim

vars == <<amount, granted>>

\* The units that the callers in S claim, one <<caller, i>> for each i up to
\* the caller's amount, and how many there are.
Units(S) == {u \in S \X (1..MaxAmount) : u[2] <= amount[u[1]]}
Load(S) == Cardinality(Units(S))

Init == granted = [x \in Counters |-> {}]

\* current + size > limit refuses; otherwise the counter takes the claim.
Grant(c, x) ==
    /\ \A y \in Counters : c \notin granted[y]
    /\ Load(granted[x] \union {c}) <= Limit
    /\ granted' = [granted EXCEPT ![x] = @ \union {c}]
    /\ UNCHANGED amount

Next == \E c \in Callers, x \in Counters : Grant(c, x)

Spec == Init /\ [][Next]_vars
====
