---- MODULE TailSlots ----
(***************************************************************************)
(* The cap on concurrent tail streams of one API key: the handler of       *)
(* /v1/logs/tail (routes_logs.py, tail_logs) takes a slot, audits the      *)
(* start, streams, and gives the slot back; the slots are a counter in     *)
(* Redis (tail.py, RedisTailAdapter).  Acquiring is INCR, EXPIRE and, over *)
(* the limit, DECR; releasing is DECR and, at zero or below, DELETE: each  *)
(* one a command of its own, with those of other streams in between.       *)
(*                                                                         *)
(* The counter expires twice the idle timeout after the last acquisition,  *)
(* however many streams are open, and a stream that logs keep reaching     *)
(* stays open longer than that.  A slot is not given back when the process *)
(* dies, when a Redis command raises, when the tail backend raises (the    *)
(* finally clause awaits the failed task and raises again before the       *)
(* release), or when the body of the response is never started.            *)
(***************************************************************************)
EXTENDS Integers, FiniteSets

CONSTANTS
    Streams,        \* tail requests of one API key
    Limit,          \* MAX_CONCURRENT_TAIL_STREAMS; zero or less disables the cap
    OutliveExpiry   \* whether a stream may be open longer than the counter lives

ASSUME TailAssumption ==
    /\ IsFiniteSet(Streams)
    /\ Limit \in Nat \ {0}
    /\ OutliveExpiry \in BOOLEAN

VARIABLES
    pc,         \* pc[s]: what stream s does next, or how it ended
    over,       \* streams whose INCR returned more than the limit
    lost,       \* streams that ended without giving their slot back
    count,      \* the value of tail_streams:<key id>, zero when there is none
    key         \* "absent", "kept" (without expiry) or "expiring"

vars == <<pc, over, lost, count, key>>

\* The commands of a stream that has a place in the counter, and its end.
Places == {"expire", "decr", "audit", "open", "release"}
Ends == {"denied", "closed", "failed"}

\* Every variable has its type, an absent counter counts nothing, and a stream
\* that is over the limit never gets to its audit event.
TypeOK ==
    /\ pc \in [Streams -> {"new", "delete"} \union Places \union Ends]
    /\ over \subseteq Streams
    /\ lost \subseteq Streams
    /\ count \in Int
    /\ key \in {"absent", "kept", "expiring"}
    /\ key = "absent" => count = 0
    /\ \A s \in over : pc[s] \in {"expire", "decr", "denied", "failed"}

Init ==
    /\ pc = [s \in Streams |-> "new"]
    /\ over = {}
    /\ lost = {}
    /\ count = 0
    /\ key = "absent"

Goto(s, op) == pc' = [pc EXCEPT ![s] = op]

\* A key that INCR or DECR creates has no expiry.
Touched == IF key = "absent" THEN "kept" ELSE key

\* (Mutant of Incr: the value before the INCR decides.)
IncrStale(s) ==
    /\ pc[s] = "new"
    /\ count' = count + 1
    /\ key' = Touched
    /\ over' = IF count > Limit THEN over \union {s} ELSE over
    /\ Goto(s, "expire")
    /\ UNCHANGED lost

\* count = INCR key
Incr(s) ==
    /\ pc[s] = "new"
    /\ count' = count + 1
    /\ key' = Touched
    /\ over' = IF count' > Limit THEN over \union {s} ELSE over
    /\ Goto(s, "expire")
    /\ UNCHANGED lost

\* (Mutant of Expire: the count is not looked at.)
ExpireAdmits(s) ==
    /\ pc[s] = "expire"
    /\ key' = IF key = "absent" THEN "absent" ELSE "expiring"
    /\ Goto(s, "audit")
    /\ UNCHANGED <<over, lost, count>>

\* EXPIRE key; then the count decides.
Expire(s) ==
    /\ pc[s] = "expire"
    /\ key' = IF key = "absent" THEN "absent" ELSE "expiring"
    /\ Goto(s, IF s \in over THEN "decr" ELSE "audit")
    /\ UNCHANGED <<over, lost, count>>

\* (Mutant of Decr: the refused stream keeps its place in the counter.)
DecrForgotten(s) ==
    /\ pc[s] = "decr"
    /\ Goto(s, "denied")
    /\ UNCHANGED <<over, lost, count, key>>

\* DECR key, then rate_limited is raised; a counter at zero is not deleted.
Decr(s) ==
    /\ pc[s] = "decr"
    /\ count' = count - 1
    /\ key' = Touched
    /\ Goto(s, "denied")
    /\ UNCHANGED <<over, lost>>

\* record_audit("logs.tail.start"): the stream opens, or the failure releases.
Audit(s) ==
    /\ pc[s] = "audit"
    /\ Goto(s, "open") \/ Goto(s, "release")
    /\ UNCHANGED <<over, lost, count, key>>

\* Idle for too long, or the client went away.
Close(s) ==
    /\ pc[s] = "open"
    /\ Goto(s, "release")
    /\ UNCHANGED <<over, lost, count, key>>

\* value = DECR key
Release(s) ==
    /\ pc[s] = "release"
    /\ count' = count - 1
    /\ key' = Touched
    /\ Goto(s, IF count' <= 0 THEN "delete" ELSE "closed")
    /\ UNCHANGED <<over, lost>>

\* DELETE key, whatever its value is by now.
Delete(s) ==
    /\ pc[s] = "delete"
    /\ count' = 0
    /\ key' = "absent"
    /\ Goto(s, "closed")
    /\ UNCHANGED <<over, lost>>

\* The stream ends before its next command: its process dies, the command
\* raises, the tail backend raises, or its body is never started.
Lose(s) ==
    /\ pc[s] \in Places \union {"delete"}
    /\ lost' = IF pc[s] \in Places THEN lost \union {s} ELSE lost
    /\ Goto(s, "failed")
    /\ UNCHANGED <<over, count, key>>

\* Redis drops the counter when its time to live is over.
Expiry ==
    /\ key = "expiring"
    /\ OutliveExpiry \/ \A s \in Streams : pc[s] \notin Places
    /\ count' = 0
    /\ key' = "absent"
    /\ UNCHANGED <<pc, over, lost>>

Step(s) ==
    \/ Incr(s) \/ Expire(s) \/ Decr(s) \/ Audit(s) \/ Close(s)
    \/ Release(s) \/ Delete(s)

Next == (\E s \in Streams : Step(s) \/ Lose(s)) \/ Expiry

Spec == Init /\ [][Next]_vars

-----------------------------------------------------------------------------

\* The streams that a correct counter would count: they did their INCR, and
\* neither did their DECR.
Placed == {s \in Streams : pc[s] \in Places} \union lost
Open == {s \in Streams : pc[s] = "open"}

\* How many of them the counter has forgotten.
Forgotten == Cardinality(Placed) - count

\* The counter never counts a stream that gave its place back: a slot is
\* withheld only by a stream that has it, is about to give it back, or lost it
\* in a failure (tail_logs releases once on every path but those).
NoPhantomPlace == Forgotten >= 0

\* Acquire refuses a stream only when the limit is reached by streams placed
\* before it, among them refused ones that have not done their DECR.
RefusedForCause ==
    [][\A s \in Streams :
         s \in over' \ over => Cardinality(Placed \union {s}) > Limit]_vars

\* More streams than the limit are placed and not refused only by as many as
\* the counter forgot: while it forgets none, the cap holds.
CapUpToForgotten == Cardinality(Placed \ over) <= Limit + Forgotten

\* The counter forgets a stream only when its key is deleted or expires, never
\* by an interleaving of INCR and DECR alone.
ForgetsOnlyWithKey == [][Forgotten' > Forgotten => key' = "absent"]_vars

\* docs/tailing.md: "MAX_CONCURRENT_TAIL_STREAMS caps simultaneous streams per
\* API key."  Neither the DELETE of a release that races an acquisition nor
\* the expiry of a counter with open streams keeps this.
CapHolds == Cardinality(Open) <= Limit
====
