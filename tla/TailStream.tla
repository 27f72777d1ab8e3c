---- MODULE TailStream ----
(***************************************************************************)
(* What a tail stream delivers: publishers, the subscriptions of the two   *)
(* tail backends (tail.py: TailHub, with a bounded queue per subscriber,   *)
(* and RedisTailAdapter, over Redis pub/sub) and the loop that turns a     *)
(* subscription into server-sent events (routes_logs.py, tail_logs).       *)
(*                                                                         *)
(* The loop never reads its subscription itself: a task fetches the next   *)
(* record while the loop waits with a timeout, or is suspended in a yield  *)
(* until the client has taken the event.  Time is abstract: a deadline may *)
(* pass at any moment after it was set.  Slots are in TailSlots.           *)
(*                                                                         *)
(* Records are numbered in the order they are published.  A filter is      *)
(* reduced to the records that pass its project and source (reached), to   *)
(* those that it lets through in the end (wanted), and to whether it names *)
(* a severity that normalize_severity does not know (unsupported).         *)
(***************************************************************************)
EXTENDS Subsequences, SequencesExt

CONSTANTS
    Streams,        \* tail requests that got their slot
    MaxRecords,     \* bound: records published in a run
    QueueSize,      \* maxsize of a subscriber's queue
    Workloads       \* the backend, and the filters of the streams that come

Records == 1..MaxRecords
Filters == [reached : SUBSET Records, wanted : SUBSET Records, unsupported : BOOLEAN]

ASSUME TailStreamAssumption ==
    /\ MaxRecords \in Nat /\ QueueSize \in Nat \ {0}
    /\ \A w \in Workloads : \E S \in SUBSET Streams :
         w \in [backend : {"memory", "redis"}, filter : [S -> Filters]]

VARIABLES
    backend,        \* TAIL_BACKEND
    filter,         \* filter[s]: the TailFilter of stream s
    published,      \* number of records published
    raised,         \* records whose publish raised in the writer
    missed,         \* missed[s]: records that Redis did not get to stream s
    subscribers,    \* the subscribed streams, in the hub's order
    since,          \* since[s]: records published before s subscribed
    queue,          \* queue[s]: the queue of the hub, or of the connection
    task,           \* task[s]: what the task that fetches the next record does
    held,           \* held[s]: the record it returned, if the loop has not seen it
    pc,             \* pc[s]: where the loop of stream s is
    sending,        \* sending[s]: the record in the event that the client takes
    late,           \* streams whose idle deadline has passed
    delivered       \* delivered[s]: the records that the client took

hub == <<backend, filter, published, raised, missed, subscribers, since, queue>>
loop == <<pc, sending, late, delivered>>
vars == <<hub, task, held, loop>>

Ends == {"closed", "failed"}
Live(s) == pc[s] \notin Ends

\* Every variable has its type: a queue of the hub never outgrows its bound,
\* a stream is subscribed once, and only a finished fetch holds a record.
TypeOK ==
    /\ [backend |-> backend, filter |-> filter] \in Workloads
    /\ published \in 0..MaxRecords
    /\ raised \subseteq Records /\ missed \in [Streams -> SUBSET Records]
    /\ subscribers \in Seq(Streams) /\ IsInjective(subscribers)
    /\ since \in [Streams -> 0..MaxRecords]
    /\ queue \in [Streams -> Seq(Records)]
    /\ backend = "memory" => \A s \in Streams : Len(queue[s]) <= QueueSize
    /\ task \in [Streams -> {"none", "starting", "getting", "got", "raised", "abandoned"}]
    /\ held \in [Streams -> Seq(Records)]
    /\ \A s \in Streams : Len(held[s]) = IF task[s] = "got" THEN 1 ELSE 0
    /\ pc \in [Streams -> {"ready", "waiting", "sending", "beating", "closing", "leaving"} \union Ends]
    /\ sending \in [Streams -> Seq(Records)]
    /\ \A s \in Streams : Len(sending[s]) = IF pc[s] = "sending" THEN 1 ELSE 0
    /\ late \subseteq Streams
    /\ delivered \in [Streams -> Seq(Records)]

Init ==
    /\ \E w \in Workloads : backend = w.backend /\ filter = w.filter
    /\ published = 0 /\ raised = {} /\ missed = [s \in Streams |-> {}]
    /\ subscribers = << >> /\ since = [s \in Streams |-> 0]
    /\ queue = [s \in Streams |-> << >>]
    /\ task = [s \in Streams |-> "none"] /\ held = [s \in Streams |-> << >>]
    /\ pc = [s \in Streams |-> IF s \in DOMAIN filter THEN "ready" ELSE "closed"]
    /\ sending = [s \in Streams |-> << >>]
    /\ late = {} /\ delivered = [s \in Streams |-> << >>]

Become(s, t) == task' = [task EXCEPT ![s] = t]
Goto(s, l) == pc' = [pc EXCEPT ![s] = l]
Unsubscribed(S) == Picked(subscribers, {i \in DOMAIN subscribers : subscribers[i] \notin S})

\* record_matches_tail: the severities are normalised, and may raise, when the
\* project and the source have matched.
RecordMatchesTail(s, r) ==
    CASE r \notin filter[s].reached -> "no"
      [] r \in filter[s].reached /\ filter[s].unsupported -> "raises"
      [] OTHER -> IF r \in filter[s].wanted THEN "yes" ELSE "no"

-----------------------------------------------------------------------------
\* Publishing.

\* The subscribers that TailHub.publish offers the record to: those before the
\* first whose filter raises.
Raising(r) == {i \in DOMAIN subscribers : RecordMatchesTail(subscribers[i], r) = "raises"}
Takers(r) ==
    {subscribers[i] : i \in {i \in DOMAIN subscribers :
        RecordMatchesTail(subscribers[i], r) = "yes" /\ \A j \in Raising(r) : i < j}}
Full(S) == {s \in S : Len(queue[s]) >= QueueSize}
Enqueue(S, r) == queue' = [s \in Streams |-> IF s \in S THEN Append(queue[s], r) ELSE queue[s]]

\* TailHub.publish: a subscriber whose queue is full is unsubscribed, unless a
\* later filter raises.  (Mutants: the record is left out and the subscription
\* kept; the queues have no bound.)
PublishMemoryLeavesOut(r) ==
    /\ backend = "memory"
    /\ Enqueue(Takers(r) \ Full(Takers(r)), r)
    /\ raised' = IF Raising(r) = {} THEN raised ELSE raised \union {r}
    /\ UNCHANGED <<subscribers, missed>>

PublishMemoryUnbounded(r) ==
    /\ backend = "memory"
    /\ Enqueue(Takers(r), r)
    /\ raised' = IF Raising(r) = {} THEN raised ELSE raised \union {r}
    /\ UNCHANGED <<subscribers, missed>>

PublishMemory(r) ==
    /\ backend = "memory"
    /\ Enqueue(Takers(r) \ Full(Takers(r)), r)
    /\ IF Raising(r) = {}
       THEN subscribers' = Unsubscribed(Full(Takers(r))) /\ UNCHANGED raised
       ELSE raised' = raised \union {r} /\ UNCHANGED subscribers
    /\ UNCHANGED missed

\* PUBLISH: the connections that are up get the record, whatever their filters.
PublishRedis(r) ==
    /\ backend = "redis"
    /\ \E up \in SUBSET ToSet(subscribers) :
         /\ Enqueue(up, r)
         /\ missed' = [s \in Streams |-> IF s \in ToSet(subscribers) \ up THEN missed[s] \union {r}
                                         ELSE missed[s]]
    /\ UNCHANGED <<subscribers, raised>>

Publish ==
    /\ published < MaxRecords
    /\ published' = published + 1
    /\ PublishMemory(published') \/ PublishRedis(published')
    /\ UNCHANGED <<backend, filter, since, task, held, loop>>

-----------------------------------------------------------------------------
\* The task that awaits the next record of the iterator.

\* The first fetch subscribes.
Subscribe(s) ==
    /\ task[s] = "starting"
    /\ subscribers' = Append(subscribers, s)
    /\ since' = [since EXCEPT ![s] = published]
    /\ Become(s, "getting")
    /\ UNCHANGED <<backend, filter, published, raised, missed, queue, held, loop>>

\* queue.get, or get_message and the filter.
Get(s) ==
    LET r == Head(queue[s]) IN
    /\ task[s] = "getting" /\ queue[s] # << >>
    /\ queue' = [queue EXCEPT ![s] = Tail(@)]
    /\ \/ /\ backend = "memory" \/ RecordMatchesTail(s, r) = "yes"
          /\ Become(s, "got") /\ held' = [held EXCEPT ![s] = <<r>>]
          /\ UNCHANGED subscribers
       \/ /\ backend = "redis" /\ RecordMatchesTail(s, r) = "no"
          /\ UNCHANGED <<task, held, subscribers>>
       \/ /\ backend = "redis" /\ RecordMatchesTail(s, r) = "raises"
          /\ Become(s, "raised") /\ subscribers' = Unsubscribed({s})
          /\ UNCHANGED held
    /\ UNCHANGED <<backend, filter, published, raised, missed, since, loop>>

\* A Redis command raises in the task.
GetRaises(s) ==
    /\ backend = "redis" /\ task[s] \in {"starting", "getting"}
    /\ Become(s, "raised") /\ subscribers' = Unsubscribed({s})
    /\ UNCHANGED <<backend, filter, published, raised, missed, since, queue, held, loop>>

\* The iterator of a stream that ended with its fetch done is closed when it
\* is collected.
Finalize(s) ==
    /\ task[s] = "abandoned"
    /\ Become(s, "none") /\ subscribers' = Unsubscribed({s})
    /\ queue' = [queue EXCEPT ![s] = << >>]
    /\ UNCHANGED <<backend, filter, published, raised, missed, since, held, loop>>

-----------------------------------------------------------------------------
\* The loop of the events.

\* The client has taken "ready": the first fetch is created, not yet run, and
\* the idle deadline is set.
Begin(s) ==
    /\ pc[s] = "ready"
    /\ Goto(s, "waiting") /\ Become(s, "starting")
    /\ UNCHANGED <<hub, held, sending, late, delivered>>

\* The fetch is done: the next one is created and the deadline set anew before
\* the event is yielded.
Take(s) ==
    /\ pc[s] = "waiting" /\ task[s] = "got"
    /\ Goto(s, "sending") /\ sending' = [sending EXCEPT ![s] = held[s]]
    /\ Become(s, "getting") /\ held' = [held EXCEPT ![s] = << >>]
    /\ late' = late \ {s}
    /\ UNCHANGED <<hub, delivered>>

\* The wait times out, after 15 seconds or at the deadline: a heartbeat.
Beat(s) ==
    /\ pc[s] = "waiting" /\ task[s] \notin {"got", "raised"}
    /\ Goto(s, "beating")
    /\ UNCHANGED <<hub, task, held, sending, late, delivered>>

\* The client has taken the event; then the deadline is compared, whether or
\* not a record is waiting.  (Mutant: any event puts the deadline off.)
SentPutsOff(s) ==
    /\ pc[s] \in {"sending", "beating"}
    /\ delivered' = [delivered EXCEPT ![s] = @ \o sending[s]]
    /\ sending' = [sending EXCEPT ![s] = << >>]
    /\ Goto(s, "waiting")
    /\ late' = late \ {s}
    /\ UNCHANGED <<hub, task, held>>

Sent(s) ==
    /\ pc[s] \in {"sending", "beating"}
    /\ delivered' = [delivered EXCEPT ![s] = @ \o sending[s]]
    /\ sending' = [sending EXCEPT ![s] = << >>]
    /\ Goto(s, IF s \in late THEN "closing" ELSE "waiting")
    /\ UNCHANGED <<hub, task, held, late>>

\* The idle deadline passes.
Deadline(s) ==
    /\ pc[s] \in {"waiting", "sending", "beating"} /\ s \notin late
    /\ late' = late \union {s}
    /\ UNCHANGED <<hub, task, held, pc, sending, delivered>>

\* The client goes away, at any await or yield.
Disconnect(s) ==
    /\ pc[s] \in {"ready", "waiting", "sending", "beating", "closing"}
    /\ Goto(s, "leaving") /\ sending' = [sending EXCEPT ![s] = << >>]
    /\ UNCHANGED <<hub, task, held, late, delivered>>

\* result() raises what the fetch raised.
Raise(s) ==
    /\ pc[s] = "waiting" /\ task[s] = "raised"
    /\ Goto(s, "leaving")
    /\ UNCHANGED <<hub, task, held, sending, late, delivered>>

\* The finally clause: a fetch under way is cancelled and closes its iterator,
\* a finished one keeps it subscribed, one that raised raises again.
End(s) ==
    /\ pc[s] \in {"closing", "leaving"}
    /\ Goto(s, IF task[s] = "raised" THEN "failed" ELSE "closed")
    /\ held' = [held EXCEPT ![s] = << >>]
    /\ IF task[s] = "got"
       THEN Become(s, "abandoned") /\ UNCHANGED <<subscribers, queue>>
       ELSE /\ Become(s, "none") /\ subscribers' = Unsubscribed({s})
            /\ queue' = [queue EXCEPT ![s] = << >>]
    /\ UNCHANGED <<backend, filter, published, raised, missed, since, sending, late, delivered>>

Fetch(s) == Subscribe(s) \/ Get(s) \/ Finalize(s)
Run(s) == Begin(s) \/ Take(s) \/ Sent(s) \/ Raise(s) \/ End(s)

Next ==
    \/ Publish
    \/ \E s \in Streams : Fetch(s) \/ GetRaises(s) \/ Run(s) \/ Beat(s) \/ Deadline(s) \/ Disconnect(s)

Spec == Init /\ [][Next]_vars

\* Tasks that can run are run, timers fire, and a client takes what it is sent
\* or is disconnected.
FairSpec ==
    /\ Spec
    /\ \A s \in Streams : WF_vars(Fetch(s)) /\ WF_vars(Run(s)) /\ WF_vars(Beat(s)) /\ WF_vars(Deadline(s))

-----------------------------------------------------------------------------

\* What is on its way to the client of stream s, after what the client has.
Way(s) == delivered[s] \o sending[s] \o held[s] \o queue[s]
Increasing(t) == \A i, j \in DOMAIN t : i < j => t[i] < t[j]

\* What stream s should get: every matching record since it subscribed, but
\* those that Redis did not get to it or whose publish raised; and what it has.
Due(s) ==
    {r \in (since[s] + 1)..published : RecordMatchesTail(s, r) = "yes" /\ r \notin missed[s] \union raised}
Got(s) == {r \in ToSet(Way(s)) : RecordMatchesTail(s, r) = "yes" /\ r \notin raised}

\* No gap, no duplicate and no disorder in what a stream gets, as long as its
\* client stays: while it is subscribed it has every record it should, and one
\* that was unsubscribed for its full queue has all of them up to a point.
Ungapped ==
    \A s \in Streams : task[s] \in {"getting", "got", "raised"} /\ pc[s] # "leaving" =>
        /\ Increasing(Way(s))
        /\ Got(s) \subseteq Due(s)
        /\ \A r \in Got(s) : {d \in Due(s) : d < r} \subseteq Got(s)
        /\ s \in ToSet(subscribers) => Got(s) = Due(s)

\* A stream that the hub has unsubscribed for its full queue, unnoticed by it.
Evicted(s) ==
    /\ backend = "memory" /\ task[s] \in {"getting", "got"} /\ Live(s)
    /\ s \notin ToSet(subscribers)

\* A matching record that has reached stream s, unknown to its loop.
Waits(s, r) == r \in ToSet(held[s] \o queue[s]) /\ RecordMatchesTail(s, r) = "yes"
Serving(s) == pc[s] \in {"waiting", "sending", "beating"}

\* The deadline of stream s has passed with the record r waiting while the loop
\* is suspended in a yield: the one way to lose a record that has reached a
\* stream whose client stays and whose fetch does not raise.
Overtaken(s, r) == pc[s] \in {"sending", "beating"} /\ s \in late /\ Waits(s, r)

\* Of a stream that the loop serves, every matching record that has reached it
\* is delivered in the end, unless its client goes away, its fetch raises, or
\* its deadline passes during a yield; and an evicted stream, which goes on
\* with heartbeats once its queue is empty, ends.
StreamsSettle ==
    \A s \in Streams :
        /\ \A r \in Records :
             (Serving(s) /\ Waits(s, r)) ~> (r \in ToSet(delivered[s]) \/ pc[s] = "leaving" \/ Overtaken(s, r))
        /\ Evicted(s) ~> ~Live(s)

\* A stream closes at its deadline only when no matching record came before the
\* deadline passed: what came then is delivered, unless the client goes away or
\* the fetch raises.  (Violated: the deadline is compared after every yield and
\* the fetch is looked at later.)
ClosedWhenIdle ==
    \A s \in Streams : \A r \in Records :
        (Serving(s) /\ s \notin late /\ Waits(s, r)) ~>
            (r \in ToSet(delivered[s]) \/ pc[s] = "leaving" \/ task[s] = "raised")
====
