---- MODULE Collector ----
(***************************************************************************)
(* The Docker log collector (collector.py): one follower thread per        *)
(* container reads `docker logs --follow` and puts records on a bounded    *)
(* queue; one sender thread takes them off in batches and posts them to    *)
(* /v1/logs/batch; the main thread discovers containers, restarts          *)
(* followers that ended, and on a signal joins the sender for a while and  *)
(* lets the process exit, which kills the daemon threads.  The process may *)
(* also die at any time (a failed discovery raises through run), and       *)
(* systemd restarts it.                                                    *)
(*                                                                         *)
(* A container's output is a sequence of lines known by their kind; a      *)
(* record is <<container, line number>>.  Followers start with "--since    *)
(* now": what a container wrote while nobody followed it is never read.    *)
(*                                                                         *)
(* The API is the environment, modelled from what the collector relies on  *)
(* (routes_logs.py and main.py): a batch with an invalid item is answered  *)
(* 422 with indices of invalid items, or without them when the body is cut *)
(* off at 64 KB; otherwise the items are handled in order and each is      *)
(* stored or, with status 200, listed as rejected: over a quota or a size, *)
(* which depends on what the API holds at that attempt and may differ in   *)
(* the next; and any post may fail after any number of items was handled   *)
(* (4xx, 5xx, timeout, lost connection).  An answer that is not HTTP       *)
(* raises an HTTPException, which the sender does not catch: its thread    *)
(* ends.                                                                   *)
(***************************************************************************)
EXTENDS Subsequences, SequencesExt

CONSTANTS
    Containers,     \* containers labelled panda_trace.enabled=true
    Lines,          \* Lines[c]: the kinds of the lines that c writes
    QueueSize,      \* queue.Queue(maxsize=10_000)
    BatchSize,      \* PANDA_TRACE_BATCH_SIZE
    MaxFailures,    \* bound: posts that fail
    MaxRestarts     \* bound: restarts of the process

\* valid: the API stores or refuses it; invalid: it fails validation; blank: no
\* record; malformed: parsing it raises.
Kinds == {"valid", "invalid", "blank", "malformed"}

ASSUME CollectorAssumption ==
    /\ \A c \in Containers : Lines[c] \in Seq(Kinds)
    /\ QueueSize \in Nat \ {0}
    /\ BatchSize \in Nat \ {0}
    /\ MaxFailures \in Nat
    /\ MaxRestarts \in Nat

VARIABLES
    position,   \* position[c]: the lines of c that were read or missed so far
    follower,   \* follower[c]: what the thread that follows c is doing
    parsed,     \* records that the followers of this process read and parsed
    logs,       \* the queue of records
    batch,      \* the sender's batch
    pending,    \* what is left of the batch in the 422 recovery
    sender,     \* what the sender thread is doing
    lost,       \* what the sender thread held when it died
    main,       \* what the main thread is doing
    stop,       \* the stop event
    copies,     \* copies[r]: how often the API stored record r
    refused,    \* records the API refused once, unknown to the collector
    dropped,    \* records the collector dropped as invalid
    failures,   \* posts that failed so far
    restarts    \* restarts of the process so far

following == <<position, follower, parsed>>
sending == <<batch, pending, sender, lost>>
api == <<copies, refused, dropped>>
process == <<main, stop, restarts>>
vars == <<following, logs, sending, api, process, failures>>

Records == UNION {{c} \X DOMAIN Lines[c] : c \in Containers}
Kind(r) == Lines[r[1]][r[2]]

Init ==
    /\ position = [c \in Containers |-> 0]
    /\ follower = [c \in Containers |-> "gone"]
    /\ parsed = {}
    /\ logs = <<>>
    /\ batch = <<>>
    /\ pending = <<>>
    /\ sender = "loop"
    /\ lost = {}
    /\ main = "waiting"
    /\ stop = FALSE
    /\ copies = [r \in Records |-> 0]
    /\ refused = {}
    /\ dropped = {}
    /\ failures = 0
    /\ restarts = 0

----------------------------------------------------------------------------
(* The followers *)

\* A line arrives: after the stop event the follower leaves; a line that
\* cannot be parsed ends its thread; a blank one is skipped.
ReadLine(c) ==
    /\ follower[c] = "reading"
    /\ position[c] < Len(Lines[c])
    /\ position' = [position EXCEPT ![c] = @ + 1]
    /\ LET line == <<c, position'[c]>>
       IN \/ /\ stop \/ Kind(line) = "malformed"
             /\ follower' = [follower EXCEPT ![c] = "gone"]
             /\ UNCHANGED parsed
          \/ /\ ~stop /\ Kind(line) = "blank"
             /\ UNCHANGED <<follower, parsed>>
          \/ /\ ~stop /\ Kind(line) \in {"valid", "invalid"}
             /\ follower' = [follower EXCEPT ![c] = "putting"]
             /\ parsed' = parsed \union {line}
    /\ UNCHANGED <<logs, sending, api, process, failures>>

\* A line written while nobody follows the container: the next follower starts
\* with "--since now", after it.
MissLine(c) ==
    /\ follower[c] = "gone"
    /\ position[c] < Len(Lines[c])
    /\ position' = [position EXCEPT ![c] = @ + 1]
    /\ UNCHANGED <<follower, parsed, logs, sending, api, process, failures>>

\* PutUnbounded: the queue is made without its maxsize.
PutUnbounded(c) ==
    /\ follower[c] = "putting"
    /\ logs' = Append(logs, <<c, position[c]>>)
    /\ follower' = [follower EXCEPT ![c] = "reading"]
    /\ UNCHANGED <<position, parsed, sending, api, process, failures>>

\* logs.put blocks while the queue is full.
Put(c) ==
    /\ follower[c] = "putting"
    /\ Len(logs) < QueueSize
    /\ logs' = Append(logs, <<c, position[c]>>)
    /\ follower' = [follower EXCEPT ![c] = "reading"]
    /\ UNCHANGED <<position, parsed, sending, api, process, failures>>

\* `docker logs` ends: the container stopped, or docker did.
EndOfOutput(c) ==
    /\ follower[c] = "reading"
    /\ follower' = [follower EXCEPT ![c] = "gone"]
    /\ UNCHANGED <<position, parsed, logs, sending, api, process, failures>>

----------------------------------------------------------------------------
(* The sender *)

\* TakeOnlyFull: a batch is flushed when it is full, or on stop, never for
\* its age.
TakeOnlyFull ==
    /\ sender = "loop"
    /\ main # "exited"
    /\ ~(stop /\ logs = <<>> /\ batch = <<>>)
    /\ \/ /\ logs # <<>>
          /\ batch' = Append(batch, Head(logs))
          /\ logs' = Tail(logs)
       \/ /\ logs = <<>>
          /\ UNCHANGED <<batch, logs>>
    /\ LET flush == batch' # <<>> /\ (Len(batch') >= BatchSize \/ stop)
       IN /\ sender' = IF flush THEN "send" ELSE "loop"
          /\ pending' = IF flush THEN batch' ELSE <<>>
    /\ UNCHANGED <<following, lost, api, process, failures>>

\* TakeInFront: a record is put in front of the batch (appendleft).
TakeInFront ==
    /\ sender = "loop"
    /\ main # "exited"
    /\ logs # <<>>
    /\ batch' = <<Head(logs)>> \o batch
    /\ logs' = Tail(logs)
    /\ \E old \in BOOLEAN :
        LET flush == Len(batch') >= BatchSize \/ old \/ stop
        IN /\ sender' = IF flush THEN "send" ELSE "loop"
           /\ pending' = IF flush THEN batch' ELSE <<>>
    /\ UNCHANGED <<following, lost, api, process, failures>>

\* One round of the outer loop: get a record or run into the timeout, which is
\* the rest of flush_seconds; flush a batch that is full, old, or held on stop.
\* Whether flush_seconds have passed when a record arrives is left open.
Take ==
    /\ sender = "loop"
    /\ main # "exited"
    /\ ~(stop /\ logs = <<>> /\ batch = <<>>)
    /\ \E old \in BOOLEAN :
        /\ \/ /\ logs # <<>>
              /\ batch' = Append(batch, Head(logs))
              /\ logs' = Tail(logs)
           \/ /\ logs = <<>>
              /\ old
              /\ UNCHANGED <<batch, logs>>
        /\ LET flush == batch' # <<>> /\ (Len(batch') >= BatchSize \/ old \/ stop)
           IN /\ sender' = IF flush THEN "send" ELSE "loop"
              /\ pending' = IF flush THEN batch' ELSE <<>>
    /\ UNCHANGED <<following, lost, api, process, failures>>

SenderExits ==
    /\ sender = "loop"
    /\ main # "exited"
    /\ stop
    /\ logs = <<>>
    /\ batch = <<>>
    /\ sender' = "done"
    /\ UNCHANGED <<following, logs, batch, pending, lost, api, process, failures>>

\* The API handles the records of s: it stores some and refuses the others.  (It
\* may also store one and report it as rejected: the collector reads neither.)
Handled(s) ==
    \E stored \in SUBSET ToSet(s) :
        /\ copies' = [r \in Records |-> copies[r] + IF r \in stored THEN 1 ELSE 0]
        /\ refused' = refused \union (ToSet(s) \ stored)

Invalid(s) == {i \in DOMAIN s : Kind(s[i]) = "invalid"}

Without(s, indices) == Picked(s, DOMAIN s \ indices)

\* The sender goes on with rest; when nothing is left, the batch is cleared.
Continue(rest, state) ==
    /\ pending' = rest
    /\ batch' = IF rest = <<>> THEN <<>> ELSE batch
    /\ sender' = IF rest = <<>> THEN "loop" ELSE state

\* PostOkKeepsBatch: batch.clear() is forgotten.
PostOkKeepsBatch ==
    /\ sender = "send"
    /\ Invalid(pending) = {}
    /\ Handled(pending)
    /\ sender' = "loop"
    /\ pending' = <<>>
    /\ UNCHANGED <<following, logs, batch, lost, dropped, process, failures>>

PostOk ==
    /\ sender = "send"
    /\ Invalid(pending) = {}
    /\ Handled(pending)
    /\ Continue(<<>>, "loop")
    /\ UNCHANGED <<following, logs, lost, dropped, process, failures>>

\* PostIndicesFromOne: the indices are taken to count from one.
PostIndicesFromOne ==
    /\ sender = "send"
    /\ \E indices \in SUBSET Invalid(pending) \ {{}} :
        LET shifted == {i \in DOMAIN pending : i + 1 \in indices}
        IN /\ dropped' = dropped \union {pending[i] : i \in shifted}
           /\ Continue(Without(pending, shifted), "send")
    /\ UNCHANGED <<following, logs, lost, copies, refused, process, failures>>

\* 422 with indices of invalid items: they are dropped, the rest is sent again.
PostIndices ==
    /\ sender = "send"
    /\ \E indices \in SUBSET Invalid(pending) \ {{}} :
        /\ dropped' = dropped \union {pending[i] : i \in indices}
        /\ Continue(Without(pending, indices), "send")
    /\ UNCHANGED <<following, logs, lost, copies, refused, process, failures>>

\* 422 whose details cannot be read: the items are sent one by one.
PostNoIndices ==
    /\ sender = "send"
    /\ Invalid(pending) # {}
    /\ sender' = "single"
    /\ UNCHANGED <<following, logs, batch, pending, lost, api, process, failures>>

\* One item of the batch sent alone, answered 200 or 422.
PostSingle ==
    /\ sender = "single"
    /\ \/ /\ Kind(Head(pending)) = "invalid"
          /\ dropped' = dropped \union {Head(pending)}
          /\ UNCHANGED <<copies, refused>>
       \/ /\ Kind(Head(pending)) # "invalid"
          /\ Handled(<<Head(pending)>>)
          /\ UNCHANGED dropped
    /\ Continue(Tail(pending), "single")
    /\ UNCHANGED <<following, logs, lost, process, failures>>

\* What one post sends, and how much of it the API handled when it fails.
Posted == IF sender = "single" THEN <<Head(pending)>> ELSE pending

HandledPrefix ==
    IF Invalid(Posted) # {}
    THEN UNCHANGED <<copies, refused>>
    ELSE \E n \in 0..Len(Posted) : Handled(SubSeq(Posted, 1, n))

\* PostFailsLoses: the batch is cleared before it is sent.
PostFailsLoses ==
    /\ sender \in {"send", "single"}
    /\ failures < MaxFailures
    /\ HandledPrefix
    /\ failures' = failures + 1
    /\ sender' = "backoff"
    /\ batch' = <<>>
    /\ pending' = <<>>
    /\ UNCHANGED <<following, logs, lost, dropped, process>>

\* OSError, URLError or RuntimeError: the whole batch is tried again later.
PostFails ==
    /\ sender \in {"send", "single"}
    /\ failures < MaxFailures
    /\ HandledPrefix
    /\ failures' = failures + 1
    /\ sender' = "backoff"
    /\ pending' = <<>>
    /\ UNCHANGED <<following, logs, batch, lost, dropped, process>>

\* http.client.HTTPException is none of these: the thread ends with its batch.
PostRaises ==
    /\ sender \in {"send", "single"}
    /\ failures < MaxFailures
    /\ HandledPrefix
    /\ failures' = failures + 1
    /\ sender' = "dead"
    /\ lost' = ToSet(batch)
    /\ batch' = <<>>
    /\ pending' = <<>>
    /\ UNCHANGED <<following, logs, dropped, process>>

\* stop.wait(5), then the batch again; on stop the inner loop is left.
Retry ==
    /\ sender = "backoff"
    /\ sender' = IF stop THEN "loop" ELSE "send"
    /\ pending' = IF stop THEN <<>> ELSE batch
    /\ UNCHANGED <<following, logs, batch, lost, api, process, failures>>

----------------------------------------------------------------------------
(* The main thread and the process *)

\* The top of the main loop.
LoopTest ==
    /\ main = "waiting"
    /\ main' = IF stop THEN "joining" ELSE "discovering"
    /\ UNCHANGED <<following, logs, sending, api, stop, restarts, failures>>

\* Followers that ended are forgotten, and the containers docker lists that
\* have none get one.
Discover ==
    /\ main = "discovering"
    /\ \E listed \in SUBSET Containers :
        follower' = [c \in Containers |->
                       IF c \in listed /\ follower[c] = "gone"
                       THEN "reading" ELSE follower[c]]
    /\ main' = "waiting"
    /\ UNCHANGED <<position, parsed, logs, sending, api, stop, restarts, failures>>

Signal ==
    /\ main # "exited"
    /\ ~stop
    /\ stop' = TRUE
    /\ UNCHANGED <<following, logs, sending, api, main, restarts, failures>>

\* Everything the process held is gone; the daemon threads end with it.
ProcessEnds ==
    /\ main' = "exited"
    /\ follower' = [c \in Containers |-> "gone"]
    /\ parsed' = {}
    /\ logs' = <<>>
    /\ batch' = <<>>
    /\ pending' = <<>>
    /\ sender' = "done"
    /\ lost' = {}
    /\ UNCHANGED <<position, api, stop, restarts, failures>>

\* sender.join returns: the sender is done, or the timeout is over.
JoinReturns == main = "joining" /\ ProcessEnds

\* A kill, or an exception in the main thread (discover_targets raises).
Dies == main # "exited" /\ ProcessEnds

Restart ==
    /\ main = "exited"
    /\ restarts < MaxRestarts
    /\ restarts' = restarts + 1
    /\ main' = "waiting"
    /\ stop' = FALSE
    /\ sender' = "loop"
    /\ UNCHANGED <<following, logs, batch, pending, lost, api, failures>>

----------------------------------------------------------------------------

Follow(c) == ReadLine(c) \/ MissLine(c) \/ Put(c) \/ EndOfOutput(c)

\* What the sender does when its posts are answered.
Send == Take \/ SenderExits \/ PostOk \/ PostIndices \/ PostNoIndices \/ PostSingle \/ Retry

Next ==
    \/ \E c \in Containers : Follow(c)
    \/ Send
    \/ PostFails
    \/ PostRaises
    \/ LoopTest
    \/ Discover
    \/ Signal
    \/ JoinReturns
    \/ Dies
    \/ Restart

Spec == Init /\ [][Next]_vars

\* Threads run, a blocked get and a join time out, and a post gets an answer
\* after MaxFailures of them failed.  A put need not be preferred to the others:
\* the containers write finitely many lines.
FairSpec ==
    /\ Spec
    /\ \A c \in Containers : WF_vars(Put(c))
    /\ WF_vars(Send)
    /\ WF_vars(LoopTest)
    /\ WF_vars(Discover)
    /\ WF_vars(JoinReturns)

----------------------------------------------------------------------------
(* Properties *)

Settled(r) == copies[r] > 0 \/ r \in refused \/ r \in dropped

\* Every variable has its type; the queue never exceeds its maxsize.
TypeOK ==
    /\ position \in [Containers -> Nat] /\ \A c \in Containers : position[c] <= Len(Lines[c])
    /\ follower \in [Containers -> {"gone", "reading", "putting"}]
    /\ parsed \subseteq Records
    /\ logs \in Seq(Records) /\ Len(logs) <= QueueSize
    /\ batch \in Seq(Records)
    /\ pending \in Seq(Records)
    /\ sender \in {"loop", "send", "single", "backoff", "done", "dead"}
    /\ lost \subseteq Records
    /\ main \in {"waiting", "discovering", "joining", "exited"}
    /\ stop \in BOOLEAN
    /\ copies \in [Records -> Nat]
    /\ refused \subseteq Records
    /\ dropped \subseteq Records
    /\ failures \in 0..MaxFailures
    /\ restarts \in 0..MaxRestarts

\* The thread that follows r's container holds r and waits for the queue.
BeingPut(r) == follower[r[1]] = "putting" /\ position[r[1]] = r[2]

\* While its process lives, no record that a follower parsed gets lost unseen,
\* however the posts fail and whatever the 422 recovery drops: it waits for the
\* queue, is on it, in the batch, or settled by an answer.  The one exception is
\* the batch of a sender thread that died of an exception it does not catch
\* (_send_loop clears the batch only after it was sent, but keeps it in a local
\* variable).
NoSilentLoss ==
    /\ \A r \in parsed :
          BeingPut(r) \/ Contains(logs, r) \/ Contains(batch, r) \/ Settled(r) \/ r \in lost
    /\ lost # {} => sender = "dead"

\* The 422 recovery drops invalid records only, by index or one by one.
OnlyInvalidDropped == \A r \in dropped : Kind(r) = "invalid"

\* The API handles a container's records in the order they were written: when
\* one is stored, every earlier one that this process parsed was stored, refused
\* or dropped before (one that was refused in a post that failed may still be
\* stored by the retry, after its successors).
StoredInOrder ==
    \A r \in parsed :
        copies[r] > 0 => \A i \in 1..r[2] : <<r[1], i>> \in parsed => Settled(<<r[1], i>>)

\* A record is stored again only because a post failed, once for each of them
\* (send_batch sends no idempotency key).
DuplicatesAreRetries == \A r \in Records : copies[r] <= 1 + failures

\* A record that a follower parsed is settled in the end, unless the sender
\* thread died or the process ended first.
EventuallySettled ==
    \A r \in Records :
        r \in parsed ~> (Settled(r) \/ sender = "dead" \/ main = "exited")
====
