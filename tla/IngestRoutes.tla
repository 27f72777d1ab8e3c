---- MODULE IngestRoutes ----
(***************************************************************************)
(* POST /v1/logs and POST /v1/logs/batch (routes_logs.py) over the store's *)
(* ingest_log: a post hands its items to the store one after the other,    *)
(* the next one when the one before is answered.  An APIError of an item   *)
(* is part of the answer; any other exception ends the post, which then    *)
(* says nothing of the items already stored.  A post of one log is a batch *)
(* of one here, whose answer is that item's.                               *)
(*                                                                         *)
(* The request of Ingest for item i of post p is <<p, i>>.  A client       *)
(* retries a post by another post; the history variable seen tells which   *)
(* posts had ended when a post arrived.                                    *)
(***************************************************************************)
EXTENDS IngestQuota, Sequences

CONSTANTS
    Posts,          \* posts, retries included
    MaxItems,       \* MAX_BATCH_ITEMS
    PostInputs,     \* posts: [key, batchKey, items]
    Workloads       \* the posts clients make, by the name of the post

\* f"{payload.idempotency_key}:{index}" when the batch has a key, else the
\* item's own.  (The mutant forgets the index.)
IdemOfBatch(input, i) ==
    IF input.batchKey # NoIdem THEN <<input.batchKey, 1>> ELSE input.items[i].idem

IdemOf(input, i) ==
    IF input.batchKey # NoIdem THEN <<input.batchKey, i>> ELSE input.items[i].idem

\* What item i asks of the store.
ItemCall(input, i) ==
    LET item == input.items[i] IN
    [key |-> input.key, project |-> item.project, idem |-> IdemOf(input, i),
     severityKnown |-> item.severityKnown, size |-> item.size, old |-> item.old]

\* A post with fewer items uses fewer of the requests; the others never start.
CallOf(input, i) ==
    IF i > Len(input.items) THEN CHOOSE c \in Inputs : TRUE ELSE ItemCall(input, i)

ASSUME RoutesAssumption ==
    /\ Requests = Posts \X (1..MaxItems)
    /\ MaxItems \in Nat \ {0}
    /\ Workloads \subseteq [Posts -> PostInputs]
    /\ \A input \in PostInputs :
         /\ Len(input.items) \in 0..MaxItems
         /\ \A i \in 1..MaxItems : CallOf(input, i) \in Inputs

VARIABLES
    post,           \* post[p]: what is posted
    stage,          \* stage[p]: "arrives", "items", "answered", "refused" or "failed"
    next,           \* next[p]: the item in work
    seen            \* seen[p]: the posts that had ended when p arrived

routeVars == <<post, stage, next, seen>>
allVars == <<vars, routeVars>>

Ended == {"answered", "refused", "failed"}
Items(p) == 1..Len(post[p].items)

RoutesTypeOK ==
    /\ TypeOK
    /\ post \in Workloads
    /\ stage \in [Posts -> {"arrives", "items"} \union Ended]
    /\ next \in [Posts -> 1..(MaxItems + 1)]
    /\ seen \in [Posts -> SUBSET Posts]

RoutesInit ==
    /\ post \in Workloads
    /\ call = [r \in Requests |-> CallOf(post[r[1]], r[2])]
    /\ Init
    /\ stage = [p \in Posts |-> "arrives"]
    /\ next = [p \in Posts |-> 1]
    /\ seen = [p \in Posts |-> {}]

\* check_rate, the number of items (one at least) and the size of the whole:
\* refused here, or the loop over the items begins.
Arrive(p) ==
    /\ stage[p] = "arrives"
    /\ Items(p) # {}
    /\ stage' = [stage EXCEPT ![p] = "items"]
    /\ seen' = [seen EXCEPT ![p] = {q \in Posts : stage[q] \in Ended}]
    /\ UNCHANGED <<vars, post, next>>

Refuse(p) ==
    /\ stage[p] = "arrives"
    /\ stage' = [stage EXCEPT ![p] = "refused"]
    /\ UNCHANGED <<vars, post, next, seen>>

\* The item in work is too large for enforce_payload_size.
TooLarge(p) == post[p].items[next[p]].tooLarge

\* The item in work is done; after the last one the post is answered.
Advance(p) ==
    /\ next' = [next EXCEPT ![p] = @ + 1]
    /\ stage' = [stage EXCEPT ![p] = IF next[p] = Len(post[p].items) THEN "answered" ELSE @]
    /\ UNCHANGED <<vars, post, seen>>

RejectItem(p) == stage[p] = "items" /\ TooLarge(p) /\ Advance(p)

\* A step of store.ingest_log for the item in work.
IngestItem(p) ==
    /\ stage[p] = "items" /\ ~TooLarge(p)
    /\ Step(<<p, next[p]>>)
    /\ UNCHANGED routeVars

\* The record or the APIError of ingest_log: accepted or rejected.
TakeAnswer(p) == stage[p] = "items" /\ pc[<<p, next[p]>>] \in Answers /\ Advance(p)

\* Any other exception passes the loop: answered 500.  (The mutant catches it
\* like an APIError.)
FailItemCaught(p) ==
    /\ stage[p] = "items"
    /\ Fail(<<p, next[p]>>)
    /\ next' = [next EXCEPT ![p] = @ + 1]
    /\ stage' = [stage EXCEPT ![p] = IF next[p] = Len(post[p].items) THEN "answered" ELSE @]
    /\ UNCHANGED <<post, seen>>

FailItem(p) ==
    /\ stage[p] = "items"
    /\ Fail(<<p, next[p]>>)
    /\ stage' = [stage EXCEPT ![p] = "failed"]
    /\ UNCHANGED <<post, next, seen>>

\* The process dies with every post it is handling.
CrashPosts ==
    /\ \E p \in Posts : stage[p] = "items"
    /\ dead' = dead \union {r \in Requests : InFlight(r)}
    /\ stage' = [p \in Posts |-> IF stage[p] = "items" THEN "failed" ELSE stage[p]]
    /\ UNCHANGED <<call, pc, found, quotas, stores, post, next, seen>>

RoutesNext ==
    \/ \E p \in Posts : \/ Arrive(p) \/ Refuse(p) \/ RejectItem(p)
                        \/ IngestItem(p) \/ TakeAnswer(p) \/ FailItem(p)
    \/ CrashPosts
    \/ \E l \in Requests : ExpireLog(l) /\ UNCHANGED routeVars

RoutesSpec == RoutesInit /\ [][RoutesNext]_allVars

-----------------------------------------------------------------------------

\* What the answer lists of the items done: accepted with the id of a log,
\* rejected otherwise.
Accepted(p) == {i \in Items(p) : i < next[p] /\ pc[<<p, i>>] \in {"created", "replayed"}}
Rejected(p) == {i \in Items(p) : i < next[p]} \ Accepted(p)
LogOf(p, i) == IF pc[<<p, i>>] = "created" THEN <<p, i>> ELSE found[<<p, i>>]

\* A post that goes on after an item knows its outcome: what it will report
\* rejected was not stored, except when only the publication refused it, and
\* of the items it did not come to nothing is stored.
ReportedAsStored ==
    \A p \in Posts :
        /\ \A i \in Accepted(p) : LogOf(p, i) \in chLogs
        /\ \A i \in Rejected(p) : <<p, i>> \in chLogs => pc[<<p, i>>] = "publishRefused"
        /\ \A i \in Items(p) : i > next[p] => <<p, i>> \notin chLogs

\* The keys derived for the items of a batch keep them apart: no two items are
\* answered with the same log, also when they are retried or raced.
ItemsKeptApart ==
    \A p \in Posts : post[p].batchKey # NoIdem =>
        \A i, j \in Accepted(p) : i # j => LogOf(p, i) # LogOf(p, j)

\* A post that arrives after another one with its idempotency keys has ended
\* stores again at most the item at which that one broke off.  This is what
\* makes the retry of a batch that was answered 500 or not at all tolerable,
\* whatever other posts race with both.
RetryStoresTheRest ==
    \A q \in Posts : \A p \in seen[q] : \A i \in Items(p), j \in Items(q) :
        /\ Row(<<p, i>>) = Row(<<q, j>>) /\ call[<<p, i>>].idem # NoIdem
        /\ {<<p, i>>, <<q, j>>} \subseteq chLogs
        => stage[p] = "failed" /\ i = next[p]

\* What plan/05-log-ingestion-prd.md promises of a batch, that it reports the
\* accepted and the rejected items: a rejected item is not stored.  A record
\* that the publication refuses is stored and reported rejected.
RejectedNotStored == \A p \in Posts : \A i \in Rejected(p) : <<p, i>> \notin chLogs

\* Every step of the routes is one of the store's, or leaves the store alone.
KeepsIngest == Spec
====
