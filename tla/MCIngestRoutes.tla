---- MODULE MCIngestRoutes ----
(***************************************************************************)
(* Posts of one log and of two: with one idempotency key for racing and    *)
(* retried posts of a key and of another key, with a batch key, with the   *)
(* derived key of a batch item used by a single post, with none; into two  *)
(* projects; too large, of an unknown severity, into a project outside the *)
(* grants, older than the retention, over either quota.                    *)
(***************************************************************************)
EXTENDS IngestRoutes

CONSTANTS k1, k2, p1, p2, i1, b1, a1, a2, a3

Item(p, i, n) == [project |-> p, idem |-> i, severityKnown |-> TRUE, size |-> n,
                  old |-> FALSE, tooLarge |-> FALSE]
One(k, item) == [key |-> k, batchKey |-> NoIdem, items |-> <<item>>]
Batch(k, b, x, y) == [key |-> k, batchKey |-> b, items |-> <<x, y>>]

Plain(n) == Item(p1, NoIdem, n)
Keyed == Item(p1, i1, 1)
KeyedOld == [Keyed EXCEPT !.old = TRUE]
Other == Item(p2, NoIdem, 1)
TooBig == [Plain(1) EXCEPT !.tooLarge = TRUE]
Unknown == [Plain(1) EXCEPT !.severityKnown = FALSE]
Empty == [key |-> k1, batchKey |-> NoIdem, items |-> <<>>]
KeyedBatch == Batch(k1, b1, Plain(1), Item(p2, NoIdem, 1))

\* Workloads of three posts: racing and retried singles of two keys; a batch
\* and its retry; a batch and singles with the derived key of its second item;
\* items that are rejected before and by the store; claims that exceed the
\* key's quota, the project's, or both.
Mixed == {<<One(k1, Keyed), One(k1, Item(p1, i1, 2)), One(k2, Keyed)>>,
          <<KeyedBatch, KeyedBatch, Empty>>,
          <<KeyedBatch, One(k1, Item(p2, <<b1, 2>>, 1)), Empty>>,
          <<One(k1, Plain(2)), Batch(k2, NoIdem, Other, Plain(2)), One(k1, Item(p2, NoIdem, 2))>>,
          <<Batch(k1, NoIdem, Unknown, Keyed), One(k1, KeyedOld), One(k2, TooBig)>>}
Named == {[p \in Posts |-> IF p = a1 THEN w[1] ELSE IF p = a2 THEN w[2] ELSE w[3]] : w \in Mixed}
AllPosts == UNION {{w[p] : p \in Posts} : w \in Workloads}

\* One batch without idempotency keys, for the run that expects a violation.
OnePost == {[p \in Posts |-> Batch(k1, NoIdem, Plain(1), Plain(1))]}

AllRequests == Posts \X (1..MaxItems)
AllInputs == UNION {{ItemCall(input, i) : i \in 1..Len(input.items)} : input \in PostInputs}
DerivedKeys == {i1, <<b1, 1>>, <<b1, 2>>}
Grants == {<<k1, p1>>, <<k1, p2>>, <<k2, p1>>}
====
