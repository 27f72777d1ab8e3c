---- MODULE MCTailSlots ----
(***************************************************************************)
(* Four streams against a limit of two: refusals, releases and deletions   *)
(* race, and a stream may come after the counter was dropped.              *)
(***************************************************************************)
EXTENDS TailSlots, TLC

CONSTANTS s1, s2, s3, s4

MCStreams == {s1, s2, s3, s4}

\* No stream is told from another.
Symmetry == Permutations(Streams)
====
