---- MODULE MCCollector ----
(***************************************************************************)
(* Two containers, a queue of one record, batches of two: the queue is     *)
(* full while a batch is sent, and a batch holds an invalid record before  *)
(* or behind a valid one, or all three when a stop lets it grow.  c1       *)
(* writes records; the lines of c2 are none, and end its follower.         *)
(***************************************************************************)
EXTENDS Collector, TLC

CONSTANTS c1, c2

MCContainers == {c1, c2}

MCLines == (c1 :> <<"valid", "invalid", "valid">>) @@ (c2 :> <<"blank", "malformed">>)
====
