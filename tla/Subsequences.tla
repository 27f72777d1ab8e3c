---- MODULE Subsequences ----
(***************************************************************************)
(* The part of a sequence at some of its indices, in order: what           *)
(* [item for index, item in enumerate(s) if index in I] is in Python.      *)
(***************************************************************************)
EXTENDS Integers, Sequences, FiniteSets

Rank(I, i) == Cardinality({k \in I : k <= i})
Place(I, n) == CHOOSE i \in I : Rank(I, i) = n
Picked(s, I) == [n \in 1..Cardinality(I) |-> s[Place(I, n)]]
====
