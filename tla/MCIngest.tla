---- MODULE MCIngest ----
(***************************************************************************)
(* Calls for the run of Ingest alone: callers of one key that share an     *)
(* idempotency key, with the same and with another payload.                *)
(***************************************************************************)
EXTENDS Ingest, TLC

CONSTANTS k1, k2, p1, i1

Ask(k, p, i, n) ==
    [key |-> k, project |-> p, idem |-> i, severityKnown |-> TRUE, size |-> n, old |-> FALSE]

\* One API key and one idempotency key, with and without a changed payload.
SameKeyInputs == {Ask(k1, p1, i1, 1), Ask(k1, p1, i1, 2)}

\* Both keys may write to the project.
Grants == {<<k1, p1>>, <<k2, p1>>}

Symmetry == Permutations(Requests)
====
