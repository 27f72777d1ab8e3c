---- MODULE MCAttachments ----
(***************************************************************************)
(* Two logs; the first key may read and write both, the second reads the   *)
(* first log and the third writes it.  Two uploads, or an upload and a     *)
(* reader, and a reader that may come at any time.                         *)
(***************************************************************************)
EXTENDS Attachments

CONSTANTS k1, k2, k3, l1, l2, r1, r2, r3

Reads == {<<k1, l1>>, <<k1, l2>>, <<k2, l1>>}
Writes == {<<k1, l1>>, <<k1, l2>>, <<k3, l1>>}

Ask(op, k, l, t) == [op |-> op, key |-> k, log |-> l, target |-> t, fits |-> TRUE]
Adds == {Ask("add", k1, l1, r1), Ask("add", k1, l2, r1), Ask("add", k3, l1, r1)}
AddsOrFails == Adds \union {Ask("add", k2, l1, r1), [Ask("add", k1, l1, r1) EXCEPT !.fits = FALSE]}
Readers == {Ask("list", k1, l1, r1), Ask("download", k2, l1, r1), Ask("download", k2, l1, r2),
            Ask("download", k1, l2, r1), Ask("read", k2, l1, r1), Ask("list", k3, l1, r1)}

ThreeCalls ==
    {[r \in Requests |-> IF r = r1 THEN x ELSE IF r = r2 THEN y ELSE z] :
       x \in Adds, y \in AddsOrFails \union Readers, z \in Readers}
====
