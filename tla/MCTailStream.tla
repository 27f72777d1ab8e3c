---- MODULE MCTailStream ----
(***************************************************************************)
(* Queues of one record.  A stream alone on each backend, which wants all  *)
(* records, the odd ones, or names an unsupported severity and is reached  *)
(* by the even ones; and two streams of one hub, the second with the       *)
(* unsupported severity, in either order of subscription.                  *)
(***************************************************************************)
EXTENDS TailStream

CONSTANTS s1, s2

Everything == [reached |-> Records, wanted |-> Records, unsupported |-> FALSE]
Odd == [reached |-> Records, wanted |-> {r \in Records : r % 2 = 1}, unsupported |-> FALSE]
Unsupported == [reached |-> {r \in Records : r % 2 = 0}, wanted |-> {}, unsupported |-> TRUE]

AloneOrBeside ==
    {[backend |-> b, filter |-> [s \in {s1} |-> f]] :
        b \in {"memory", "redis"}, f \in {Everything, Odd, Unsupported}}
    \union
    {[backend |-> "memory", filter |-> [s \in {s1, s2} |-> IF s = s1 THEN Everything ELSE Unsupported]]}
====
