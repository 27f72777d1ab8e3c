---- MODULE MCSearch ----
(***************************************************************************)
(* Three logs in two sources of a project and one in another, with two     *)
(* ticks to a second: two of the logs share their seconds, and one of them *)
(* lies before the range of a request but in its first second.  A text     *)
(* across fields, and attributes that are a string, a boolean or absent.   *)
(* Unrestricted and restricted keys, pages of one or two logs, the three   *)
(* orders, an export.                                                      *)
(***************************************************************************)
EXTENDS Search

CONSTANTS p1, p2, s1, s2, s3

Log(p, s, t, n, sev, equal, text, attributes) ==
    [project |-> p, source |-> s, timestamp |-> t, received |-> n, severity |-> sev,
     equal |-> equal, text |-> text, attributes |-> attributes]
Of(type, text) == [k \in {"k"} |-> [type |-> type, text |-> text]]
FourLogs ==
    << Log(p1, s1, 4, 2, "error", TRUE, "within", Of("string", "true")),
       Log(p2, s3, 3, 4, "error", TRUE, "within", << >>),
       Log(p1, s2, 6, 6, "error", FALSE, "across", Of("bool", "true")),
       Log(p1, s1, 7, 7, "info", TRUE, "without", << >>) >>

OrgGrants == [projects |-> {p1}, sources |-> [s \in {s1, s2} |-> p1]]
Names == [n \in {"err", "error", "info"} |-> IF n = "info" THEN "info" ELSE "error"]

Base == [key |-> [projects |-> {}, sources |-> {}], project |-> p1, from |-> 2, to |-> 9,
         sources |-> {}, severity |-> {}, equals |-> FALSE, text |-> FALSE, attributes |-> << >>,
         sort |-> "timestamp_desc", limit |-> 1, export |-> FALSE]
ManyRequests ==
    {Base, [Base EXCEPT !.sort = "timestamp_asc", !.limit = 9],
     [Base EXCEPT !.sort = "received_at_desc", !.severity = {"err"}, !.limit = 2],
     [Base EXCEPT !.key = [projects |-> {p1}, sources |-> {s1}], !.from = 5],
     [Base EXCEPT !.key = [projects |-> {}, sources |-> {s1}], !.sources = {s2}],
     [Base EXCEPT !.sources = {s1}, !.equals = TRUE], [Base EXCEPT !.project = p2],
     [Base EXCEPT !.to = 19], [Base EXCEPT !.severity = {"loud"}],
     [Base EXCEPT !.text = TRUE, !.limit = 2], [Base EXCEPT !.attributes = Of("string", "true")],
     [Base EXCEPT !.attributes = Of("bool", "true")], [Base EXCEPT !.attributes = Of("null", "null")],
     [Base EXCEPT !.limit = 9, !.export = TRUE, !.key = [projects |-> {p1}, sources |-> {s2}]]}
====
