---- MODULE MCControlPlane ----
(***************************************************************************)
(* Two organisations with an agent and a project each, a source in the     *)
(* first, an unrestricted and a restricted key of the first and a key of   *)
(* the second; three requests, of which the later ones may use what the    *)
(* earlier ones create.                                                    *)
(***************************************************************************)
EXTENDS ControlPlane

CONSTANTS o1, o2, a1, a2, p1, p2, s1, k1, k2, k3, r1, r2, r3

\* A function from a set of pairs.
Table(rows) == [x \in {row[1] : row \in rows} |-> (CHOOSE row \in rows : row[1] = x)[2]]

Orgs == {o1, o2}
Agents == Table({<<a1, o1>>, <<a2, o2>>})
Projects == Table({<<p1, o1>>, <<p2, o2>>})
Sources == Table({<<s1, [org |-> o1, project |-> p1]>>})
Grant(o, a, ps, ss) == [org |-> o, agent |-> a, scopes |-> Scopes, projects |-> ps, sources |-> ss]
SeededKeys == Table({<<k1, Grant(o1, a1, {}, {})>>, <<k2, Grant(o1, a1, {}, {s1})>>,
                     <<k3, [Grant(o2, a2, {}, {}) EXCEPT !.scopes = {"sources.create", "api_keys.create"}]>>})

Ask(op, k) == [op |-> op, key |-> k, org |-> NoId, project |-> NoId, source |-> NoId,
               agent |-> NoId, target |-> NoId, projects |-> << >>, sources |-> << >>,
               scopes |-> {}]
NewKeyFor(k, o, a, ps, ss) ==
    [Ask("api_keys.create", k) EXCEPT !.org = o, !.agent = a, !.projects = ps, !.sources = ss,
                                      !.scopes = {"logs.write"}]
Source(k, p) == [Ask("sources.create", k) EXCEPT !.project = p]
Write(k, p, s) == [Ask("logs.write", k) EXCEPT !.project = p, !.source = s]

First == {Ask("orgs.create", NoId), Source(k1, p1), [Ask("projects.create", k1) EXCEPT !.org = o1],
          [Ask("agents.create", k1) EXCEPT !.org = o1], NewKeyFor(k1, o1, a1, <<p1>>, <<s1>>)}
Second == {[Ask("projects.create", r1) EXCEPT !.org = r1], Source(k1, r1), Source(k3, r1),
           NewKeyFor(k1, o1, a1, << >>, <<r1>>), NewKeyFor(k3, o2, a2, << >>, <<r1>>),
           NewKeyFor(k1, o1, r1, <<p1>>, << >>),
           [Ask("api_keys.revoke", k1) EXCEPT !.target = k2],
           [Ask("api_keys.revoke", k1) EXCEPT !.target = r1]}
Third == {Write(k2, NoId, NoId), Write(k1, NoId, NoId), Write(r1, NoId, NoId), Write(r2, NoId, NoId),
          Write(k1, p1, r1), Write(k2, NoId, r1), Source(r1, r2), Write(k2, r1, NoId),
          [Ask("logs.tail.start", k2) EXCEPT !.project = p1],
          [Ask("logs.tail.start", k1) EXCEPT !.project = p1, !.source = r1],
          [Ask("api_keys.revoke", k3) EXCEPT !.target = r1]}

ThreeCalls ==
    {[r \in Requests |-> IF r = r1 THEN x ELSE IF r = r2 THEN y ELSE z] :
       x \in First, y \in Second, z \in Third}
====
