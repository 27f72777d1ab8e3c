---- MODULE Tenants ----
(***************************************************************************)
(* The tables of the control plane and what a request may do to them: the  *)
(* checks that a key's grants are put to (access.py and the helpers of the *)
(* stores) and the rows that each operation writes.  Registry and          *)
(* ControlPlane share them and differ in when they are done.               *)
(*                                                                         *)
(* A row is named by the request that created it, or by a seed.  A key is  *)
(* a record [org, agent, scopes, projects, sources]; empty sets of projects*)
(* and sources grant all of the org.  The scope an operation requires is   *)
(* named like the operation.                                               *)
(***************************************************************************)
EXTENDS Integers, Sequences, FiniteSets, Functions

CONSTANTS
    Requests,       \* requests to the control plane, and log writes
    Workloads,      \* the calls of the requests: [Requests -> call]
    NoId,           \* no id is given
    SeedOrgs, SeedAgents, SeedProjects, SeedSources, SeedKeys,
    MayExpire       \* keys with an expires_at

Scopes == {"projects.create", "agents.create", "sources.create", "api_keys.create",
           "api_keys.revoke", "logs.write", "logs.tail.start"}
Operations == Scopes \union {"orgs.create"}

\* The ids that rows have, or that a call may name.
Ids == Requests \union SeedOrgs \union DOMAIN SeedAgents \union DOMAIN SeedProjects
       \union DOMAIN SeedSources \union DOMAIN SeedKeys

Calls == [op : Operations, key : Ids \union {NoId}, org : Ids \union {NoId},
          project : Ids \union {NoId}, source : Ids \union {NoId}, agent : Ids \union {NoId},
          target : Ids \union {NoId}, projects : Seq(Ids), sources : Seq(Ids),
          scopes : SUBSET Scopes]

KeyRows == [org : Ids, agent : Ids, scopes : SUBSET Scopes, projects : SUBSET Ids,
            sources : SUBSET Ids]
SourceRows == [org : Ids, project : Ids]

ASSUME TenantsAssumption ==
    /\ NoId \notin Ids
    /\ \A w \in Workloads : w \in [Requests -> Calls]
    /\ Requests \intersect (SeedOrgs \union DOMAIN SeedAgents \union DOMAIN SeedProjects
                            \union DOMAIN SeedSources \union DOMAIN SeedKeys) = {}

\* The seeds are rows that the operations below could have made.
ASSUME SeedsAssumption ==
    /\ SeedAgents \in [DOMAIN SeedAgents -> SeedOrgs]
    /\ SeedProjects \in [DOMAIN SeedProjects -> SeedOrgs]
    /\ SeedSources \in [DOMAIN SeedSources -> SourceRows]
    /\ SeedKeys \in [DOMAIN SeedKeys -> KeyRows]
    /\ \A s \in DOMAIN SeedSources : LET row == SeedSources[s] IN
         row.project \in DOMAIN SeedProjects /\ SeedProjects[row.project] = row.org
    /\ \A k \in DOMAIN SeedKeys : LET row == SeedKeys[k] IN
         /\ row.agent \in DOMAIN SeedAgents /\ SeedAgents[row.agent] = row.org
         /\ \A p \in row.projects : p \in DOMAIN SeedProjects /\ SeedProjects[p] = row.org
         /\ \A s \in row.sources : s \in DOMAIN SeedSources /\ SeedSources[s].org = row.org

VARIABLES
    call,           \* call[r]: what request r asks for
    orgs,           \* the tables of Postgres, by id: the set of organisations,
    agents,         \* the org of an agent,
    projects,       \* the org of a project,
    sources,        \* the org and the project of a source,
    keys,           \* the key records,
    revoked,        \* keys with a revoked_at
    expired         \* keys whose expires_at has passed

tables == <<orgs, agents, projects, sources, keys, revoked>>

TablesInit ==
    /\ call \in Workloads
    /\ orgs = SeedOrgs
    /\ agents = SeedAgents
    /\ projects = SeedProjects
    /\ sources = SeedSources
    /\ keys = SeedKeys
    /\ revoked = {}
    /\ expired = {}

\* A table with one more row.
With(table, id, row) == [x \in DOMAIN table \union {id} |-> IF x = id THEN row ELSE table[x]]

-----------------------------------------------------------------------------

KeyOf(r) == keys[call[r].key]

ProjectAllowed(key, p) == key.projects = {} \/ p \in key.projects
SourceAllowed(key, s) == key.sources = {} \/ s \in key.sources

ProjectForKey(key, p) ==
    p \in DOMAIN projects /\ projects[p] = key.org /\ ProjectAllowed(key, p)

SourceForKey(key, s) ==
    /\ s \in DOMAIN sources /\ sources[s].org = key.org
    /\ ProjectAllowed(key, sources[s].project) /\ SourceAllowed(key, s)

\* The key is neither revoked nor expired.
Valid(k) == k \in DOMAIN keys \ (revoked \union expired)

\* The scope of the operation, and require_key_org where the call names an org.
Permitted(r) == call[r].op \in KeyOf(r).scopes /\ call[r].org \in {NoId, KeyOf(r).org}

\* The project that the call names, if it names one, is the source's.
InNamedProject(r, s) == call[r].project \in {NoId, sources[s].project}

\* _single_source_for_key: the sources that a write without one may go to.
\* (The mutant leaves out source_allowed.)
CandidatesOfProjects(r) ==
    {s \in DOMAIN sources : /\ sources[s].org = KeyOf(r).org
                            /\ ProjectAllowed(KeyOf(r), sources[s].project)
                            /\ InNamedProject(r, s)}

Candidates(r) == {s \in DOMAIN sources : SourceForKey(KeyOf(r), s) /\ InNamedProject(r, s)}

\* The reads of create_api_key.  (The mutant forgets the sources that the new
\* key is granted.)
KeyChecksButSources(c) ==
    << <<"agent", c.agent>> >> \o [i \in DOMAIN c.projects |-> <<"project", c.projects[i]>>]

KeyChecks(c) ==
    << <<"agent", c.agent>> >> \o [i \in DOMAIN c.projects |-> <<"project", c.projects[i]>>]
                               \o [i \in DOMAIN c.sources |-> <<"source", c.sources[i]>>]

\* _resolve_project_source reads the source that a write names and then its
\* project; s is that source, or the candidate found for a write without one.
WriteChecks(r, s) ==
    IF call[r].source # NoId THEN << <<"source", s>>, <<"projectOf", s>> >>
    ELSE << <<"projectOf", s>> >>

\* ensure_tail_allowed reads the source that a tail names, or its project.
TailChecks(r) ==
    << IF call[r].source # NoId THEN <<"source", call[r].source>>
       ELSE <<"project", call[r].project>> >>

\* The reads that an operation makes before it writes, in order.
Checks(r, s) ==
    LET c == call[r] IN
    CASE c.op \in {"projects.create", "agents.create"} -> << <<"org", c.org>> >>
      [] c.op = "sources.create" -> << <<"project", c.project>> >>
      [] c.op = "api_keys.create" -> KeyChecks(c)
      [] c.op = "api_keys.revoke" -> << <<"key", c.target>> >>
      [] c.op = "logs.write" -> WriteChecks(r, s)
      [] c.op = "logs.tail.start" -> TailChecks(r)
      [] OTHER -> << >>

Passes(r, check) ==
    LET key == KeyOf(r)
        kind == check[1]
        id == check[2]
    IN
    \/ kind = "org" /\ id \in orgs
    \/ kind = "agent" /\ id \in DOMAIN agents /\ agents[id] = call[r].org
    \/ kind = "project" /\ ProjectForKey(key, id)
    \/ /\ kind = "source" /\ SourceForKey(key, id)
       /\ call[r].op = "logs.tail.start" => InNamedProject(r, id)
    \/ kind = "projectOf" /\ ProjectForKey(key, sources[id].project) /\ InNamedProject(r, id)
    \/ kind = "key" /\ id \in DOMAIN keys /\ keys[id].org = key.org

-----------------------------------------------------------------------------

\* The key that comes with a new org, and the one that a call asks for.
OwnerKey(r) == [org |-> r, agent |-> r, scopes |-> Scopes, projects |-> {}, sources |-> {}]
NewKey(r) == [org |-> call[r].org, agent |-> call[r].agent, scopes |-> call[r].scopes,
              projects |-> Range(call[r].projects), sources |-> Range(call[r].sources)]

\* The rows that the operation of r inserts or updates.
WriteRows(r) ==
    LET c == call[r] IN
    \/ /\ c.op = "orgs.create"
       /\ orgs' = orgs \union {r}
       /\ agents' = With(agents, r, r)
       /\ keys' = With(keys, r, OwnerKey(r))
       /\ UNCHANGED <<projects, sources, revoked>>
    \/ /\ c.op = "projects.create"
       /\ projects' = With(projects, r, c.org)
       /\ UNCHANGED <<orgs, agents, sources, keys, revoked>>
    \/ /\ c.op = "agents.create"
       /\ agents' = With(agents, r, c.org)
       /\ UNCHANGED <<orgs, projects, sources, keys, revoked>>
    \/ /\ c.op = "sources.create"
       /\ sources' = With(sources, r, [org |-> projects[c.project], project |-> c.project])
       /\ UNCHANGED <<orgs, agents, projects, keys, revoked>>
    \/ /\ c.op = "api_keys.create"
       /\ keys' = With(keys, r, NewKey(r))
       /\ UNCHANGED <<orgs, agents, projects, sources, revoked>>
    \/ /\ c.op = "api_keys.revoke"
       /\ revoked' = revoked \union {c.target}
       /\ UNCHANGED <<orgs, agents, projects, sources, keys>>
    \/ c.op \in {"logs.write", "logs.tail.start"} /\ UNCHANGED tables

\* The audit event of r.
EventOf(r) ==
    IF call[r].op = "orgs.create" THEN [request |-> r, org |-> r, key |-> r]
    ELSE [request |-> r, org |-> KeyOf(r).org, key |-> call[r].key]
====
