-------------------------- MODULE OrganizationGraph --------------------------
(***************************************************************************)
(* The organization graph and its validation (src/yoma/office/intelligence *)
(* /organization_runtime.py, organization_graph.py,                        *)
(* organization_validator.py): a graph is derived from the lists of        *)
(* organizations, locations, departments, teams and employees, and what    *)
(* is wrong with the lists is reported. A change event makes both stale    *)
(* until the lists are given again.                                        *)
(*                                                                         *)
(* The models themselves are no part of the source: an entry is what the   *)
(* code reads of one, [kind, id, refs], with None for a reference it lacks.*)
(* A location, a department and a team have their organization.            *)
(***************************************************************************)
EXTENDS Integers, Sequences, SequencesExt, FiniteSets, FiniteSetsExt

CONSTANTS
  Entries,     \* the entries a caller may list
  MaxEntries,  \* bound: entries in all lists
  None

RefKinds == {"organization", "location", "department", "team", "manager"}
EntityKinds == <<"organization", "location", "department", "team", "employee">>

ASSUME GraphAssumption ==
  /\ MaxEntries \in Nat
  /\ \A e \in Entries :
       /\ e.kind \in Range(EntityKinds) /\ DOMAIN e.refs = RefKinds
       /\ e.kind \in {"location", "department", "team"} => e.refs["organization"] # None

VARIABLES
  listed,    \* the lists, in the order of their entries
  stale,     \* _stale
  listening  \* _event_bus: the runtime is subscribed

graphVars == <<listed, stale, listening>>

OfKind(kind) == {e \in Range(listed) : e.kind = kind}
EntityIds(kind) == {e.id : e \in OfKind(kind)}
\* Looked up by id, the last entry of a kind stands for all of them.
Places(kind, id) == {n \in DOMAIN listed : listed[n].kind = kind /\ listed[n].id = id}
Entry(kind, id) == listed[Max(Places(kind, id))]

References(e) == {ref \in RefKinds : e.refs[ref] # None}
TargetKind(ref) == IF ref = "manager" THEN "employee" ELSE ref

----------------------------------------------------------------------------
\* The graph (OrganizationGraph). Nodes are keyed by id alone: the later kind wins.

Nodes == {e.id : e \in Range(listed)}
NodeKind(id) == EntityKinds[Max({n \in DOMAIN EntityKinds : id \in EntityIds(EntityKinds[n])})]

Relationship(kind, ref) ==
  CASE ref = "organization" -> "BELONGS_TO"
    [] ref = "location" -> "LOCATED_AT"
    [] ref = "manager" -> IF kind = "employee" THEN "REPORTS_TO" ELSE "MANAGED_BY"
    [] ref \in {"department", "team"} -> IF kind = "team" THEN "PART_OF" ELSE "MEMBER_OF"

\* An edge to what is no node is dropped.
EdgesOf(e) ==
  {<<e.id, Relationship(e.kind, ref), e.refs[ref]>> :
     ref \in {r \in References(e) : e.refs[r] \in Nodes}}
Edges == UNION {EdgesOf(e) : e \in Range(listed)}

Children(id, relationship) == {t \in Nodes : <<id, relationship, t>> \in Edges}
MembersOf(id) == {s \in Nodes : <<s, "MEMBER_OF", id>> \in Edges}
MemberUnits(id, kind) == {t \in Children(id, "MEMBER_OF") : NodeKind(t) = kind}
OrganizationsOf(id) == {t \in Children(id, "BELONGS_TO") : NodeKind(t) = "organization"}

\* organizational_path: the organization of the employee, else of the department.
PathOrganization(id) ==
  IF OrganizationsOf(id) # {} THEN OrganizationsOf(id)
  ELSE UNION {OrganizationsOf(d) : d \in MemberUnits(id, "department")}
OrganizationalPath(id) ==
  IF id \notin Nodes \/ NodeKind(id) # "employee" THEN <<>>
  ELSE <<{id}, MemberUnits(id, "team"), MemberUnits(id, "department"), PathOrganization(id)>>

----------------------------------------------------------------------------
\* What is wrong with the lists (OrganizationGraphValidator.validate).

\* Mutant: managers are not looked up.
MissingUnit(e) ==
  {<<"missing_reference", e.id, e.refs[ref]>> :
     ref \in {r \in References(e) \ {"manager"} : e.refs[r] \notin EntityIds(TargetKind(r))}}

Missing(e) ==
  {<<"missing_reference", e.id, e.refs[ref]>> :
     ref \in {r \in References(e) : e.refs[r] \notin EntityIds(TargetKind(r))}}

\* A unit belongs with what it is in: compared where the reference and both organizations are known.
Containers(e) ==
  CASE e.kind = "department" -> {"location"}
    [] e.kind = "team" -> {"department"}
    [] e.kind = "employee" -> {"department", "team", "location"}
    [] OTHER -> {}
Mismatched(e) ==
  {<<"organization_mismatch", e.id, e.refs[ref]>> :
     ref \in {r \in Containers(e) \cap References(e) :
                /\ e.refs[r] \in EntityIds(r)
                /\ e.refs["organization"] # None
                /\ Entry(r, e.refs[r]).refs["organization"] # e.refs["organization"]}}

Duplicates(kind) ==
  {<<"duplicate_id", id, None>> :
     id \in {i \in EntityIds(kind) : Cardinality(Places(kind, i)) > 1}}

Issues ==
  (UNION {Missing(e) \cup Mismatched(e) : e \in Range(listed)})
    \cup (UNION {Duplicates(kind) : kind \in Range(EntityKinds)})

----------------------------------------------------------------------------
GraphInit == listed = <<>> /\ stale = FALSE /\ listening \in BOOLEAN

\* refresh(): whatever changed meanwhile, the lists given count as current. They have one entry
\* more than those before, so that lists of every content are given.
RefreshGraph(entry) ==
  /\ Len(listed) < MaxEntries
  /\ listed' = Append(listed, entry)
  /\ stale' = FALSE
  /\ UNCHANGED listening

HandleEvent ==
  /\ listening
  /\ stale' = TRUE
  /\ UNCHANGED <<listed, listening>>

StopListening == listening /\ listening' = FALSE /\ UNCHANGED <<listed, stale>>

GraphNext == (\E entry \in Entries : RefreshGraph(entry)) \/ HandleEvent \/ StopListening

GraphSpec == GraphInit /\ [][GraphNext]_graphVars

----------------------------------------------------------------------------
\* The lists hold entries, edges join nodes.
GraphTypeOK ==
  /\ listed \in Seq(Entries) /\ Len(listed) <= MaxEntries
  /\ stale \in BOOLEAN /\ listening \in BOOLEAN
  /\ \A edge \in Edges : edge[1] \in Nodes /\ edge[3] \in Nodes

\* The graph drops a reference only where the validator reports it: no relationship
\* of an entry disappears without an issue that names the entry and the target.
DroppedIsReported ==
  \A e \in Range(listed) : \A ref \in References(e) :
    \/ <<e.id, Relationship(e.kind, ref), e.refs[ref]>> \in Edges
    \/ <<"missing_reference", e.id, e.refs[ref]>> \in Issues

IdsAreOfOneKind ==
  \A k, m \in Range(EntityKinds) : k # m => EntityIds(k) \cap EntityIds(m) = {}

\* Where nothing is reported and no id serves two kinds, the path of an employee is
\* what the employee's entry says, and what it passes through is of its organization.
ValidPathsAgree ==
  Issues = {} /\ IdsAreOfOneKind =>
    \A e \in OfKind("employee") :
      LET path == OrganizationalPath(e.id)
          own == {e.refs["organization"]} \ {None}
      IN /\ path[2] = {e.refs["team"]} \ {None}
         /\ path[3] = {e.refs["department"]} \ {None}
         /\ own # {} => \A u \in path[2] \cup path[3] : OrganizationsOf(u) = own
         /\ own # {} \/ path[3] # {} => Cardinality(path[4]) = 1
         /\ \A u \in path[2] \cup path[3] : e.id \in MembersOf(u)
=============================================================================
