------------------------- MODULE ReportingStructure -------------------------
(***************************************************************************)
(* Who reports to whom, and what follows for capacity, workload, risk,     *)
(* dependency and coverage (src/yoma/office/intelligence/                  *)
(* organization_relationships.py, _capacity, _workload, _workload_risk,    *)
(* _dependency, _coverage, composed by organizational_intelligence_runtime *)
(* .py). Each analysis reads the same members and draws its own            *)
(* conclusions; two of them refuse members another one accepts.            *)
(*                                                                         *)
(* Ratios to the average are compared without division: w / (total / n) is *)
(* at least r / 2 where 2 * w * n >= r * total.                            *)
(***************************************************************************)
EXTENDS Integers, FiniteSets, FiniteSetsExt, Functions

CONSTANTS
  MemberIds,          \* ids of members
  Strangers,          \* ids a manager_id may name that are no member's
  Workloads,          \* what is observed of a member
  CapacityThreshold, CriticalDependents, ElevatedDependents,
  NoManager, NoMember

ASSUME StructureAssumption ==
  /\ IsFiniteSet(MemberIds) /\ Workloads \subseteq Nat
  /\ {CapacityThreshold, ElevatedDependents, CriticalDependents} \subseteq Nat \ {0}
  /\ ElevatedDependents <= CriticalDependents
  /\ NoManager \notin MemberIds \cup Strangers
  /\ NoMember \notin MemberIds \cup Strangers \cup {NoManager}

VARIABLES
  managers,  \* manager_id of each member, NoMember where there is no member
  workload   \* workload_by_member, zero where nothing was observed

structureVars == <<managers, workload>>

\* Twice the ratios from which a workload is medium and high.
MediumRatio == 3
HighRatio == 4

----------------------------------------------------------------------------
\* What every analysis derives from the members.

Present == {m \in MemberIds : managers[m] # NoMember}
Managed == {m \in Present : managers[m] # NoManager}
ReportsOf(id) == {m \in Managed : managers[m] = id}
\* direct_reports: whoever is named as a manager, member or not.
Named == {managers[m] : m \in Managed}

----------------------------------------------------------------------------
\* Capacity (organization_capacity.py): spans, and the depth of the hierarchy.

Span(id) == Cardinality(ReportsOf(id))
Unmanaged == Present \ Managed
Overloaded == {id \in Named : Span(id) >= CapacityThreshold}
MaximumSpan == IF Named = {} THEN 0 ELSE Max({Span(id) : id \in Named})

\* depth(): up the chain, with the members passed; one passed twice raises.
Climbed(walk) ==
  IF walk.current \in Managed \ walk.seen
  THEN [current |-> managers[walk.current], seen |-> walk.seen \cup {walk.current}]
  ELSE walk
Climb(m) ==
  LET walk[n \in 0..Cardinality(MemberIds)] ==
        IF n = 0 THEN [current |-> m, seen |-> {}] ELSE Climbed(walk[n - 1])
      last == walk[Cardinality(MemberIds)]
  IN IF last.current \in last.seen THEN -1 ELSE Cardinality(last.seen)
CapacityRaises == \E m \in Present : Climb(m) = -1
HierarchyDepth == IF Present = {} THEN 0 ELSE Max({Climb(m) : m \in Present})

----------------------------------------------------------------------------
\* Workload and its risk (organization_workload.py, organization_workload_risk.py).

Total == SumFunctionOnSet(workload, Present)
ManagerTotal(id) == SumFunctionOnSet(workload, ReportsOf(id))
MaximumWorkload == IF Present = {} THEN 0 ELSE Max({workload[m] : m \in Present})

AtLeast(m, ratio) == Total > 0 /\ 2 * workload[m] * Cardinality(Present) >= ratio * Total
WorkloadRisk(m) ==
  IF AtLeast(m, HighRatio) THEN "high" ELSE IF AtLeast(m, MediumRatio) THEN "medium" ELSE "low"
ManagerConcentrates(m) ==
  managers[m] \in Present /\ AtLeast(managers[m], HighRatio)

----------------------------------------------------------------------------
\* Dependency and coverage (organization_dependency.py, organization_coverage.py).

UnknownManagerRaises == ~(Named \subseteq Present)

DependencyLevel(m) ==
  CASE Span(m) >= CriticalDependents -> "critical"
    [] Span(m) >= ElevatedDependents /\ Span(m) < CriticalDependents -> "elevated"
    [] OTHER -> "normal"
MaximumDependents == IF Present = {} THEN 0 ELSE Max({Span(m) : m \in Present})

Uncovered == {m \in Present : m \notin Managed}
SinglePoint == {id \in Named : Span(id) = 1}
CoverageLevel(m) ==
  CASE m \notin Managed /\ Span(m) = 0 -> "uncovered"
    [] Span(m) = 1 -> "single_point"
    [] OTHER -> "covered"

----------------------------------------------------------------------------
\* The composition (organizational_intelligence_runtime.py) is validated when all are there.

CanBeBuilt == ~CapacityRaises /\ ~UnknownManagerRaises

StructureInit ==
  /\ managers = [m \in MemberIds |-> NoMember]
  /\ workload = [m \in MemberIds |-> 0]

\* The members analyzed next differ in one member, with any manager_id.
Join(m, manager, work) ==
  /\ managers[m] = NoMember
  /\ managers' = [managers EXCEPT ![m] = manager]
  /\ workload' = [workload EXCEPT ![m] = work]

StructureNext ==
  \E m \in MemberIds, manager \in MemberIds \cup Strangers \cup {NoManager}, work \in Workloads :
    Join(m, manager, work)

StructureSpec == StructureInit /\ [][StructureNext]_structureVars

----------------------------------------------------------------------------
\* Managers and workloads keep their types; only members have work.
StructureTypeOK ==
  /\ managers \in [MemberIds -> MemberIds \cup Strangers \cup {NoManager, NoMember}]
  /\ workload \in [MemberIds -> Workloads \cup {0}]
  /\ \A m \in MemberIds \ Present : workload[m] = 0

\* The depth of the hierarchy is computed, or refused, by the chains themselves: it is
\* refused exactly if somebody is among their own superiors, and otherwise no chain has
\* more links than there are members, and somebody is without a manager.
Superiors(m) ==
  LET above[n \in 0..Cardinality(MemberIds)] ==
        IF n = 0 THEN {m}
        ELSE {managers[x] : x \in above[n - 1] \cap Managed}
  IN UNION {above[n] : n \in 1..Cardinality(MemberIds)}
DepthIsExact ==
  /\ CapacityRaises <=> \E m \in Present : m \in Superiors(m)
  /\ ~CapacityRaises =>
       /\ HierarchyDepth = (IF Present = {} THEN 0
                            ELSE Max({Cardinality(Superiors(m)) : m \in Present}))
       /\ HierarchyDepth <= Cardinality(Managed)
  /\ CanBeBuilt /\ Present # {} => Unmanaged # {}

\* The analyses agree wherever all of them answer: on the widest span, on who is
\* without a manager, and on the managers with one report.
AnalysesAgree ==
  /\ CanBeBuilt =>
       /\ MaximumSpan = MaximumDependents
       /\ Overloaded # {} <=> MaximumDependents >= CapacityThreshold
       /\ (\E m \in Present : DependencyLevel(m) = "critical") <=> MaximumSpan >= CriticalDependents
       /\ Uncovered = Unmanaged
       /\ SinglePoint = {m \in Present : CoverageLevel(m) = "single_point"}
       /\ {m \in Present : CoverageLevel(m) = "uncovered"} = Unmanaged \ Named
  /\ MapThenSumSet(Span, Named) = Cardinality(Managed)
  /\ MapThenSumSet(ManagerTotal, Named) <= Total

\* At twice the average there is room for half of the members at most; everybody else has
\* less to do than any of them, so one of them has the most. A member alone is not at high
\* risk, and a manager on whom work concentrates is.
HighRiskIsRare ==
  LET high == {m \in Present : WorkloadRisk(m) = "high"}
  IN /\ 2 * Cardinality(high) <= Cardinality(Present)
     /\ \A m \in Present \ high, h \in high : workload[m] < workload[h]
     /\ high # {} => \E h \in high : workload[h] = MaximumWorkload
     /\ Total > 0 /\ Cardinality(Present) = 1 => high = {}
     /\ \A m \in Present : ManagerConcentrates(m) => high # {}
=============================================================================
