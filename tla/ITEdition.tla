----------------------------- MODULE ITEdition -----------------------------
(***************************************************************************)
(* The IT edition (src/yoma/office/it/it_edition_runtime.py): the          *)
(* portfolios of an IT organization are analyzed one by one, and what they *)
(* show together decides whether critical attention is required. Modelled  *)
(* are dependencies (it_dependencies.py), workload and capacity            *)
(* (it_workload_capacity.py), risks (it_risk_escalation.py), and of        *)
(* tickets and deployments what the composition reads of them.             *)
(*                                                                         *)
(* An item of a portfolio is a record; ids are numbers, as the code orders *)
(* them. Two dependencies of the same nodes count as one.                  *)
(***************************************************************************)
EXTENDS Integers, Sequences, SequencesExt, FiniteSets, FiniteSetsExt, Functions

CONSTANTS
  NodeItems,        \* [id, status]
  DependencyItems,  \* [source, target]
  WorkItems,        \* [id, member, hours, status]
  CapacityItems,    \* [member, hours]
  RiskItems,        \* [id, level, escalation]
  ChangeItems,      \* what tickets and deployments show: [kind, status, severity]
  MaxItems,         \* bound: items of a portfolio
  Unassigned

ASSUME ITAssumption ==
  /\ MaxItems \in Nat
  /\ \A n \in NodeItems : n.id \in Nat
  /\ \A d \in DependencyItems : d.source # d.target
  /\ NodeItems \cap DependencyItems = {}
  /\ \A w \in WorkItems : w.hours \in Nat
  /\ \A c \in CapacityItems : c.hours \in Nat
  /\ \A s \in RiskItems : /\ s.id \in Nat /\ s.escalation \in BOOLEAN
                          /\ s.level \in {"low", "normal", "high", "critical"}
  /\ \A c \in ChangeItems : c.kind \in {"incident", "deployment", "release"}

VARIABLES
  domain,      \* bound: the portfolio that has items, the others are empty
  items,       \* its items
  capacities   \* and the capacities, in the order they are listed

itVars == <<domain, items, capacities>>

Domains == {"dependencies", "workload", "risks", "changes"}

----------------------------------------------------------------------------
\* Dependencies: source and target are nodes of the portfolio.

DependencyPortfolio == IF domain = "dependencies" THEN items ELSE {}
NodesListed == DependencyPortfolio \cap NodeItems
NodeIds == {n.id : n \in NodesListed}
Depends == DependencyPortfolio \cap DependencyItems
TargetsOf(id) == {d.target : d \in {x \in Depends : x.source = id}}
SourcesOf(id) == {d.source : d \in {x \in Depends : x.target = id}}
WithStatus(statuses) == {n.id : n \in {x \in NodesListed : x.status \in statuses}}

\* visit(): the paths from start that pass no node twice.
OneFurther(paths) ==
  UNION {{Append(p, t) : t \in TargetsOf(Last(p)) \ Range(p)} : p \in paths}
PathsFrom(start) ==
  LET paths[n \in 0..Cardinality(NodeIds)] ==
        IF n = 0 THEN {<<start>>} ELSE OneFurther(paths[n - 1])
  IN UNION {paths[n] : n \in 0..Cardinality(NodeIds)}

\* canonical_cycle(): written from its least node.
FromLeast(p) ==
  LET least == CHOOSE n \in DOMAIN p : p[n] = Min(Range(p))
  IN [n \in DOMAIN p |-> p[1 + ((n + least - 2) % Len(p))]]
Cycles ==
  {FromLeast(p) : p \in {q \in UNION {PathsFrom(id) : id \in NodeIds} :
                           Len(q) >= 2 /\ q[1] \in TargetsOf(Last(q))}}

\* _count_upstream_impact(): from each blocked node against the dependencies.
\* Mutant: one step up only.
DirectlyAbove(id) == SourcesOf(id)
OneUp(found) == found \cup UNION {SourcesOf(s) : s \in found}
Above(id) ==
  LET up[n \in 0..Cardinality(NodeIds)] ==
        IF n = 0 THEN SourcesOf(id) ELSE OneUp(up[n - 1])
  IN up[Cardinality(NodeIds)]
Impacted == UNION {Above(id) : id \in WithStatus({"blocked"})}

ActiveStatuses == {"open", "in_progress"}
CriticalDependencies ==
  {d \in Depends : /\ d.source \in WithStatus(ActiveStatuses \cup {"blocked"})
                   /\ d.target \in WithStatus(ActiveStatuses)}

----------------------------------------------------------------------------
\* Workload and capacity.

Assigned ==
  IF domain # "workload" THEN {}
  ELSE {w \in items : w.status \notin {"completed", "cancelled"} /\ w.member # Unassigned}
HoursOf(ws) == MapThenSumSet(LAMBDA w : w.hours, ws)
Available == FoldLeft(LAMBDA sum, c : sum + c.hours, 0, capacities)
Shortfall == Max({0, HoursOf(Assigned) - Available})

\* Of two capacities of a member the total counts both, the comparison the last.
WithCapacity == {capacities[n].member : n \in DOMAIN capacities}
CapacityOf(m) == capacities[Max({n \in DOMAIN capacities : capacities[n].member = m})].hours
WorkOf(m) == HoursOf({w \in Assigned : w.member = m})
OverloadedMembers == {m \in WithCapacity : WorkOf(m) > CapacityOf(m)}
UnderutilizedMembers == {m \in WithCapacity : CapacityOf(m) > 0 /\ 2 * WorkOf(m) < CapacityOf(m)}

----------------------------------------------------------------------------
\* Risks and their recommendations.

RiskSignals == IF domain = "risks" THEN items ELSE {}
LevelRank(level) ==
  CASE level = "critical" -> 4 [] level = "high" -> 3 [] level = "normal" -> 2 [] level = "low" -> 1
Outranks(s, t) ==
  \/ LevelRank(s.level) > LevelRank(t.level)
  \/ s.level = t.level /\ s.escalation /\ ~t.escalation
  \/ s.level = t.level /\ s.escalation = t.escalation /\ s.id > t.id
TopSignal == {s \in RiskSignals : \A t \in RiskSignals \ {s} : Outranks(s, t)}
RecommendedRisks == {s \in RiskSignals : s.level \in {"high", "critical"} \/ s.escalation}

----------------------------------------------------------------------------
\* Tickets and deployments: open critical incidents, failed deployments and releases.

Changes == IF domain = "changes" THEN items ELSE {}
CriticalIncidents ==
  {c \in Changes : /\ c.kind = "incident" /\ c.status \notin {"resolved", "closed"}
                   /\ c.severity = "critical"}
FailedChanges == {c \in Changes : c.kind \in {"deployment", "release"} /\ c.status = "failed"}

CriticalAttention ==
  \/ \E s \in RiskSignals : s.level = "critical"
  \/ CriticalIncidents # {} \/ FailedChanges # {}
  \/ Cycles # {}
  \/ Shortfall > 0

----------------------------------------------------------------------------
ITInit == domain \in Domains /\ items = {} /\ capacities = <<>>

\* The portfolio analyzed next has one item more. An id twice, or a dependency of
\* an unknown node, raises when the portfolio is made; items of other portfolios differ.
AddNode(n) ==
  /\ domain = "dependencies" /\ n.id \notin NodeIds
  /\ items' = items \cup {n}
AddDependency(d) ==
  /\ domain = "dependencies" /\ {d.source, d.target} \subseteq NodeIds
  /\ items' = items \cup {d}
AddRisk(s) ==
  /\ domain = "risks" /\ s.id \notin {t.id : t \in items}
  /\ items' = items \cup {s}
\* An id may come twice, with other facts; an item alike in everything is one here.
AddWork(w) == domain = "workload" /\ items' = items \cup {w}
AddChange(c) == domain = "changes" /\ items' = items \cup {c}
AddCapacity(c) ==
  domain = "workload" /\ capacities' = Append(capacities, c) /\ UNCHANGED <<domain, items>>

ITNext ==
  /\ Cardinality(items) + Len(capacities) < MaxItems
  /\ \/ /\ UNCHANGED <<domain, capacities>>
        /\ \/ \E n \in NodeItems : AddNode(n)
           \/ \E d \in DependencyItems : AddDependency(d)
           \/ \E s \in RiskItems : AddRisk(s)
           \/ \E w \in WorkItems : AddWork(w)
           \/ \E c \in ChangeItems : AddChange(c)
     \/ \E c \in CapacityItems : AddCapacity(c)

ITSpec == ITInit /\ [][ITNext]_itVars

----------------------------------------------------------------------------
\* Portfolios hold items of their own domain; cycles and impact are of known nodes.
ITTypeOK ==
  /\ domain \in Domains /\ capacities \in Seq(CapacityItems)
  /\ Cardinality(items) + Len(capacities) <= MaxItems
  /\ \A p \in Cycles : Range(p) \subseteq NodeIds
  /\ Impacted \subseteq NodeIds
  /\ CriticalDependencies \subseteq Depends

\* Of all sets closed under dependency that hold the targets of m, each holds n.
Reaches(m, n) ==
  \A closed \in SUBSET NodeIds :
    (/\ TargetsOf(m) \subseteq closed
     /\ \A x \in closed : TargetsOf(x) \subseteq closed)
    => n \in closed

\* The cycles found are all there are: none is found where no node depends on itself,
\* every one is a simple closed path told once, and every dependency inside a cycle
\* is on one that is found.
CyclesAreExact ==
  /\ Cycles = {} <=> \A n \in NodeIds : ~Reaches(n, n)
  /\ \A p \in Cycles :
       /\ IsInjective(p) /\ p[1] = Min(Range(p))
       /\ \A k \in DOMAIN p : p[1 + (k % Len(p))] \in TargetsOf(p[k])
  /\ \A d \in Depends : Reaches(d.target, d.source) =>
       \E p \in Cycles, k \in 1..Cardinality(NodeIds) :
         k \in DOMAIN p /\ p[k] = d.source /\ p[1 + (k % Len(p))] = d.target

\* Whoever the blocked nodes depend on counts as impacted, at any distance, and nobody else.
ImpactIsTransitive ==
  Impacted = {n \in NodeIds : \E b \in WithStatus({"blocked"}) : Reaches(n, b)}

\* A shortfall of hours is somebody's: a member is overloaded, or works without a
\* capacity listed. An overload of one, though, may hide behind the idle hours of another.
ShortfallIsSomebodys ==
  /\ Shortfall > 0 => OverloadedMembers # {} \/ \E w \in Assigned : w.member \notin WithCapacity
  /\ OverloadedMembers \cap UnderutilizedMembers = {}
  /\ OverloadedMembers = WithCapacity /\ WithCapacity # {}
       /\ Len(capacities) = Cardinality(WithCapacity) => Shortfall > 0

\* The top risk is one of those recommended as soon as a high one is, and whatever no
\* critical attention is drawn to has no cycle, no critical risk and no failed change.
AttentionIsDrawn ==
  /\ RiskSignals # {} => Cardinality(TopSignal) = 1
  /\ (\E s \in RecommendedRisks : s.level \in {"high", "critical"})
       => TopSignal \subseteq RecommendedRisks
  /\ ~CriticalAttention =>
       /\ \A n \in NodeIds : ~Reaches(n, n)
       /\ \A s \in TopSignal : s.level # "critical"
       /\ HoursOf(Assigned) <= Available
       /\ \A c \in Changes : c.status # "failed" \/ c.kind = "incident"
=============================================================================
