----------------------------- MODULE ActionPlans -----------------------------
(***************************************************************************)
(* The alternatives of a decision, before anybody approves one: planned    *)
(* (action_planning.py), simulated (action_simulation.py), compared        *)
(* (what_if_intelligence.py) and checked against the policy constraints    *)
(* (policy_constraints.py), all of yoma/office.  A decision is evaluated   *)
(* again as it gains facts; scores are in millionths, as the code rounds.  *)
(*                                                                         *)
(* The order in which the actions of a plan, and the systems they are for, *)
(* may be carried out (yoma/office/dependency_aware_execution.py,          *)
(* cross_system_coordination.py, multi_action_execution.py), and what a    *)
(* failure half-way is compensated with (transaction_rollback.py).         *)
(*                                                                         *)
(* An action is its sequence number.  Its id is MACT-<plan>-<number>, and  *)
(* ids are sorted as strings, where number 10 comes before number 2.       *)
(***************************************************************************)
EXTENDS Integers, FiniteSets, SequencesExt

CONSTANTS
  Alternatives,  \* plans, as 1 .. n in the order of their ids
  Confidences,   \* confidences of a decision, in tenths
  Constrained,   \* priorities a constraint may name
  MaxConstraints \* bound

ASSUME EvaluationAssumption ==
  /\ Alternatives \subseteq Nat /\ Alternatives # {}
  /\ Confidences \subseteq 0 .. 10 /\ 0 \in Confidences /\ Constrained \subseteq 1 .. 4

VARIABLES
  decision,    \* what each alternative is planned from
  constraints  \* PolicyConstraintEngine: what it does not allow

evalVars == <<decision, constraints>>

\* Priorities are 1 (low) to 4 (critical).
Entities == {"user", "system"}
DecisionFacts == [priority : 1 .. 4, confidence : Confidences, evidence : BOOLEAN,
             affected : SUBSET Entities]
\* A constraint names priorities or entities; one that names neither matches no plan.
PolicyConstraints == [priorities : SUBSET Constrained, affected : SUBSET Entities]

EvalInit ==
  /\ decision = [a \in Alternatives |->
                  [priority |-> 1, confidence |-> 0, evidence |-> FALSE, affected |-> {}]]
  /\ constraints = {}

-----------------------------------------------------------------------------
(* The scores of an alternative. *)

Whole == 1000000  \* a score of one

MinOf(a, b) == IF a < b THEN a ELSE b

\* ActionSimulationEngine._confidence(): half of it from the decision, the rest from
\* there being evidence.
SimulatedConfidence(d) == 50000 * d.confidence + (IF d.evidence THEN 300000 ELSE 0)
\* _build_risks() and _risk_score(): probability .35, by the severity of the priority
RiskOf(d) == <<122500, 122500, 245000, 350000>>[d.priority]
\* _build_outcomes() and _outcome_score(): .60 * .55
OutcomeOf(d) == 330000
ImpactOf(d) == MinOf(Whole, 300000 + 100000 * Cardinality(d.affected))

Overall(d) == (35 * OutcomeOf(d) + 25 * (Whole - RiskOf(d))
               + 20 * SimulatedConfidence(d) + 20 * ImpactOf(d)) \div 100

\* compare(): the best score first, then the smaller id
RankedBefore(a, b) == \/ Overall(decision[a]) > Overall(decision[b])
                      \/ Overall(decision[a]) = Overall(decision[b]) /\ a <= b
Preferred == CHOOSE a \in Alternatives : \A b \in Alternatives : RankedBefore(a, b)

-----------------------------------------------------------------------------
(* The policy check of a plan. *)

\* _matches(): every filter that is there has to match
PolicyMatches(d, c) ==
  /\ c.priorities # {} => d.priority \in c.priorities
  /\ c.affected # {} => d.affected \cap c.affected # {}
  /\ c.priorities # {} \/ c.affected # {}
PolicyBlocks(d) == \E c \in constraints : PolicyMatches(d, c)

-----------------------------------------------------------------------------

\* The decision of an alternative is analyzed again, with one more fact.
Gain(a, d) == decision' = [decision EXCEPT ![a] = d] /\ d # decision[a]
              /\ UNCHANGED constraints
GainEvidence(a) == Gain(a, [decision[a] EXCEPT !.evidence = TRUE])
GainConfidence(a) == \E c \in Confidences :
  c > decision[a].confidence /\ Gain(a, [decision[a] EXCEPT !.confidence = c])
GainEntity(a) == \E e \in Entities : Gain(a, [decision[a] EXCEPT !.affected = @ \cup {e}])
Escalate(a) == decision[a].priority < 4 /\ Gain(a, [decision[a] EXCEPT !.priority = @ + 1])

\* A reviewer adds a constraint that allows nothing it matches.
Constrain == \E c \in PolicyConstraints :
  /\ Cardinality(constraints) < MaxConstraints /\ constraints' = constraints \cup {c}
  /\ UNCHANGED decision

EvalNext ==
  \/ Constrain
  \/ \E a \in Alternatives : \/ GainEvidence(a) \/ GainConfidence(a) \/ GainEntity(a)
                             \/ Escalate(a)

EvalSpec == EvalInit /\ [][EvalNext]_evalVars

-----------------------------------------------------------------------------

EvalTypeOK ==
  /\ decision \in [Alternatives -> DecisionFacts]
  /\ constraints \subseteq PolicyConstraints
  /\ \A a \in Alternatives : Overall(decision[a]) \in 0 .. Whole

\* A fact in favour of the preferred alternative leaves it preferred, and an alternative
\* that turns more urgent is never preferred because of it.
ComparisonIsMonotone ==
  [\A a \in Alternatives :
     /\ (Preferred = a /\ (GainEvidence(a) \/ GainConfidence(a) \/ GainEntity(a))) =>
          Preferred' = a
     /\ (Preferred # a /\ Escalate(a)) => Preferred' # a]_evalVars

\* An alternative the policy blocks is not freed by what it gains, least of all by affecting
\* more: only by a change of its priority.
BlocksAreKept ==
  [\A a \in Alternatives :
     (PolicyBlocks(decision[a]) /\ decision'[a].priority = decision[a].priority) =>
        PolicyBlocks(decision[a])']_evalVars

\* What it takes to prefer an urgent alternative to a calm one: evidence, or more
\* confidence, or more that it affects.
UrgencyIsOutweighed ==
  LET a == Preferred IN \A b \in Alternatives :
    (decision[a].priority > decision[b].priority /\ decision[a].priority >= 3) =>
       \/ decision[a].evidence /\ ~decision[b].evidence
       \/ decision[a].confidence > decision[b].confidence
       \/ Cardinality(decision[a].affected) > Cardinality(decision[b].affected)

-----------------------------------------------------------------------------
(* The order of the actions of a plan.                                     *)

CONSTANTS
  ActionCount,   \* actions of the plan
  IdRank,        \* the place of the id of each action among the sorted ids
  Systems,       \* the systems actions are for
  Unspecified,   \* an action without a target system
  Integrations,  \* systems the coordination engine knows; empty: it does not ask
  NoAction       \* no action has failed

ASSUME OrderingAssumption ==
  /\ ActionCount \in Nat \ {0} /\ IdRank \in [1 .. ActionCount -> Nat]
  /\ \A a, b \in 1 .. ActionCount : IdRank[a] = IdRank[b] => a = b
  /\ Unspecified \notin Systems /\ NoAction \notin 1 .. ActionCount

VARIABLES
  deps,       \* MultiAction.dependency_ids: of actions, or Foreign
  target,     \* MultiAction.target_system_id
  committed,  \* the actions that have been carried out, in that order
  failed,     \* the action that failed
  rollback,   \* TransactionRollbackPlan.rollback_actions
  undone      \* the actions that have been compensated

orderVars == <<deps, target, committed, failed, rollback, undone>>

Actions == 1 .. ActionCount
Foreign == 0  \* an id that is not an action of the plan
Targets == Systems \cup {Unspecified}

Before(a, b) == IdRank[a] < IdRank[b]

-----------------------------------------------------------------------------
(* Layers of a graph: what depends on nothing, what depends on that, ...     *)

ReadyNodes(nodes, dep, done) == {x \in nodes : dep[x] \subseteq done}

\* What the first k rounds of the loop complete; a round that finds nothing ready
\* ends it.
Rounds(nodes, dep) ==
  LET Done[k \in 0 .. Cardinality(nodes)] ==
        IF k = 0 THEN {} ELSE LET done == Done[k - 1] IN done \cup ReadyNodes(nodes, dep, done)
  IN Done

Reached(nodes, dep) == Rounds(nodes, dep)[Cardinality(nodes)]

Level(nodes, dep, x) == CHOOSE k \in 1 .. Cardinality(nodes) :
  x \in Rounds(nodes, dep)[k] /\ x \notin Rounds(nodes, dep)[k - 1]

-----------------------------------------------------------------------------
(* Of actions                                                                *)

MissingDependencies == (UNION {deps[a] : a \in Actions}) \ Actions

\* order() raises on a circle, and answers with every action blocked when a
\* dependency is missing.
Ordered == MissingDependencies = {} /\ Reached(Actions, deps) = Actions
Precedes(a, b) ==
  LET ka == Level(Actions, deps, a) kb == Level(Actions, deps, b)
  IN ka < kb \/ (ka = kb /\ Before(a, b))
OrderedActions ==
  IF Ordered THEN CHOOSE order \in [Actions -> Actions] :
                    \A i, j \in Actions : i < j => Precedes(order[i], order[j])
  ELSE <<>>

\* analyze()
BlockedActions ==
  IF MissingDependencies # {} THEN Actions ELSE Actions \ Reached(Actions, deps)
CircularDependency == MissingDependencies = {} /\ BlockedActions # {}

-----------------------------------------------------------------------------
(* Of systems                                                                *)

ParticipatingSystems == {target[a] : a \in Actions}
UnresolvedSystems ==
  {s \in ParticipatingSystems : s = Unspecified \/ (Integrations # {} /\ s \notin Integrations)}

\* Dependencies inside one system, and those that are not actions, order nothing.
SystemDependents ==
  [s \in ParticipatingSystems |->
    {target[a] : a \in {b \in Actions : \E d \in deps[b] \cap Actions : target[d] = s}} \ {s}]
SystemDependencies ==
  [s \in ParticipatingSystems |->
    UNION {{target[d] : d \in deps[a] \cap Actions} \ {s} : a \in {b \in Actions : target[b] = s}}]

\* coordinate() raises on a circle of systems.
Coordinated == Reached(ParticipatingSystems, SystemDependencies) = ParticipatingSystems
SystemLevel(s) == Level(ParticipatingSystems, SystemDependencies, s)

-----------------------------------------------------------------------------
(* Carrying out                                                              *)

OrderInit ==
  /\ deps \in [Actions -> SUBSET (Actions \cup {Foreign})]
  /\ target \in [Actions -> Targets]
  /\ committed = <<>> /\ failed = NoAction /\ rollback = <<>> /\ undone = {}

\* The caller carries out the ordered actions one by one.
Commit ==
  /\ failed = NoAction /\ Len(committed) < Len(OrderedActions)
  /\ committed' = Append(committed, OrderedActions[Len(committed) + 1])
  /\ UNCHANGED <<deps, target, failed, rollback, undone>>

Compensations(actions) == Reverse(actions)

\* plan_rollback()
PlanRollback ==
  /\ failed = NoAction /\ Len(committed) < Len(OrderedActions)
  /\ failed' = OrderedActions[Len(committed) + 1]
  /\ rollback' = Compensations(committed)
  /\ UNCHANGED <<deps, target, committed, undone>>

RollbackStatus == IF committed # <<>> THEN "rollback_required" ELSE "failed"

\* The caller compensates in the sequence of the rollback plan.
Compensate ==
  /\ Cardinality(undone) < Len(rollback)
  /\ undone' = undone \cup {rollback[Cardinality(undone) + 1]}
  /\ UNCHANGED <<deps, target, committed, failed, rollback>>

OrderNext == Commit \/ PlanRollback \/ Compensate

OrderSpec == OrderInit /\ [][OrderNext]_orderVars

-----------------------------------------------------------------------------

OrderTypeOK ==
  /\ deps \in [Actions -> SUBSET (Actions \cup {Foreign})]
  /\ target \in [Actions -> Targets]
  /\ committed \in Seq(Actions) /\ rollback \in Seq(Actions)
  /\ failed \in Actions \cup {NoAction} /\ undone \subseteq Actions

\* Sets every member of which depends on another member, or on itself.
Circles(nodes, dep) == {S \in SUBSET nodes : S # {} /\ \A x \in S : dep[x] \cap S # {}}

\* An order is found for exactly the plans without a circle and without a missing
\* dependency; it has every action once, after all it depends on.
OrderIsTopological ==
  /\ Ordered <=> (MissingDependencies = {} /\ Circles(Actions, deps) = {})
  /\ LET order == OrderedActions
     IN Ordered => /\ IsInjective(order) /\ ToSet(order) = Actions
                   /\ \A i, j \in Actions : order[i] \in deps[order[j]] => i < j

\* The analysis blocks exactly the actions that depend, over any number of others,
\* on a circle: the greatest set each member of which has a dependency in it.
BlockedIsCircular ==
  MissingDependencies = {} => BlockedActions = UNION Circles(Actions, deps)

\* Systems are ordered unless they are in a circle, which actions that are not can
\* put them into; an action is then never for a system of an earlier level than one
\* it depends on.
SystemsFollowActions ==
  /\ Coordinated <=> Circles(ParticipatingSystems, SystemDependencies) = {}
  /\ Coordinated => \A a \in Actions : \A d \in deps[a] \cap Actions :
       target[a] = target[d] \/ SystemLevel(target[d]) < SystemLevel(target[a])

\* While a failed plan is rolled back, nothing that is still in effect depends on
\* what has been compensated, and in the end nothing is in effect.
RollbackIsSafe ==
  LET inEffect == ToSet(committed) \ undone
  IN /\ \A a \in inEffect : deps[a] \cap undone = {}
     /\ failed # NoAction => ToSet(rollback) = ToSet(committed)
=============================================================================
