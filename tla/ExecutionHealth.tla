-------------------------- MODULE ExecutionHealth ---------------------------
(***************************************************************************)
(* How executions are graded, in two parts that share no state: the health *)
(* of one orchestration, and the reliability of one kind of action.        *)
(***************************************************************************)
EXTENDS Integers, FiniteSetsExt

-----------------------------------------------------------------------------
(***************************************************************************)
(* How the orchestration of a plan is judged from the state of its order,  *)
(* its systems, its schedule, its approvals and its transaction            *)
(* (yoma/office/orchestration_intelligence.py), while these change.        *)
(* Scores are hundredths.                                                  *)
(***************************************************************************)

CONSTANTS
  Approvals,   \* queue items about the plan
  ActionTotal  \* actions of the plan

ASSUME HealthAssumption == IsFiniteSet(Approvals) /\ ActionTotal \in Nat \ {0}

VARIABLES
  blocked,     \* whether ExecutionOrder has all actions blocked, as some dependency is missing
  unresolved,  \* whether a system of the plan is unknown
  approval,    \* the status of each item
  cancelled,   \* the schedule was cancelled
  rolledBack   \* the transaction requires a rollback

healthVars == <<blocked, unresolved, approval, cancelled, rolledBack>>

HealthInit ==
  /\ blocked \in BOOLEAN /\ unresolved \in BOOLEAN
  /\ approval = [i \in Approvals |-> "pending"] /\ cancelled = FALSE /\ rolledBack = FALSE

DecideItem == \E i \in Approvals, d \in {"approved", "rejected", "modified"} :
  /\ approval[i] = "pending" /\ approval' = [approval EXCEPT ![i] = d]
  /\ UNCHANGED <<blocked, unresolved, cancelled, rolledBack>>
CancelSchedule ==
  /\ ~cancelled /\ cancelled' = TRUE
  /\ UNCHANGED <<blocked, unresolved, approval, rolledBack>>
RequireRollback ==
  /\ ~rolledBack /\ rolledBack' = TRUE
  /\ UNCHANGED <<blocked, unresolved, approval, cancelled>>

HealthNext == DecideItem \/ CancelSchedule \/ RequireRollback

HealthSpec == HealthInit /\ [][HealthNext]_healthVars

-----------------------------------------------------------------------------

\* OrchestrationProgress: nothing counts as completed, and an approved action not
\* as pending any more.
BlockedActionCount == IF blocked THEN ActionTotal ELSE 0
PendingActionCount ==
  IF blocked \/ \E i \in Approvals : approval[i] = "approved" THEN 0 ELSE ActionTotal
CompletedCount == 0

\* The counts of a progress must add up, or it is refused.
AddsUp == CompletedCount + PendingActionCount + BlockedActionCount = ActionTotal

PendingApprovals == Cardinality({i \in Approvals : approval[i] = "pending"})
CappedSum(n) == IF n > 100 THEN 100 ELSE n
ApprovalScore == CappedSum(40 + 5 * PendingApprovals)

MissingSignal == IF blocked THEN {<<"dependency.missing", 85>>} ELSE {}
BlockedSignal == IF blocked THEN {<<"orchestration.blocked", 80>>} ELSE {}
UnresolvedSignal == IF unresolved THEN {<<"system.unresolved", 82>>} ELSE {}
ApprovalSignal == IF PendingApprovals > 0 THEN {<<"approval.pending", ApprovalScore>>} ELSE {}
RollbackSignal == IF rolledBack THEN {<<"transaction.rollback_required", 90>>} ELSE {}
CancelledSignal == IF cancelled THEN {<<"schedule.cancelled", 65>>} ELSE {}

Signals == MissingSignal \cup BlockedSignal \cup UnresolvedSignal \cup ApprovalSignal
           \cup RollbackSignal \cup CancelledSignal

HealthStatus ==
  IF rolledBack THEN "failed"
  ELSE IF blocked THEN "blocked"
  ELSE IF unresolved \/ Signals # {} THEN "attention" ELSE "healthy"

\* A cancelled schedule is a signal but no component of the risk.
RiskScore == Max({0} \cup {s[2] : s \in Signals \ CancelledSignal})

Recommendation ==
  CASE HealthStatus = "healthy" -> "continue" [] HealthStatus = "blocked" -> "resolve"
    [] HealthStatus = "failed" -> "review" [] OTHER -> "human review"

-----------------------------------------------------------------------------

HealthTypeOK ==
  /\ blocked \in BOOLEAN /\ unresolved \in BOOLEAN /\ cancelled \in BOOLEAN
  /\ rolledBack \in BOOLEAN
  /\ approval \in [Approvals -> {"pending", "approved", "rejected", "modified"}]
  /\ RiskScore \in 0 .. 100

\* A plan with nothing to report is healthy, and only such a plan: neither a failure
\* hidden behind a pending approval nor a cancelled schedule that costs no risk.
HealthyIsSilent ==
  /\ HealthStatus = "healthy" <=> Signals = {}
  /\ rolledBack <=> HealthStatus = "failed"
  /\ RiskScore = 0 => Signals \subseteq {<<"schedule.cancelled", 65>>}

\* An analysis is refused exactly when something is approved that is not blocked:
\* what is approved counts neither as pending nor, before it is executed, as completed.
ApprovedIsRefused == ~AddsUp <=> ~blocked /\ \E i \in Approvals : approval[i] = "approved"

\* A decision about an item never makes the plan riskier, and nothing else but a
\* decision makes it safer.
DecidingLowersRisk ==
  [/\ approval' # approval => RiskScore' <= RiskScore
   /\ RiskScore' < RiskScore => PendingApprovals' < PendingApprovals]_healthVars

-----------------------------------------------------------------------------
(***************************************************************************)
(* What the reconciled executions of one kind of action say about its      *)
(* reliability (yoma/office/execution_reliability.py), as they come in one *)
(* after the other.  Rates are compared as fractions of the total; the     *)
(* quotients of the code have a correctly rounded result, which the        *)
(* decimal thresholds meet exactly where the fractions do.                 *)
(***************************************************************************)

CONSTANTS MaxExecutions  \* bound

ASSUME ReliabilityAssumption == MaxExecutions \in Nat

VARIABLES achieved, partial, failedRuns, unexpected, insufficient

relVars == <<achieved, partial, failedRuns, unexpected, insufficient>>

RelTotal == achieved + partial + failedRuns + unexpected + insufficient

RelInit == achieved = 0 /\ partial = 0 /\ failedRuns = 0 /\ unexpected = 0 /\ insufficient = 0

\* One more reconciliation, of each status.
Achieve == RelTotal < MaxExecutions /\ achieved' = achieved + 1
           /\ UNCHANGED <<partial, failedRuns, unexpected, insufficient>>
AchievePartially == RelTotal < MaxExecutions /\ partial' = partial + 1
           /\ UNCHANGED <<achieved, failedRuns, unexpected, insufficient>>
Fail == RelTotal < MaxExecutions /\ failedRuns' = failedRuns + 1
           /\ UNCHANGED <<achieved, partial, unexpected, insufficient>>
Surprise == RelTotal < MaxExecutions /\ unexpected' = unexpected + 1
           /\ UNCHANGED <<achieved, partial, failedRuns, insufficient>>
Lack == RelTotal < MaxExecutions /\ insufficient' = insufficient + 1
           /\ UNCHANGED <<achieved, partial, failedRuns, unexpected>>

RelNext == Achieve \/ AchievePartially \/ Fail \/ Surprise \/ Lack

RelSpec == RelInit /\ [][RelNext]_relVars

-----------------------------------------------------------------------------

AtLeast(count, percent) == 100 * count >= percent * RelTotal
AtMost(count, percent) == 100 * count <= percent * RelTotal
Evident == RelTotal - insufficient

\* _level()
ReliabilityLevel ==
  IF RelTotal = 0 THEN "insufficient_data"
  ELSE IF AtLeast(achieved, 90) /\ AtMost(failedRuns, 5) /\ AtMost(unexpected, 5)
          /\ AtLeast(Evident, 90) THEN "excellent"
  ELSE IF AtLeast(achieved, 75) /\ AtMost(failedRuns, 20) /\ AtMost(unexpected, 10)
          /\ AtLeast(Evident, 75) THEN "reliable"
  ELSE IF AtLeast(failedRuns, 40) \/ AtLeast(unexpected, 25) THEN "unreliable"
  ELSE "mixed"

\* The confidence is evidence quality, times the share of five executions there are:
\* ConfidenceParts / (5 * RelTotal).
Capped(n, most) == IF n > most THEN most ELSE n
ConfidenceParts == Evident * Capped(RelTotal, 5)
HumanReviewCount == RelTotal - achieved
RelRequiresReview ==
  ReliabilityLevel \in {"mixed", "unreliable", "insufficient_data"} \/ HumanReviewCount > 0

-----------------------------------------------------------------------------

Grade == [insufficient_data |-> 0, unreliable |-> 1, mixed |-> 2, reliable |-> 3, excellent |-> 4]

RelTypeOK == RelTotal \in 0 .. MaxExecutions /\ ReliabilityLevel \in DOMAIN Grade

\* One more success never lowers the level, nor the confidence.
AchievedNeverWorsens ==
  [Achieve => /\ Grade[ReliabilityLevel'] >= Grade[ReliabilityLevel]
              /\ ConfidenceParts' * RelTotal >= ConfidenceParts * RelTotal']_relVars

\* An excellent kind of action has at most one flaw in ten executions, at most one
\* failure and one surprise in twenty, and still asks for a review if it has any.
ExcellentIsRare == ReliabilityLevel = "excellent" =>
  /\ 10 * (RelTotal - achieved) <= RelTotal
  /\ 20 * failedRuns <= RelTotal /\ 20 * unexpected <= RelTotal
  /\ ~RelRequiresReview <=> RelTotal = achieved
=============================================================================
