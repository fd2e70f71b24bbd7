------------------------- MODULE ControlIntelligence -------------------------
(***************************************************************************)
(* The results of yoma/office/control_intelligence.py: a decision with its *)
(* plans, approvals, observations and lessons, a value that a reviewer     *)
(* gets, hands in with a decision and gets back changed, while the runtime *)
(* remembers the last one; with the closed loop and the lessons of         *)
(* closed_loop_observation.py and outcome_learning.py.                     *)
(***************************************************************************)
EXTENDS Integers, SequencesExt

CONSTANTS
  ControlPlans,  \* the plan of the decision and its alternatives
  Reviewers,
  OutcomeStatus, \* what an observation may say: observed, partial, failed or unknown
  MaxNotes,      \* bound: observations of a result
  MaxLessons,    \* bound: lessons of a result
  NoResult

VARIABLES
  inHand,   \* the result a reviewer works with
  lastKept  \* ControlIntelligenceRuntime._last_result

controlVars == <<inHand, lastKept>>

Lessons == {"accurate", "partially_accurate", "inaccurate", "insufficient_data"}
Loop == [plan : ControlPlans, status : OutcomeStatus]
Lesson == [plan : ControlPlans, outcome : Lessons, seen : 1 .. MaxNotes]
Result == [approved : SUBSET ControlPlans, loops : Seq(Loop), lessons : Seq(Lesson)]

ASSUME ControlAssumption ==
  /\ OutcomeStatus \subseteq {"observed", "partial", "failed", "unknown"}
  /\ MaxNotes \in Nat /\ NoResult \notin Result

Fresh == [approved |-> {}, loops |-> <<>>, lessons |-> <<>>]

ControlInit == inHand = [r \in Reviewers |-> NoResult] /\ lastKept = NoResult

\* analyze(): one workflow, simulation and policy check per plan.
AnalyzeDecision ==
  /\ lastKept' = Fresh /\ lastKept # Fresh /\ UNCHANGED inHand

TakeLast(r) ==
  inHand' = [inHand EXCEPT ![r] = lastKept] /\ lastKept # inHand[r] /\ UNCHANGED lastKept

Give(r, result) == inHand' = [inHand EXCEPT ![r] = result] /\ lastKept' = result

OnlyThisPlan(result, p) == {p}
ApprovedWith(result, p) == result.approved \cup {p}

\* approve_plan() of a plan whose workflow is pending in this result
ApprovePlan(r, p) ==
  /\ inHand[r] # NoResult /\ p \notin inHand[r].approved
  /\ Give(r, [inHand[r] EXCEPT !.approved = ApprovedWith(inHand[r], p)])

MayLoop(result, p) == p \in result.approved

\* observe(): a closed loop is for an approved workflow.
ObserveOutcome(r, p, status) ==
  /\ inHand[r] # NoResult /\ MayLoop(inHand[r], p) /\ Len(inHand[r].loops) < MaxNotes
  /\ Give(r, [inHand[r] EXCEPT !.loops = Append(@, [plan |-> p, status |-> status])])

\* Accuracy of a prediction, in hundredths: the runtime expects no events, so that an
\* outcome is as expected exactly when it was observed.
SimulatedProbability == 60
Accuracy(status) ==
  IF status = "unknown" THEN 0
  ELSE (SimulatedProbability + (IF status = "observed" THEN 100 ELSE 0)) \div 2
Outcome(status) ==
  IF status = "unknown" THEN "insufficient_data"
  ELSE IF Accuracy(status) >= 75 THEN "accurate"
  ELSE IF Accuracy(status) >= 40 THEN "partially_accurate" ELSE "inaccurate"

\* Where a result has observations of a plan, and the last one of them
LoopsOf(result, p) == {j \in DOMAIN result.loops : result.loops[j].plan = p}
Latest(result, p) == result.loops[Max(LoopsOf(result, p))]

\* learn(): from the latest observation of the plan in this result
Learn(r, p) ==
  /\ inHand[r] # NoResult /\ LoopsOf(inHand[r], p) # {} /\ Len(inHand[r].lessons) < MaxLessons
  /\ Give(r, [inHand[r] EXCEPT !.lessons = Append(@,
       [plan |-> p, outcome |-> Outcome(Latest(inHand[r], p).status),
        seen |-> Len(inHand[r].loops)])])

ControlNext ==
  \/ AnalyzeDecision
  \/ \E r \in Reviewers : TakeLast(r)
  \/ \E r \in Reviewers, p \in ControlPlans :
       ApprovePlan(r, p) \/ Learn(r, p) \/ \E s \in OutcomeStatus : ObserveOutcome(r, p, s)

ControlSpec == ControlInit /\ [][ControlNext]_controlVars

-----------------------------------------------------------------------------
ControlTypeOK ==
  \A v \in {inHand[r] : r \in Reviewers} \cup {lastKept} : v = NoResult \/ v \in Result

Known == {inHand[r] : r \in Reviewers} \cup {lastKept}

\* Nothing is observed or learned of a plan that is not approved in the same result,
\* and a lesson is that of the last observation of its plan there was.
LessonsAreEarned == \A v \in Known \ {NoResult} :
  /\ \A i \in DOMAIN v.loops : v.loops[i].plan \in v.approved
  /\ \A i \in DOMAIN v.lessons : \E j \in 1 .. v.lessons[i].seen :
       /\ v.loops[j].plan = v.lessons[i].plan
       /\ \A k \in (j + 1) .. v.lessons[i].seen : v.loops[k].plan # v.lessons[i].plan
       /\ v.lessons[i].outcome = "accurate" <=> v.loops[j].status = "observed"

\* The runtime loses an approval, an observation or a lesson only when the decision is
\* analyzed anew, or when a reviewer hands in a result that was not the last one.
OnlyStaleForgets ==
  [(lastKept # NoResult /\ lastKept' # Fresh) =>
     \/ /\ lastKept.approved \subseteq lastKept'.approved
        /\ IsPrefix(lastKept.loops, lastKept'.loops)
        /\ IsPrefix(lastKept.lessons, lastKept'.lessons)
     \/ \E r \in Reviewers : inHand'[r] = lastKept' /\ inHand[r] # lastKept]_controlVars
=============================================================================
