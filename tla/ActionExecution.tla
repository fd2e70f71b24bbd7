--------------------------- MODULE ActionExecution ---------------------------
(***************************************************************************)
(* What happens to an approved plan: policy enforcement, the gateway that  *)
(* calls the executor, the audit trace, the observation of the result and  *)
(* its reconciliation with what was expected                               *)
(* (yoma/office/execution_policy.py, policy_constraints.py,                *)
(* approval_execution_bridge.py, action_execution.py, execution_audit.py,  *)
(* execution_observation.py, closed_loop_observation.py,                   *)
(* execution_reconciliation.py, execution_intelligence_runtime.py).        *)
(*                                                                         *)
(* A plan has one step, the only one that is ever executed.  An executor   *)
(* is code that may call the engines again before it returns.              *)
(***************************************************************************)
EXTENDS Integers, FiniteSets

CONSTANTS
  ExecPlans,
  EventCounts,  \* how many events an observation may cite
  Expected      \* how many were expected; a negative number is refused

ASSUME ExecutionAssumption == EventCounts \subseteq Nat /\ Expected \subseteq Int

VARIABLES
  workflow,     \* ActionApprovalWorkflow.status
  banned,       \* plans the constraints of the policy engine block
  available,    \* whether the executor is registered
  record,       \* ActionExecutionGateway._records
  frames,       \* executors called and not yet returned, by plan
  ran,          \* how often the executor of a plan was called
  unlawful,     \* plans whose executor was called without approval, or while banned
  held,         \* ExecutionPolicyResults the callers have got
  tried,        \* those of them they have handed to the audit
  trace,        \* ExecutionAuditRecorder._traces: their execution_status
  observation,  \* ExecutionResultObservationEngine._observations
  recon         \* ExecutionOutcomeReconciliationEngine._reconciliations

execVars == <<workflow, banned, available, record, frames, ran, unlawful, held, tried,
              trace, observation, recon>>
gateVars == <<workflow, banned, available, record, frames, ran, unlawful>>

Ended == {"succeeded", "failed"}
PolicyResult == Ended \cup {"blocked"}
Verdict == {"achieved", "partially_achieved", "insufficient_evidence", "unexpected", "failed"}
NoObservation == [status |-> "none", events |-> 0]
Observation == [status : PolicyResult, events : EventCounts]

ExecInit ==
  /\ workflow = [p \in ExecPlans |-> "pending"] /\ banned = {} /\ available = TRUE
  /\ record = [p \in ExecPlans |-> "none"] /\ frames = [p \in ExecPlans |-> 0]
  /\ ran = [p \in ExecPlans |-> 0] /\ unlawful = {}
  /\ held = [p \in ExecPlans |-> {}] /\ tried = [p \in ExecPlans |-> {}]
  /\ trace = [p \in ExecPlans |-> "none"]
  /\ observation = [p \in ExecPlans |-> NoObservation] /\ recon = [p \in ExecPlans |-> "none"]

-----------------------------------------------------------------------------
(* Around the gateway                                                        *)

DecideWorkflow == \E p \in ExecPlans, status \in {"approved", "rejected"} :
  /\ workflow[p] = "pending" /\ workflow' = [workflow EXCEPT ![p] = status]
  /\ UNCHANGED <<banned, available, record, frames, ran, unlawful, held,
                 tried, trace, observation, recon>>

\* A policy engine keeps its constraints; another one is configured.
Reconfigure == \E p \in ExecPlans :
  /\ banned' = IF p \in banned THEN banned \ {p} ELSE banned \cup {p}
  /\ UNCHANGED <<workflow, available, record, frames, ran, unlawful,
                 held, tried, trace, observation, recon>>

\* register_executor() and unregister_executor()
Register ==
  /\ available' = ~available
  /\ UNCHANGED <<workflow, banned, record, frames, ran, unlawful, held,
                 tried, trace, observation, recon>>

-----------------------------------------------------------------------------
(* Execution                                                                 *)

Blocked(p) == p \in banned

\* execute() answers that the policy blocks the plan, whatever its approval.
ExecuteBlocked == \E p \in ExecPlans :
  /\ Blocked(p)
  /\ held' = [held EXCEPT ![p] = @ \cup {"blocked"}]
  /\ UNCHANGED <<workflow, banned, available, record, frames, ran, unlawful,
                 tried, trace, observation, recon>>

\* An action without an approved workflow, without an executor or with a record
\* of an execution is refused.
RecordedLate(p) == [record EXCEPT ![p] = IF @ = "none" THEN "none" ELSE @]
Started(p) == [record EXCEPT ![p] = "running"]

ExecuteStart == \E p \in ExecPlans :
  /\ ~Blocked(p) /\ workflow[p] = "approved" /\ available /\ record[p] = "none"
  /\ record' = Started(p)
  /\ frames' = [frames EXCEPT ![p] = @ + 1] /\ ran' = [ran EXCEPT ![p] = @ + 1]
  /\ unlawful' = IF p \in banned \/ workflow[p] # "approved" THEN unlawful \cup {p} ELSE unlawful
  /\ frames[p] < 2  \* bound, of a gateway that would not refuse
  /\ UNCHANGED <<workflow, banned, available, held, tried, trace, observation, recon>>

Reported(status) == status

\* The executor returns a mapping, or raises an Exception.
ExecuteEnd == \E p \in ExecPlans, status \in Ended :
  /\ frames[p] > 0 /\ frames' = [frames EXCEPT ![p] = @ - 1]
  /\ record' = [record EXCEPT ![p] = status]
  /\ held' = [held EXCEPT ![p] = @ \cup {Reported(status)}]
  /\ UNCHANGED <<workflow, banned, available, ran, unlawful, tried, trace, observation, recon>>

\* It is interrupted by what is no Exception: the record keeps saying running.
ExecuteInterrupted == \E p \in ExecPlans :
  /\ frames[p] > 0 /\ frames' = [frames EXCEPT ![p] = @ - 1]
  /\ UNCHANGED <<workflow, banned, available, record, ran, unlawful,
                 held, tried, trace, observation, recon>>

-----------------------------------------------------------------------------
(* Audit                                                                     *)

Traced(p, r) == IF trace[p] = "none" THEN r ELSE trace[p]

\* record() refuses a second trace of one workflow and action.
Audit == \E p \in ExecPlans : \E r \in held[p] :
  /\ trace' = [trace EXCEPT ![p] = Traced(p, r)]
  /\ tried' = [tried EXCEPT ![p] = @ \cup {r}]
  /\ UNCHANGED <<gateVars, held, observation, recon>>

-----------------------------------------------------------------------------
(* Observation and reconciliation                                            *)

Success(o) == o.status = "succeeded"

\* The result is compared with nothing in the trace but its names.
MayObserve(p) == trace[p] # "none" /\ observation[p] = NoObservation

\* _status(): success is "expected", "unexpected", or no matter ("any").
Status(o, expected, success) ==
  IF o.status = "blocked" THEN "unexpected"
  ELSE IF o.status = "failed" THEN "failed"
  ELSE IF success = "unexpected" /\ Success(o) THEN "unexpected"
  ELSE IF expected > 0 /\ o.events = 0 THEN "insufficient_evidence"
  ELSE IF o.events < expected THEN "partially_achieved"
  ELSE "achieved"

\* ExecutionIntelligenceRuntime.analyze(): observed, then reconciled, which a
\* negative number of events makes impossible.
ObserveAndReconcile(p, o, expected, success) ==
  /\ MayObserve(p)
  /\ observation' = [observation EXCEPT ![p] = o]
  /\ IF expected < 0 THEN UNCHANGED recon
     ELSE recon' = [recon EXCEPT ![p] = Status(o, expected, success)]
  /\ UNCHANGED <<gateVars, held, tried, trace>>

AnalyzeExecution == \E p \in ExecPlans : \E r \in held[p], n \in EventCounts, expected \in Expected,
                       success \in {"expected", "unexpected", "any"} :
  ObserveAndReconcile(p, [status |-> r, events |-> n], expected, success)

\* analyze_observation(): from an observation that was made.
AnalyzeObservation == \E p \in ExecPlans : \E expected \in Expected \cap Nat,
                         success \in {"expected", "unexpected", "any"} :
  /\ observation[p] # NoObservation /\ recon[p] = "none"
  /\ recon' = [recon EXCEPT ![p] = Status(observation[p], expected, success)]
  /\ UNCHANGED <<gateVars, held, tried, trace, observation>>

\* observe_closed_loop(): what the other engine makes of an observation.
LoopStatus(o) ==
  IF Success(o) THEN "observed" ELSE IF o.status = "failed" THEN "failed" ELSE "partial"

ExecNext ==
  \/ DecideWorkflow \/ Reconfigure \/ Register
  \/ ExecuteBlocked \/ ExecuteStart \/ ExecuteEnd \/ ExecuteInterrupted
  \/ Audit \/ AnalyzeExecution \/ AnalyzeObservation

ExecSpec == ExecInit /\ [][ExecNext]_execVars

-----------------------------------------------------------------------------

ExecTypeOK ==
  /\ workflow \in [ExecPlans -> {"pending", "approved", "rejected"}]
  /\ banned \subseteq ExecPlans /\ unlawful \subseteq ExecPlans /\ available \in BOOLEAN
  /\ record \in [ExecPlans -> {"none", "running"} \cup Ended]
  /\ frames \in [ExecPlans -> 0 .. 2] /\ ran \in [ExecPlans -> Nat]
  /\ held \in [ExecPlans -> SUBSET PolicyResult] /\ tried \in [ExecPlans -> SUBSET PolicyResult]
  /\ trace \in [ExecPlans -> PolicyResult \cup {"none"}]
  /\ observation \in [ExecPlans -> Observation \cup {NoObservation}]
  /\ recon \in [ExecPlans -> Verdict \cup {"none"}]

\* A gateway executes the action of a plan once: not again after it failed or was
\* interrupted, and not from within its own executor.
RunsOnce == \A p \in ExecPlans : ran[p] <= 1

\* What was executed was approved, and no constraint blocked it when it started.
RunsAreLawful == unlawful = {}

\* A trace of an execution tells how it ended, and every result that is handed to
\* the audit is in a trace, unless an earlier one of a blocked attempt took its place.
TracesAreTrue == \A p \in ExecPlans :
  /\ trace[p] \in Ended => record[p] = trace[p]
  /\ \A r \in tried[p] \cap Ended : trace[p] \in {r, "blocked"}

\* An execution that is said to have achieved what was expected has succeeded, with
\* some event when any was expected.
AchievedIsReal == \A p \in ExecPlans : recon[p] \in {"achieved", "partially_achieved"} =>
  /\ record[p] = "succeeded"
  /\ recon[p] = "partially_achieved" => observation[p].events > 0

\* The closed loop and the reconciliation never judge one observation against each
\* other.
OneVerdict == \A p \in ExecPlans : recon[p] # "none" =>
  /\ LoopStatus(observation[p]) = "observed" => recon[p] # "failed"
  /\ LoopStatus(observation[p]) = "failed" <=> recon[p] = "failed"
  /\ LoopStatus(observation[p]) = "partial" => recon[p] = "unexpected"
=============================================================================
