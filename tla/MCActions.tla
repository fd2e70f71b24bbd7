------------------------------ MODULE MCActions ------------------------------
(***************************************************************************)
(* From a decision to its governed execution, on small instances.  The     *)
(* parts share no state: an initial state selects the one that is explored.*)
(***************************************************************************)
EXTENDS ActionPlans, ControlPipeline, ExecutionHealth, ActionExecution,
        GovernedActions, ControlIntelligence

CONSTANTS p1, p2, s1, s2, i1, i2, r1, r2, a1, a2

VARIABLE part

\* A negative number of expected events is not a literal of a configuration.
MCExpected == {-1, 0, 1, 2}

\* The ids of fewer than ten actions sort as their numbers do.
MCIdRank == [a \in 1 .. ActionCount |-> a]

\* Of a part that is not explored there is one initial state.
ActionsInit ==
  /\ part \in {"evaluation", "ordering", "pipeline", "health", "execution", "governance",
               "reliability", "control"}
  /\ part # "ordering" => /\ deps = [a \in Actions |-> {}]
                          /\ target = [a \in Actions |-> Unspecified]
  /\ part # "health" => blocked = FALSE /\ unresolved = FALSE
  /\ part # "governance" => persistent = FALSE /\ permitted = {}
  /\ EvalInit /\ OrderInit /\ PipeInit /\ HealthInit
  /\ ExecInit /\ GovInit /\ RelInit /\ ControlInit

ActionsNext ==
  /\ UNCHANGED part
  /\ \/ /\ part = "evaluation" /\ EvalNext
        /\ UNCHANGED <<orderVars, pipeVars, healthVars, execVars, govVars, relVars, controlVars>>
     \/ /\ part = "ordering" /\ OrderNext
        /\ UNCHANGED <<evalVars, pipeVars, healthVars, execVars, govVars, relVars, controlVars>>
     \/ /\ part = "pipeline" /\ PipeNext
        /\ UNCHANGED <<evalVars, orderVars, healthVars, execVars, govVars, relVars, controlVars>>
     \/ /\ part = "health" /\ HealthNext
        /\ UNCHANGED <<evalVars, orderVars, pipeVars, execVars, govVars, relVars, controlVars>>
     \/ /\ part = "execution" /\ ExecNext
        /\ UNCHANGED <<evalVars, orderVars, pipeVars, healthVars, govVars, relVars, controlVars>>
     \/ /\ part = "governance" /\ GovNext
        /\ UNCHANGED <<evalVars, orderVars, pipeVars, healthVars, execVars, relVars, controlVars>>
     \/ /\ part = "reliability" /\ RelNext
        /\ UNCHANGED <<evalVars, orderVars, pipeVars, healthVars, execVars, govVars, controlVars>>
     \/ /\ part = "control" /\ ControlNext
        /\ UNCHANGED <<evalVars, orderVars, pipeVars, healthVars, execVars, govVars, relVars>>

ActionsSpec ==
  ActionsInit /\ [][ActionsNext]_<<part, evalVars, orderVars, pipeVars, healthVars, execVars,
                                   govVars, relVars, controlVars>>

\* Plans: urgency is outweighed by evidence only, orders are topological, what is blocked
\* depends on a circle, systems follow their actions and a rollback runs against them.
PlansAgree ==
  /\ part = "evaluation" => EvalTypeOK /\ UrgencyIsOutweighed
  /\ part = "ordering" =>
       /\ OrderTypeOK /\ OrderIsTopological /\ BlockedIsCircular
       /\ SystemsFollowActions /\ RollbackIsSafe

\* The pipeline: the queue follows the schedules through every cache, a dependent plan is never
\* queued, the last result is of one that was completed, nothing completes before it is due, and
\* what its health says follows from its counts.
PipelineKept ==
  /\ part = "pipeline" =>
       /\ PipeTypeOK /\ DependentIsNeverQueued /\ QueueFollowsSchedule
       /\ LastIsComplete /\ CompletedWasDue
  /\ part = "health" => HealthTypeOK /\ HealthyIsSilent /\ ApprovedIsRefused

\* Executions: an action runs once and lawfully, its trace and its verdict are true, every effect
\* is audited and lacks an end only where it was interrupted, reliability and lessons rest on
\* what was observed.
ExecutionsKept ==
  /\ part = "execution" =>
       ExecTypeOK /\ RunsOnce /\ RunsAreLawful /\ TracesAreTrue /\ AchievedIsReal /\ OneVerdict
  /\ part = "governance" => GovTypeOK /\ EffectsAreAudited /\ AuditIsBalanced
  /\ part = "reliability" => RelTypeOK /\ ExcellentIsRare
  /\ part = "control" => ControlTypeOK /\ LessonsAreEarned

\* What no step does: prefer an alternative for its loss, free a blocked one, change what a human
\* decided, raise a risk by deciding, lower a level by a success, forget a fresh result.
ActionSteps ==
  [][/\ part = "evaluation" => ComparisonIsMonotone /\ BlocksAreKept
     /\ part = "pipeline" => DecisionsLast
     /\ part = "health" => DecidingLowersRisk
     /\ part = "reliability" => AchievedNeverWorsens
     /\ part = "control" => OnlyStaleForgets
    ]_<<part, evalVars, orderVars, pipeVars, healthVars, execVars, govVars, relVars, controlVars>>
=============================================================================
