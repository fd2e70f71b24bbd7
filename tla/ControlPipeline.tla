--------------------------- MODULE ControlPipeline ---------------------------
(***************************************************************************)
(* The way of an action plan from a decision to the queue of human         *)
(* approvals and to its schedule: yoma/office/unified_control_runtime.py,  *)
(* unified_control_orchestration.py, control_orchestration.py,             *)
(* decision_dependencies.py, multi_action_execution.py,                    *)
(* execution_scheduling.py, human_approval_queue.py, action_approval.py.   *)
(*                                                                         *)
(* Schedules and queue items are named by their plan and the time they are *)
(* scheduled for.  One thread calls the engines.                           *)
(***************************************************************************)
EXTENDS Integers, Sequences

CONSTANTS
  Plans,
  Targeted,   \* the plans whose step names a user or a system
  EndTime,    \* bound: the clock stops here
  MaxCalls,   \* bound: calls of analyze
  Decisions,  \* what a human may decide about an item
  NoPlan, NoTime, Idle

ASSUME PipelineAssumption ==
  /\ Targeted \subseteq Plans /\ EndTime \in Nat /\ MaxCalls \in Nat
  /\ Decisions \subseteq {"approved", "rejected", "modified"}
  /\ NoTime \notin Nat

VARIABLES
  time,
  orch,      \* ControlOrchestrationEngine._orchestrations: with dependencies or not
  schedule,  \* ExecutionSchedulingEngine._schedules, by plan and time
  item,      \* HumanApprovalQueue._items, by plan and time
  intel,     \* OrchestrationIntelligenceEngine._cache: the schedule it is about
  result,    \* UnifiedControlOrchestrationRuntime._cache: the schedule it names
  cleared,   \* clear() of that cache has been called
  request,   \* the call of UnifiedControlRuntime.analyze under way
  last,      \* the plans of UnifiedControlRuntime._last_result
  calls      \* of analyze so far

pipeVars == <<time, orch, schedule, item, intel, result, cleared, request, last, calls>>

Times == 0 .. EndTime
Orchestrations == {"none", "plain", "dependent"}
ScheduleStatus == {"none", "scheduled", "ready", "cancelled", "completed"}
ItemStatus == {"none", "pending", "approved", "rejected", "modified"}

\* The plan of the decision comes first, alternatives after it; the map, if there
\* is one, is of one of them.
Request == [plans : {<<>>} \cup {<<p>> : p \in Plans} \cup {<<p, q>> : p, q \in Plans},
            all : SUBSET Plans, at : Times, map : Plans \cup {NoPlan}]

ASSUME IdleAssumption == Idle \notin Request

PipeInit ==
  /\ time = 0 /\ cleared = FALSE /\ request = Idle /\ last = {} /\ calls = 0
  /\ orch = [p \in Plans |-> "none"]
  /\ schedule = [p \in Plans |-> [t \in Times |-> "none"]]
  /\ item = [p \in Plans |-> [t \in Times |-> "none"]]
  /\ intel = [p \in Plans |-> NoTime] /\ result = [p \in Plans |-> NoTime]

-----------------------------------------------------------------------------
(* UnifiedControlRuntime.analyze: every plan is orchestrated, one after the  *)
(* other, with the same map; an exception ends the request.                  *)

Accept(plans, at, map) ==
  request' = [plans |-> plans, all |-> {plans[i] : i \in DOMAIN plans}, at |-> at, map |-> map]

Analyze ==
  \E p \in Plans : \E others \in SUBSET (Plans \ {p}), at \in Times, map \in Plans \cup {NoPlan} :
  /\ request = Idle /\ map \in {NoPlan, p} \cup others
  /\ calls < MaxCalls /\ calls' = calls + 1
  /\ \E plans \in {<<p>>} \cup {<<p, q>> : q \in others} :
       Accept(plans, at, map)
  /\ UNCHANGED <<time, orch, schedule, item, intel, result, cleared, last>>

\* DecisionDependencyEngine: a dependency DEP-... for each target of the plan
HasDependencies(p) == p \in Targeted

MapIsOf(p) == request.map \in {NoPlan, p}

\* build(): the ids DEP-... of what a plan targets become dependencies of its step;
\* the first orchestration of a plan is kept.
Orchestrated(p) ==
  IF orch[p] # "none" THEN orch[p]
  ELSE IF request.map = p /\ HasDependencies(p) THEN "dependent" ELSE "plain"

SameTime(p, at) == result[p] # NoTime /\ result[p] = at
CachedResult(p, at) == result[p] # NoTime

\* schedule() refuses the past, and a plan with dependencies that are not actions.
Unschedulable(p, at) == at < time \/ Orchestrated(p) = "dependent"

NextPlan == request' = [request EXCEPT !.plans = Tail(@)]
Raise == request' = Idle

\* orchestrate(), from the build to the cache of results.
Orchestrate ==
  /\ request # Idle /\ request.plans # <<>>
  /\ LET p == Head(request.plans)
         at == request.at
     IN IF ~MapIsOf(p) THEN Raise /\ UNCHANGED <<orch, schedule, item, intel, result>>
        ELSE /\ orch' = [orch EXCEPT ![p] = Orchestrated(p)]
             /\ IF CachedResult(p, at)
                THEN NextPlan /\ UNCHANGED <<schedule, item, intel, result>>
                ELSE IF Unschedulable(p, at)
                THEN Raise /\ UNCHANGED <<schedule, item, intel, result>>
                ELSE /\ schedule' = [schedule EXCEPT ![p][at] = IF @ = "none"
                                                             THEN "scheduled" ELSE @]
                     /\ item' = [item EXCEPT ![p][at] = IF @ = "none" THEN "pending" ELSE @]
                     /\ intel' = [intel EXCEPT ![p] = IF @ = NoTime THEN at ELSE @]
                     /\ result' = [result EXCEPT ![p] = at]
                     /\ NextPlan
  /\ UNCHANGED <<time, cleared, last, calls>>

AnalyzeReturn ==
  /\ request # Idle /\ request.plans = <<>>
  /\ last' = request.all /\ request' = Idle
  /\ UNCHANGED <<time, orch, schedule, item, intel, result, cleared, calls>>

-----------------------------------------------------------------------------
(* Between requests                                                          *)

Clear ==
  /\ request = Idle
  /\ result' = [p \in Plans |-> NoTime] /\ cleared' = TRUE
  /\ UNCHANGED <<time, orch, schedule, item, intel, request, last, calls>>

MayDecide(p, at) == item[p][at] = "pending"

\* approve(), reject(), modify()
Decide == \E p \in Plans, at \in Times, decision \in Decisions :
  /\ request = Idle /\ MayDecide(p, at)
  /\ item' = [item EXCEPT ![p][at] = decision]
  /\ UNCHANGED <<time, orch, schedule, intel, result, cleared, request, last, calls>>

SetSchedule(p, at, status) ==
  /\ request = Idle
  /\ schedule' = [schedule EXCEPT ![p][at] = status]
  /\ UNCHANGED <<time, orch, item, intel, result, cleared, request, last, calls>>

Due(at) == at <= time
Ready == \E p \in Plans, at \in Times :
  schedule[p][at] = "scheduled" /\ Due(at) /\ SetSchedule(p, at, "ready")

MayCancel(p, at) == schedule[p][at] \in {"scheduled", "ready"}
Cancel == \E p \in Plans, at \in Times : MayCancel(p, at) /\ SetSchedule(p, at, "cancelled")

Complete == \E p \in Plans, at \in Times :
  schedule[p][at] = "ready" /\ SetSchedule(p, at, "completed")

PipeTick ==
  /\ time < EndTime /\ time' = time + 1
  /\ UNCHANGED <<orch, schedule, item, intel, result, cleared, request, last, calls>>

PipeNext ==
  \/ Analyze \/ Orchestrate \/ AnalyzeReturn \/ Clear \/ Decide
  \/ Ready \/ Cancel \/ Complete \/ PipeTick

PipeSpec == PipeInit /\ [][PipeNext]_pipeVars

-----------------------------------------------------------------------------

PipeTypeOK ==
  /\ time \in Times /\ cleared \in BOOLEAN /\ last \subseteq Plans /\ calls \in 0 .. MaxCalls
  /\ request = Idle \/ request \in Request
  /\ orch \in [Plans -> Orchestrations]
  /\ schedule \in [Plans -> [Times -> ScheduleStatus]]
  /\ item \in [Plans -> [Times -> ItemStatus]]
  /\ intel \in [Plans -> Times \cup {NoTime}] /\ result \in [Plans -> Times \cup {NoTime}]

\* A plan that was orchestrated with the dependencies of its targets is never
\* scheduled, queued or answered, however often it is tried again, without a map
\* and after clear() too: its dependencies are no actions.
DependentIsNeverQueued == \A p \in Plans : orch[p] = "dependent" =>
  /\ result[p] = NoTime /\ intel[p] = NoTime
  /\ \A t \in Times : schedule[p][t] = "none" /\ item[p][t] = "none"

\* A plan is asked about in the queue exactly when it is scheduled, and until the
\* cache is cleared only once, with the result and the intelligence about that
\* schedule: a request that raises leaves nothing half-way of the plan it raised at.
QueueFollowsSchedule == \A p \in Plans :
  /\ \A t \in Times : (item[p][t] = "none") <=> (schedule[p][t] = "none")
  /\ result[p] # NoTime => schedule[p][result[p]] # "none" /\ intel[p] # NoTime
  /\ ~cleared => \A t \in Times : schedule[p][t] # "none" <=> result[p] = t /\ intel[p] = t

\* The last result of the runtime covers every plan of its request: one that was
\* refused ends the request, although the plans before it stay scheduled.
LastIsComplete == ~cleared => \A p \in last : result[p] # NoTime

\* A schedule is ready or completed only at or after its time.
CompletedWasDue == \A p \in Plans, t \in Times :
  schedule[p][t] \in {"ready", "completed"} => t <= time

\* What a human decided is decided, through repeated and cleared orchestrations of
\* the plan, and so are the ends of a schedule.
DecisionsLast ==
  [\A p \in Plans, t \in Times :
     /\ item[p][t] \in Decisions => item'[p][t] = item[p][t]
     /\ schedule[p][t] \in {"cancelled", "completed"} => schedule'[p][t] = schedule[p][t]]_pipeVars
=============================================================================
