----------------------------- MODULE AgentRuns -----------------------------
(***************************************************************************)
(* The agent runs of the local API (src/yoma/app.py): creation, approval,  *)
(* cancellation and execution of a one-step plan, as served concurrently   *)
(* by the worker threads of the HTTP server.                               *)
(*                                                                         *)
(* A worker holds no lock.  Every SQLite SELECT is a transaction of its    *)
(* own, every group of UPDATE/INSERT up to commit() is one transaction,    *)
(* and every audit record is committed separately after it.  One action    *)
(* below is one such transaction, one file-system call, or one change of   *)
(* the in-memory table of pending arguments.                               *)
(***************************************************************************)
EXTENDS Naturals, FiniteSets

CONSTANTS
    Threads,    \* worker threads serving requests
    Runs,       \* run ids that new_run_id() can hand out
    Targets,    \* root-relative paths a plan may create
    Users,
    NoRun,      \* no run: an idle worker's request, a free target's creator
    Kind,       \* Kind[r]: the tool of the only step of r's plan
    Target,     \* Target[r]: the path that step works on
    Owner,      \* Owner[r]: the user who creates r
    MaxRuns,    \* max_agent_runs_per_user
    MaxFaults   \* bound on crashes, busy databases and raising clears

Kinds == {"read", "mkdir", "write"}

ASSUME ThreadsAssumption == IsFiniteSet(Threads) /\ Threads # {}
ASSUME RunsAssumption    == IsFiniteSet(Runs) /\ NoRun \notin Runs
ASSUME PlanAssumption    == /\ Kind \in [Runs -> Kinds]
                            /\ Target \in [Runs -> Targets]
                            /\ Owner \in [Runs -> Users]
ASSUME BoundsAssumption  == MaxRuns \in Nat /\ MaxFaults \in Nat

VARIABLES
    status,           \* agent_runs.status, "absent" before the INSERT
    approvalRequired, \* the runs with agent_runs.approval_required = 1
    cancelRequested,  \* the runs with agent_runs.cancellation_requested = 1
    stepStatus,       \* agent_steps.status of the run's only step
    audit,            \* the <<run, event>> pairs in audit_events
    pending,          \* runs with an entry in pending_agent_arguments
    creator,          \* creator[x]: the run whose step created target x
    whole,            \* targets whose content is completely written
    pc,               \* pc[t]: what worker t does next
    req,              \* req[t]: the run of the request t is serving
    faults            \* faults so far (history, for the bound)

dbVars == <<status, approvalRequired, cancelRequested, stepStatus>>
fsVars == <<creator, whole>>
vars   == <<dbVars, audit, pending, fsVars, pc, req, faults>>

Terminal    == {"completed", "failed", "cancelled"}
Statuses    == Terminal \cup {"absent", "planned", "awaiting_approval", "running"}
StepStates  == {"absent", "planned", "running", "completed", "failed", "cancelled"}
Events      == {"created", "approved", "cancelled", "started", "step_started",
                "step_completed", "completed", "failed"}
Mutates(r)  == Kind[r] \in {"mkdir", "write"}

\* Places of execute_agent after the cancellation check, ahead of the effect ...
BeforeEffect == {"begin", "log_step", "arguments", "tool", "create"}
\* ... and those inside its try block, where an exception fails the step.
InTry  == {"arguments", "tool", "create", "fill", "verify", "complete",
           "log_step_done", "pop", "fail_run", "log_run_failed", "clear_run"}
\* The places where the next thing a worker does is a database write.
Writes == {"insert", "log_created", "approve", "log_approved", "cancel",
           "log_cancelled", "start", "log_started", "cancel_steps",
           "log_cancel_seen", "begin", "log_step", "complete",
           "log_step_done", "finish_update", "log_completed", "fail",
           "fail_run", "log_run_failed", "log_failed"}
Places == Writes \cup InTry \cup
          {"idle", "loop", "clear_cancel", "finish", "clear"}

TypeOK ==
    /\ status \in [Runs -> Statuses]
    /\ approvalRequired \in SUBSET Runs
    /\ cancelRequested \in SUBSET Runs
    /\ stepStatus \in [Runs -> StepStates]
    /\ audit \in SUBSET (Runs \X Events)
    /\ pending \in SUBSET Runs
    /\ creator \in [Targets -> Runs \cup {NoRun}]
    /\ whole \in SUBSET Targets
    /\ pc \in [Threads -> Places]
    /\ req \in [Threads -> Runs \cup {NoRun}]
    /\ \A t \in Threads : pc[t] # "idle" => req[t] \in Runs
    /\ faults \in 0..MaxFaults

Init ==
    /\ status = [r \in Runs |-> "absent"]
    /\ approvalRequired = {}
    /\ cancelRequested = {}
    /\ stepStatus = [r \in Runs |-> "absent"]
    /\ audit = {}
    /\ pending = {}
    /\ creator = [x \in Targets |-> NoRun]
    /\ whole = {}
    /\ pc = [t \in Threads |-> "idle"]
    /\ req = [t \in Threads |-> NoRun]
    /\ faults = 0

-----------------------------------------------------------------------------
(* Control of one worker.                                                  *)

At(t, place) == pc[t] = place

Goto(t, place) ==
    /\ pc' = [pc EXCEPT ![t] = place]
    /\ UNCHANGED <<req, faults>>

\* The worker answers its request.
Return(t) ==
    /\ pc' = [pc EXCEPT ![t] = "idle"]
    /\ req' = [req EXCEPT ![t] = NoRun]
    /\ UNCHANGED faults

\* An idle worker takes a request about run r.
Serve(t, r, place) ==
    /\ At(t, "idle")
    /\ pc' = [pc EXCEPT ![t] = place]
    /\ req' = [req EXCEPT ![t] = r]
    /\ UNCHANGED faults

\* audit.record(): one INSERT with a commit of its own.
LogAs(t, place, event, next) ==
    /\ At(t, place)
    /\ audit' = audit \cup {<<req[t], event>>}
    /\ Goto(t, next)
    /\ UNCHANGED <<dbVars, pending, fsVars>>

\* audit.record() as the last thing a handler does.
LogLast(t, place, event) ==
    /\ At(t, place)
    /\ audit' = audit \cup {<<req[t], event>>}
    /\ Return(t)
    /\ UNCHANGED <<dbVars, pending, fsVars>>

-----------------------------------------------------------------------------
(* POST /agent/runs                                                        *)

OwnedBy(u) == {r \in Runs : status[r] # "absent" /\ Owner[r] = u}

\* Mutant: ids that collide with one another worker is inserting.
FreshStoredOnly(r) == status[r] = "absent"

\* uuid4().hex: never an id that is stored, pending or being inserted.
Fresh(r) ==
    /\ status[r] = "absent"
    /\ r \notin pending
    /\ \A t \in Threads : ~(At(t, "insert") /\ req[t] = r)

BelowLimit(u) == Cardinality(OwnedBy(u)) < MaxRuns

CreateCheck(t, r) ==
    /\ Fresh(r)
    /\ BelowLimit(Owner[r])
    /\ Serve(t, r, "insert")
    /\ UNCHANGED <<dbVars, audit, pending, fsVars>>

RunStatus(r) == IF Mutates(r) THEN "awaiting_approval" ELSE "planned"
FirstStepStatus(r) == "planned"

CreateInsert(t) ==
    LET r == req[t] IN
    /\ At(t, "insert")
    /\ status' = [status EXCEPT ![r] = RunStatus(r)]
    /\ approvalRequired' = IF Mutates(r) THEN approvalRequired \cup {r}
                                        ELSE approvalRequired
    /\ stepStatus' = [stepStatus EXCEPT ![r] = FirstStepStatus(r)]
    /\ pending' = pending \cup {r}
    /\ Goto(t, "log_created")
    /\ UNCHANGED <<cancelRequested, audit, fsVars>>

-----------------------------------------------------------------------------
(* POST /agent/runs/{id}/approve                                           *)

ApproveCheck(t, r) ==
    /\ status[r] = "awaiting_approval"
    /\ r \in approvalRequired
    /\ Serve(t, r, "approve")
    /\ UNCHANGED <<dbVars, audit, pending, fsVars>>

ApproveUpdate(t) ==
    /\ At(t, "approve")
    /\ approvalRequired' = approvalRequired \ {req[t]}
    /\ status' = [status EXCEPT ![req[t]] = "planned"]
    /\ Goto(t, "log_approved")
    /\ UNCHANGED <<cancelRequested, stepStatus, audit, pending, fsVars>>

-----------------------------------------------------------------------------
(* POST /agent/runs/{id}/cancel                                            *)

CancelCheck(t, r) ==
    /\ status[r] \notin Terminal \cup {"absent"}
    /\ Serve(t, r, "cancel")
    /\ UNCHANGED <<dbVars, audit, pending, fsVars>>

AfterCancel == "clear_cancel"

CancelUpdate(t) ==
    /\ At(t, "cancel")
    /\ cancelRequested' = cancelRequested \cup {req[t]}
    /\ status' = [status EXCEPT ![req[t]] = "cancelled"]
    /\ Goto(t, AfterCancel)
    /\ UNCHANGED <<approvalRequired, stepStatus, audit, pending, fsVars>>

CancelClear(t) ==
    /\ At(t, "clear_cancel")
    /\ pending' = pending \ {req[t]}
    /\ Goto(t, "log_cancelled")
    /\ UNCHANGED <<dbVars, audit, fsVars>>

-----------------------------------------------------------------------------
(* POST /agent/runs/{id}/execute                                           *)

\* Mutant: the approval is only looked at by the approve handler.
Ungated(r) == FALSE
Gated(r) == r \in approvalRequired

ExecuteCheck(t, r) ==
    /\ status[r] \notin Terminal \cup {"absent"}
    /\ ~Gated(r)
    /\ Serve(t, r, "start")
    /\ UNCHANGED <<dbVars, audit, pending, fsVars>>

AfterStart == "log_started"

\* The UPDATE names the run only: a 'running' run is started once more.
ExecuteStart(t) ==
    /\ At(t, "start")
    /\ status' = [status EXCEPT ![req[t]] = "running"]
    /\ Goto(t, AfterStart)
    /\ UNCHANGED <<approvalRequired, cancelRequested, stepStatus, audit,
                   pending, fsVars>>

\* Mutant: only the status is looked at, which execute may have overwritten.
CancelSeenByStatus(r) == status[r] = "cancelled"

CancelSeen(r) == r \in cancelRequested \/ status[r] = "cancelled"

\* The SELECT at the head of the loop; time.monotonic() may exceed
\* max_agent_execution_seconds at any point.
LoopCheck(t) ==
    /\ At(t, "loop")
    /\ \/ CancelSeen(req[t]) /\ Goto(t, "cancel_steps")
       \/ ~CancelSeen(req[t]) /\ \E next \in {"begin", "fail"} : Goto(t, next)
    /\ UNCHANGED <<dbVars, audit, pending, fsVars>>

CancelSteps(t) ==
    /\ At(t, "cancel_steps")
    /\ stepStatus' = [stepStatus EXCEPT ![req[t]] =
                        IF @ = "planned" THEN "cancelled" ELSE @]
    /\ Goto(t, "log_cancel_seen")
    /\ UNCHANGED <<status, approvalRequired, cancelRequested, audit, pending,
                   fsVars>>

BeginStep(t) ==
    /\ At(t, "begin")
    /\ stepStatus' = [stepStatus EXCEPT ![req[t]] = "running"]
    /\ Goto(t, "log_step")
    /\ UNCHANGED <<status, approvalRequired, cancelRequested, audit, pending,
                   fsVars>>

\* The content of a write exists in memory only ("arguments_unavailable").
TakeArguments(t) ==
    /\ At(t, "arguments")
    /\ Goto(t, IF Kind[req[t]] = "write" /\ req[t] \notin pending
               THEN "fail" ELSE "tool")
    /\ UNCHANGED <<dbVars, audit, pending, fsVars>>

\* execute_tool() up to target.exists(); the root, the role or the arguments
\* may make it refuse, which fails the step like any exception.
ToolCheck(t) ==
    LET r == req[t] IN
    /\ At(t, "tool")
    /\ \/ Goto(t, "fail")
       \/ ~Mutates(r) /\ Goto(t, "verify")
       \/ Mutates(r) /\ creator[Target[r]] = NoRun /\ Goto(t, "create")
    /\ UNCHANGED <<dbVars, audit, pending, fsVars>>

\* Mutant: open(target, "w") creates over what is there.
FreeOrNot(x) == TRUE
Free(x) == creator[x] = NoRun

\* Mutant: a target that exists counts as created.
AfterExistsOk == "verify"
AfterExists == "fail"

\* open(target, "x") or mkdir(): creates the target or raises, atomically.
ToolCreate(t) ==
    LET r == req[t]
        x == Target[r] IN
    /\ At(t, "create")
    /\ \/ /\ Free(x)
          /\ creator' = [creator EXCEPT ![x] = r]
          /\ whole' = IF Kind[r] = "mkdir" THEN whole \cup {x} ELSE whole
          /\ Goto(t, IF Kind[r] = "mkdir" THEN "verify" ELSE "fill")
       \/ /\ ~Free(x)
          /\ Goto(t, AfterExists)
          /\ UNCHANGED fsVars
    /\ UNCHANGED <<dbVars, audit, pending>>

\* Mutant: an OSError of the write is swallowed.
AfterWriteErrorIgnored == "verify"
AfterWriteError == "fail"

\* handle.write() and close(); an OSError leaves what was written.
ToolFill(t) ==
    /\ At(t, "fill")
    /\ \/ whole' = whole \cup {Target[req[t]]} /\ Goto(t, "verify")
       \/ Goto(t, AfterWriteError) /\ UNCHANGED whole
    /\ UNCHANGED <<dbVars, audit, pending, creator>>

\* verify_agent_result(); the approved root may have been removed meanwhile.
Verify(t) ==
    LET r == req[t] IN
    /\ At(t, "verify")
    /\ \/ Goto(t, "fail")
       \/ (Mutates(r) => creator[Target[r]] # NoRun) /\ Goto(t, "complete")
    /\ UNCHANGED <<dbVars, audit, pending, fsVars>>

CompleteStep(t) ==
    /\ At(t, "complete")
    /\ stepStatus' = [stepStatus EXCEPT ![req[t]] = "completed"]
    /\ Goto(t, "log_step_done")
    /\ UNCHANGED <<status, approvalRequired, cancelRequested, audit, pending,
                   fsVars>>

\* The pop of the step's arguments, then the second timeout check.
PopArguments(t) ==
    /\ At(t, "pop")
    /\ pending' = pending \ {req[t]}
    /\ \E next \in {"finish", "fail_run"} : Goto(t, next)
    /\ UNCHANGED <<dbVars, audit, fsVars>>

FinishCheck(t) ==
    /\ At(t, "finish")
    /\ \/ req[t] \notin cancelRequested /\ Goto(t, "finish_update")
       \/ req[t] \in cancelRequested /\ Return(t)
    /\ UNCHANGED <<dbVars, audit, pending, fsVars>>

FinishUpdate(t) ==
    /\ At(t, "finish_update")
    /\ status' = [status EXCEPT ![req[t]] = "completed"]
    /\ Goto(t, "log_completed")
    /\ UNCHANGED <<approvalRequired, cancelRequested, stepStatus, audit,
                   pending, fsVars>>

\* Mutant: the failure is recorded on the step only.
StatusKeptOnFailure(r) == status[r]
StatusOnFailure(r) == "failed"

\* mark_agent_failure(step): the step and the run, in one transaction.
FailStep(t) ==
    /\ At(t, "fail")
    /\ stepStatus' = [stepStatus EXCEPT ![req[t]] = "failed"]
    /\ status' = [status EXCEPT ![req[t]] = StatusOnFailure(req[t])]
    /\ Goto(t, "log_failed")
    /\ UNCHANGED <<approvalRequired, cancelRequested, audit, pending, fsVars>>

\* mark_agent_failure(None): the run alone.  It is called inside the try block: one that raises
\* is followed by the failure of the step, which had completed.
FailRun(t) ==
    /\ At(t, "fail_run")
    /\ status' = [status EXCEPT ![req[t]] = "failed"]
    /\ Goto(t, "log_run_failed")
    /\ UNCHANGED <<approvalRequired, cancelRequested, stepStatus, audit,
                   pending, fsVars>>

\* clear_pending_agent_arguments() as the last thing of an execution.
Clear(t) ==
    /\ pc[t] \in {"clear", "clear_run"}
    /\ pending' = pending \ {req[t]}
    /\ Return(t)
    /\ UNCHANGED <<dbVars, audit, fsVars>>

-----------------------------------------------------------------------------
(* Audit records, one transaction each.                                    *)

Log(t) ==
    \/ LogLast(t, "log_created", "created")
    \/ LogLast(t, "log_approved", "approved")
    \/ LogLast(t, "log_cancelled", "cancelled")
    \/ LogLast(t, "log_cancel_seen", "cancelled")
    \/ LogAs(t, "log_started", "started", "loop")
    \/ LogAs(t, "log_step", "step_started", "arguments")
    \/ LogAs(t, "log_step_done", "step_completed", "pop")
    \/ LogAs(t, "log_completed", "completed", "clear")
    \/ LogAs(t, "log_failed", "failed", "clear")
    \/ LogAs(t, "log_run_failed", "failed", "clear_run")

-----------------------------------------------------------------------------
(* Faults.                                                                 *)

Fault == faults < MaxFaults /\ faults' = faults + 1

Abandon(t) ==
    /\ pc' = [pc EXCEPT ![t] = "idle"]
    /\ req' = [req EXCEPT ![t] = NoRun]

\* An exception leaves the handler, unless the try block of execute_agent turns it into a failure.
Raised(t) ==
    \/ pc[t] \in InTry /\ pc' = [pc EXCEPT ![t] = "fail"] /\ UNCHANGED req
    \/ pc[t] \notin InTry /\ Abandon(t)

\* "database is locked": the write is rolled back.
\* A create whose commit fails has already stored its pending arguments.
DatabaseBusy(t) ==
    /\ pc[t] \in Writes
    /\ Fault
    /\ Raised(t)
    /\ \/ UNCHANGED pending
       \/ At(t, "insert") /\ pending' = pending \cup {req[t]}
    /\ UNCHANGED <<dbVars, audit, fsVars>>

\* Iterating pending_agent_arguments raises RuntimeError when another worker
\* resizes it meanwhile; the entry stays.
Resizes(u) == \/ At(u, "insert")
              \/ pc[u] \in {"pop", "clear", "clear_run", "clear_cancel"} /\ req[u] \in pending

ClearRaises(t) ==
    /\ pc[t] \in {"clear", "clear_run", "clear_cancel"}
    /\ \E u \in Threads \ {t} : Resizes(u)
    /\ Fault
    /\ Raised(t)
    /\ UNCHANGED <<dbVars, audit, pending, fsVars>>

\* The process dies: committed rows and files stay, memory is gone.
Crash ==
    /\ Fault
    /\ pc' = [t \in Threads |-> "idle"]
    /\ req' = [t \in Threads |-> NoRun]
    /\ pending' = {}
    /\ UNCHANGED <<dbVars, audit, fsVars>>

-----------------------------------------------------------------------------
Request(t, r) ==
    CreateCheck(t, r) \/ ApproveCheck(t, r) \/ CancelCheck(t, r) \/ ExecuteCheck(t, r)

\* What a worker does for a request it has accepted.
Step(t) ==
    \/ CreateInsert(t)  \/ ApproveUpdate(t) \/ CancelUpdate(t) \/ CancelClear(t)
    \/ ExecuteStart(t)  \/ LoopCheck(t)     \/ CancelSteps(t)  \/ BeginStep(t)
    \/ TakeArguments(t) \/ ToolCheck(t)     \/ ToolCreate(t)   \/ ToolFill(t)
    \/ Verify(t)        \/ CompleteStep(t)  \/ PopArguments(t)
    \/ FinishCheck(t)   \/ FinishUpdate(t)  \/ FailStep(t)     \/ FailRun(t)
    \/ Clear(t)         \/ Log(t)

Next ==
    \/ \E t \in Threads, r \in Runs : Request(t, r)
    \/ \E t \in Threads : Step(t) \/ DatabaseBusy(t) \/ ClearRaises(t)
    \/ Crash

Spec == Init /\ [][Next]_vars

\* A worker thread that has accepted a request is scheduled until it answers;
\* nothing obliges a client to send one.
FairSpec == Spec /\ \A t \in Threads : WF_vars(Step(t))

-----------------------------------------------------------------------------
(* Properties of the code.                                                 *)

Holding(r)   == {t \in Threads : req[t] = r /\ pc[t] \in BeforeEffect}
Serving(r)   == {t \in Threads : req[t] = r /\ pc[t] # "idle"}
Quiet(r)     == Serving(r) = {}
Effect(r)    == creator[Target[r]] = r

\* The approval gate: whatever a run has created, in any interleaving of
\* approve, cancel and execute and after any crash, its owner had cleared
\* approval_required before (app.py execute_agent against approve_agent_run).
EffectApproved == \A r \in Runs : Effect(r) => r \notin approvalRequired

\* The audit trail is written ahead of the effect: a target is never created
\* by a run whose start and step start are not already in audit_events,
\* although both records are transactions of their own that may fail.
EffectLogged ==
    \A r \in Runs : Effect(r) => {<<r, "started">>, <<r, "step_started">>} \subseteq audit

\* Whatever a run created was approved, and its start and the start of its step are in the
\* audit table: execute_agent() commits both before it calls the tool.
EffectsGoverned == EffectApproved /\ EffectLogged

\* A run shown as completed has its effect, whole: neither the failure of a
\* concurrent execution of the same run nor another run working on the same
\* path can produce a 'completed' without it (verify_agent_result).
CompletedHasEffect ==
    \A r \in Runs : status[r] = "completed" /\ Mutates(r) =>
        Effect(r) /\ Target[r] \in whole

\* Per user, the runs stored exceed max_agent_runs_per_user by at most the
\* creations that can be between the COUNT and the INSERT at the same time.
RunsBounded ==
    \A u \in Users : Cardinality(OwnedBy(u)) <= MaxRuns + Cardinality(Threads) - 1

\* Without a fault, the write content kept in memory is dropped by the time a
\* finished run is at rest, whichever of its handlers finished it.
PendingCleared ==
    \A r \in Runs : faults = 0 /\ Quiet(r) /\ status[r] \in Terminal => r \notin pending

\* A file or directory created by a run is never overwritten or taken over by
\* another run or a repeated execution (open "x" and mkdir in execute_tool).
CreateOnly ==
    [][\A x \in Targets : /\ creator[x] # NoRun => creator'[x] = creator[x]
                          /\ x \in whole => x \in whole']_vars

\* Cancellation prevents future steps: once the flag is committed and no
\* execution is past its check, no execution gets past it again, although
\* execute and approve may overwrite the status 'cancelled' meanwhile.
CancelStopsSteps ==
    [][\A r \in Runs : r \in cancelRequested /\ Holding(r) = {} => Holding(r)' = {}]_vars

\* A started run does not stay 'running' for ever unless it was cancelled
\* while it ran or a fault struck.
RunningSettles ==
    \A r \in Runs : (status[r] = "running") ~>
                      (status[r] # "running" \/ r \in cancelRequested \/ faults > 0)

\* After a cancellation every execution of the run drains.
CancelDrains ==
    \A r \in Runs : (r \in cancelRequested) ~> [](Holding(r) = {})

-----------------------------------------------------------------------------
(* The inductive invariant behind the safety properties.                   *)

\* Everything after the guard of the execute handler.
ExecutePlaces == BeforeEffect \cup InTry \cup
    {"start", "log_started", "loop", "cancel_steps", "log_cancel_seen",
     "finish", "finish_update", "fail", "log_failed", "log_completed", "clear"}
\* After a tool that worked: the effect is there and whole.
Verified == {"verify", "complete", "log_step_done", "pop", "finish", "finish_update"}

\* An id being inserted is not stored and belongs to one worker.
InsertInv ==
    \A t \in Threads : At(t, "insert") =>
        /\ status[req[t]] = "absent"
        /\ \A u \in Threads \ {t} : ~(At(u, "insert") /\ req[u] = req[t])

\* Any other request is about a stored run, and so is a missing approval.
StoredInv ==
    /\ \A t \in Threads : pc[t] \notin {"idle", "insert"} => status[req[t]] # "absent"
    /\ \A r \in approvalRequired : status[r] # "absent"

\* A run in execution needs no approval, and never will again.
ApprovedInv ==
    \A t \in Threads : pc[t] \in ExecutePlaces => req[t] \notin approvalRequired

LoggedInv ==
    \A t \in Threads :
        /\ pc[t] \in BeforeEffect \cup {"loop"} => <<req[t], "started">> \in audit
        /\ pc[t] \in {"arguments", "tool", "create"} =>
              <<req[t], "step_started">> \in audit

WorkInv ==
    \A t \in Threads :
        /\ pc[t] \in {"create", "fill"} => Mutates(req[t])
        /\ pc[t] = "fill" => Effect(req[t])
        /\ pc[t] \in Verified /\ Mutates(req[t]) =>
              Effect(req[t]) /\ Target[req[t]] \in whole

CreatorInv ==
    \A x \in Targets : creator[x] # NoRun =>
        LET r == creator[x] IN
        /\ Target[r] = x /\ Mutates(r)
        /\ status[r] # "absent" /\ r \notin approvalRequired
        /\ <<r, "started">> \in audit /\ <<r, "step_started">> \in audit

CompletedInv ==
    \A r \in Runs : status[r] = "completed" =>
        /\ r \notin approvalRequired
        /\ Mutates(r) => Effect(r) /\ Target[r] \in whole

\* Runs being inserted count as stored: the creations admitted on one count
\* are at most one per worker.
Inserting(u) == {t \in Threads : At(t, "insert") /\ Owner[req[t]] = u}
LimitInv ==
    \A u \in Users :
        Cardinality(OwnedBy(u)) + Cardinality(Inserting(u))
            <= MaxRuns + Cardinality(Threads) - 1

\* Pending arguments of a finished run have a worker about to drop them.
ClearPlaces ==
    {"clear_cancel", "log_failed", "log_run_failed", "log_completed", "clear", "clear_run"}
PendingInv ==
    faults = 0 => \A r \in pending : status[r] \in Terminal =>
                      \E t \in Threads : req[t] = r /\ pc[t] \in ClearPlaces

IInv == /\ TypeOK    /\ InsertInv /\ StoredInv  /\ ApprovedInv
        /\ LoggedInv /\ WorkInv   /\ CreatorInv /\ CompletedInv

-----------------------------------------------------------------------------
(* The abstract specification this module implements.                      *)

Governance == INSTANCE ActionGovernance WITH
    Mutating <- {r \in Runs : Mutates(r)},
    opened   <- {r \in Runs : status[r] # "absent" /\ r \notin approvalRequired},
    shown    <- {r \in Runs : status[r] = "completed"}

\* The concurrent handlers, their separate transactions and their failures
\* keep the promises of ActionGovernance: gate before effect, one creator per
\* path, completed only with the whole effect.
ImplementsGovernance == Governance!Spec

-----------------------------------------------------------------------------
(* A claim of the code's own messages, which a run refutes.                *)

\* "agent run is already terminal" (app.py:1301, 1376): a run that completed,
\* failed or was cancelled takes no further status.
TerminalIsFinal ==
    [][\A r \in Runs : status[r] \in Terminal => status'[r] = status[r]]_vars
=============================================================================
