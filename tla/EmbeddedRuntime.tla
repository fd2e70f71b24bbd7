-------------------------- MODULE EmbeddedRuntime --------------------------
(***************************************************************************)
(* The lifecycle of YomaEmbeddedRuntime (yoma/office/runtime.py): start    *)
(* and stop with the license check, the collection scheduler they drive,   *)
(* the runtime state they persist (yoma/office/runtime_state.py), and the  *)
(* process that crashes and starts again.                                  *)
(*                                                                         *)
(* The scheduler is CollectionScheduler: start() and stop() of the runtime *)
(* enter its methods and go on when they return.  No lock is held: every   *)
(* test and every write of a field is a step of its own, between which     *)
(* another caller may come.  A write of the stored state is one SQLite     *)
(* transaction that can fail.                                              *)
(***************************************************************************)
EXTENDS CollectionScheduler

CONSTANT MaxFaults, MaxCrashes   \* bounds: failed calls, crashes

ASSUME RuntimeAssumption == MaxFaults \in Nat /\ MaxCrashes \in Nat

VARIABLES
  running,    \* self._running
  state,      \* self._runtime_state
  stored,     \* yoma_runtime_state.state, "none" before the first save
  blocked,    \* self._license_blocked
  restored,   \* self._restored_integrations
  licensed,   \* what can_run_yoma() answers
  rpc,        \* where each caller is in start() or stop()
  saved,      \* history: this process has saved a state
  overlapped, \* history: since the last rest, a call began while another was under way
  faults,     \* history: writes, restores and license checks that failed, for the bound
  crashes     \* history: crashes, for the bound

memory == <<running, state, blocked, restored>>
runtimeVars == <<memory, stored, licensed, rpc, saved, overlapped, faults, crashes>>
\* what no step inside a call changes
world == <<licensed, overlapped, crashes>>
vars == <<schedVars, runtimeVars>>

States == {"stopped", "booting", "license_expired", "running", "failed", "stopping"}

RuntimePoints ==
  {"idle", "begin", "boot", "restore", "restoring", "license", "allowed", "mark",
   "denied", "refused", "blocked", "enter", "starting", "started", "ran", "failing",
   "failed", "record", "stop", "stopping", "halt", "halting", "stopped", "finish"}

RuntimeInit ==
  /\ running = FALSE /\ state = "stopped" /\ blocked = FALSE /\ restored = FALSE
  /\ rpc = [c \in Callers |-> "idle"]
  /\ saved = FALSE /\ overlapped = FALSE

Init ==
  /\ SchedInit
  /\ RuntimeInit
  /\ stored = "none"
  /\ licensed \in BOOLEAN
  /\ faults = 0 /\ crashes = 0

Step(c, from, to) == rpc[c] = from /\ rpc' = [rpc EXCEPT ![c] = to]

Fault == faults < MaxFaults /\ faults' = faults + 1

\* save(): the new state is stored, or the write fails and nothing is.
Save(s) == stored' = s /\ saved' = TRUE /\ UNCHANGED faults
SaveFails == Fault /\ UNCHANGED <<stored, saved>>

-----------------------------------------------------------------------------
(* start() *)

\* A call begins beside the calls under way, or at rest.
Begins(c, to) ==
  /\ Step(c, "idle", to)
  /\ overlapped' = (\E d \in Callers : rpc[d] # "idle")
  /\ UNCHANGED <<schedVars, memory, stored, licensed, saved, faults, crashes>>

\* if self._running: return
RuntimeStart(c) == ~ running /\ Begins(c, "begin")

\* self._runtime_state = s
Show(c, from, s, to) ==
  /\ Step(c, from, to)
  /\ state' = s
  /\ UNCHANGED <<schedVars, running, blocked, restored, stored, saved, faults, world>>

ShowBooting(c) == Show(c, "begin", "booting", "boot")

\* The first save is outside of the try: its exception leaves start() at once.
SaveBooting(c) ==
  /\ \/ Step(c, "boot", "restore") /\ Save("booting")
     \/ Step(c, "boot", "idle") /\ SaveFails
  /\ UNCHANGED <<schedVars, memory, world>>

\* restore_integrations(): nothing to do once it has succeeded
Restore(c) ==
  /\ Step(c, "restore", IF restored THEN "license" ELSE "restoring")
  /\ UNCHANGED <<schedVars, memory, stored, saved, faults, world>>

Restored(c) ==
  /\ \/ Step(c, "restoring", "license") /\ restored' = TRUE /\ UNCHANGED faults
     \/ Step(c, "restoring", "failing") /\ Fault /\ UNCHANGED restored
  /\ UNCHANGED <<schedVars, running, state, blocked, stored, saved, world>>

\* can_run_yoma() answers, or raises: it stores the end of a trial.
CheckLicense(c) ==
  /\ \/ licensed /\ Step(c, "license", "allowed") /\ UNCHANGED faults
     \/ ~ licensed /\ Step(c, "license", "denied") /\ UNCHANGED faults
     \/ Fault /\ Step(c, "license", "failing")
  /\ UNCHANGED <<schedVars, memory, stored, saved, world>>

\* self._license_blocked = the answer
SetBlocked(c) ==
  /\ \/ Step(c, "allowed", "mark") /\ blocked' = FALSE
     \/ Step(c, "denied", "refused") /\ blocked' = TRUE
  /\ UNCHANGED <<schedVars, running, state, restored, stored, saved, faults, world>>

ShowExpired(c) == Show(c, "refused", "license_expired", "blocked")

GoesOn(c) == "mark"
Returns(c) == "idle"

\* The exception of this save is caught by the try around it.
SaveBlocked(c) ==
  /\ \/ Step(c, "blocked", Returns(c)) /\ Save("license_expired")
     \/ Step(c, "blocked", "failing") /\ SaveFails
  /\ UNCHANGED <<schedVars, memory, world>>

\* self._running = b
Mark(c, from, b, to) ==
  /\ Step(c, from, to)
  /\ running' = b
  /\ UNCHANGED <<schedVars, state, blocked, restored, stored, saved, faults, world>>

MarkRunning(c) == Mark(c, "mark", TRUE, "enter")

\* self.scheduler.start(): it returns at once when the scheduler is disabled.
EnterScheduler(c) ==
  /\ \/ Start(c) /\ Step(c, "enter", "starting")
     \/ ~ enabled /\ Step(c, "enter", "started") /\ UNCHANGED schedVars
  /\ UNCHANGED <<memory, stored, saved, faults, world>>

\* It returns, or raises to the handler of start().
SchedulerStarted(c) ==
  /\ \/ call[c] = "idle" /\ Step(c, "starting", "started")
     \/ call[c] = "raised" /\ Step(c, "starting", "failing")
  /\ UNCHANGED <<schedVars, memory, stored, saved, faults, world>>

ShowRunning(c) == Show(c, "started", "running", "ran")

SaveRunning(c) ==
  /\ \/ Step(c, "ran", "idle") /\ Save("running")
     \/ Step(c, "ran", "failing") /\ SaveFails
  /\ UNCHANGED <<schedVars, memory, world>>

\* except Exception: the scheduler is left as it is.
StartFails(c) == Mark(c, "failing", FALSE, "failed")
ShowFailed(c) == Show(c, "failed", "failed", "record")

\* save() refuses an exception without a text, or the write fails.
SaveFailed(c) ==
  /\ Step(c, "record", "idle")
  /\ Save("failed") \/ SaveFails
  /\ UNCHANGED <<schedVars, memory, world>>

(* stop() *)

\* if not self._running
RuntimeStop(c) ==
  \/ ~ running /\ Begins(c, "stopped")
  \/ running /\ Begins(c, "stop")

ShowStopping(c) == Show(c, "stop", "stopping", "stopping")

\* This save too is outside of the try: a failure leaves everything running.
SaveStopping(c) ==
  /\ \/ Step(c, "stopping", "halt") /\ Save("stopping")
     \/ Step(c, "stopping", "idle") /\ SaveFails
  /\ UNCHANGED <<schedVars, memory, world>>

Halt(c) == StopSet(c)

\* self.scheduler.stop()
EnterStop(c) ==
  /\ Step(c, "halt", "halting")
  /\ Halt(c)
  /\ UNCHANGED <<memory, stored, saved, faults, world>>

Unended(b) == b
Ended(b) == FALSE

\* finally: whether it returned or raised
SchedulerStopped(c) ==
  /\ call[c] \in {"idle", "raised"}
  /\ Mark(c, "halting", Ended(running), "stopped")

\* The end of both branches of stop()
ShowStopped(c) == Show(c, "stopped", "stopped", "finish")

LastState(s) == s

SaveStopped(c) ==
  /\ Step(c, "finish", "idle")
  /\ Save(LastState("stopped")) \/ SaveFails
  /\ UNCHANGED <<schedVars, memory, world>>

-----------------------------------------------------------------------------
(* The rest of the system *)

\* A trial ends, a subscription is activated or suspended.
LicenseChanges ==
  /\ licensed' = ~ licensed
  /\ UNCHANGED <<schedVars, memory, stored, rpc, saved, overlapped, faults, crashes>>

\* The process ends anywhere; the next one starts with the database only.
Crash ==
  /\ crashes < MaxCrashes
  /\ crashes' = crashes + 1
  /\ running' = FALSE /\ state' = "stopped" /\ blocked' = FALSE /\ restored' = FALSE
  /\ rpc' = [c \in Callers |-> "idle"]
  /\ saved' = FALSE /\ overlapped' = FALSE
  /\ enabled' \in BOOLEAN /\ event' = FALSE /\ ref' = NoThread
  /\ call' = [c \in Callers |-> "idle"]
  /\ loop' = [l \in Loops |-> "unused"]
  /\ cycle' = [w \in Workers |-> Outside]
  /\ registered' \in SUBSET Adapters
  /\ cycles' = 0 /\ events' = 0 /\ orphans' = {}
  /\ begun' = 0 /\ raises' = 0 /\ published' = 0 /\ lost' = 0
  /\ UNCHANGED <<stored, licensed, faults>>

\* Threads inside the scheduler and the registry go their own way.
Background ==
  /\ \/ \E l \in Loops : LoopStep(l)
     \/ \E c \in Callers : CallStep(c)
     \/ RegistryStep
  /\ UNCHANGED runtimeVars

StartingStep(c) ==
  \/ ShowBooting(c) \/ SaveBooting(c) \/ Restore(c) \/ Restored(c)
  \/ CheckLicense(c) \/ SetBlocked(c) \/ ShowExpired(c) \/ SaveBlocked(c)
  \/ MarkRunning(c) \/ EnterScheduler(c) \/ SchedulerStarted(c) \/ ShowRunning(c)
  \/ SaveRunning(c) \/ StartFails(c) \/ ShowFailed(c) \/ SaveFailed(c)
StoppingStep(c) ==
  \/ ShowStopping(c) \/ SaveStopping(c) \/ EnterStop(c) \/ SchedulerStopped(c)
  \/ ShowStopped(c) \/ SaveStopped(c)

Next ==
  \/ \E c \in Callers :
       \/ RuntimeStart(c) \/ RuntimeStop(c)
       \/ StartingStep(c) \/ StoppingStep(c)
  \/ Background \/ LicenseChanges \/ Crash

Spec == Init /\ [][Next]_vars

\* A start or stop under way goes on, inside the scheduler too, and so do the
\* loop threads; nobody has to start, stop, license or crash anything.
FairSpec ==
  /\ Spec
  /\ \A c \in Callers :
       /\ WF_vars(StartingStep(c)) /\ WF_vars(StoppingStep(c))
       /\ WF_vars(CallStep(c) /\ UNCHANGED runtimeVars)
  /\ \A l \in Loops : WF_vars(LoopStep(l) /\ UNCHANGED runtimeVars)

-----------------------------------------------------------------------------
(* recovery_metadata() of the next process *)

OnlyFailed(s) == s = "failed"
Unclean(s) == s \in {"running", "failed"}
RecoveryRequired == Unclean(stored)

-----------------------------------------------------------------------------
(* Properties *)

\* Types of the runtime's state.
RuntimeTypeOK ==
  /\ SchedTypeOK
  /\ running \in BOOLEAN /\ blocked \in BOOLEAN /\ restored \in BOOLEAN
  /\ licensed \in BOOLEAN /\ saved \in BOOLEAN /\ overlapped \in BOOLEAN
  /\ state \in States
  /\ stored \in States \cup {"none"}
  /\ rpc \in [Callers -> RuntimePoints]
  /\ faults \in 0 .. MaxFaults /\ crashes \in 0 .. MaxCrashes

Rest == \A c \in Callers : rpc[c] = "idle"

\* With one caller, a running runtime at rest is stored as running whatever
\* writes failed before, so that a crash of it is always reported to the next
\* start (runtime.py 145-195, runtime_state.py 118-136).
CrashIsReported == Rest /\ running => RecoveryRequired

\* With one caller and no failed write, what is stored agrees with the state
\* whenever no start or stop is under way (once this process has saved one).
StoredAgrees == Rest /\ saved /\ faults = 0 => stored = state

\* With one caller and no failed write, a runtime at rest that does not run
\* has no loop that begins another cycle.
StoppedCollectsNothing ==
  Rest /\ ~ running /\ faults = 0 => ref = NoThread /\ (event \/ Live = {})

\* With one caller and no failed write, a runtime blocked by its license has
\* no loop that begins another cycle, whatever was running before.
BlockedCollectsNothing == blocked /\ faults = 0 => event \/ Live = {}

\* With one caller: a crash is reported by what is stored, and without a failed write what is
\* stored agrees, and neither a stopped nor a blocked runtime collects.
RuntimeKept ==
  /\ RuntimeTypeOK /\ CrashIsReported /\ StoredAgrees
  /\ StoppedCollectsNothing /\ BlockedCollectsNothing

\* With any callers: when the last call that had something to do overlapped no
\* other, a runtime at rest that is marked running does not show the state of
\* one that has stopped or failed, and without a failed write the state it
\* shows is the one stored.  Calls that overlap may leave a running runtime
\* that shows "stopped"; whatever they leave, one call alone mends it.
RunningIsShown ==
  Rest /\ ~ overlapped =>
    /\ running => state \notin {"stopped", "failed"}
    /\ saved /\ faults = 0 => stored = state

\* The inductive invariant behind the four for one caller: where the caller is in start() or
\* stop() says where it can be inside the scheduler, what is marked running,
\* what is stored, and (without a fault) whether the scheduler has a thread.
Down == {"begin", "boot", "restore", "restoring", "license", "allowed", "mark", "denied",
         "refused", "blocked", "failed", "record", "stopped", "finish"}
Up == {"enter", "starting", "started", "ran", "stop", "stopping", "halt", "halting"}
Showing == [boot |-> "booting", blocked |-> "license_expired", ran |-> "running",
            record |-> "failed", stopping |-> "stopping", finish |-> "stopped"]

PointInv(c) ==
  /\ rpc[c] \notin {"starting", "halting"} => call[c] = "idle"
  /\ rpc[c] = "starting" => call[c] \in {"idle", "running", "clear", "create", "spawn"}
  /\ rpc[c] = "halting" => call[c] \in {"idle", "alive", "join", "forget"}
  /\ rpc[c] = "halting" /\ call[c] = "idle" => ref = NoThread
  /\ rpc[c] \in Down => ~ running
  /\ rpc[c] \in Up => running
  /\ rpc[c] \in {"idle", "stop", "stopping"} /\ running => stored = "running"
  /\ blocked => ~ running
  /\ rpc[c] = "mark" => ~ blocked
  /\ rpc[c] \in DOMAIN Showing => state = Showing[rpc[c]]
  /\ faults = 0 => rpc[c] \notin {"failing", "failed", "record"}
  /\ faults = 0 /\ rpc[c] \in {"idle", "stopped", "finish"} /\ ~ running => ref = NoThread
  /\ faults = 0 /\ rpc[c] \in Down \cup {"enter"} => ref = NoThread
  /\ faults = 0 /\ saved /\ rpc[c] = "idle" => stored = state

RuntimeInv ==
  /\ RuntimeTypeOK
  /\ SchedInv
  /\ \A c \in Callers : PointInv(c)

\* With one caller, the scheduler is started only on an answer of the license
\* check in the same start(): a loop starts while blocked is FALSE and the
\* runtime is marked running.
StartsLicensed ==
  [][\A l \in Loops : loop[l] = "made" /\ loop'[l] = "started" => running /\ ~ blocked]_vars

\* stop() gets through: once it has told the scheduler to stop, the runtime is
\* no longer running, whatever the loop thread is doing.
StopCompletes == \A c \in Callers : rpc[c] = "halt" ~> rpc[c] = "idle" /\ ~ running

(* What a test of the code says, which a run refutes. *)

\* tests/office/test_runtime_startup_recovery.py:24: "test_failed_start_does_
\* not_start_scheduler".
FailedStartHasNoLoop == Rest /\ state = "failed" => ref = NoThread

=============================================================================
