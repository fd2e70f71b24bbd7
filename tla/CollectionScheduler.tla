------------------------ MODULE CollectionScheduler ------------------------
(***************************************************************************)
(* The background collection of adapter events: the scheduler's lifecycle  *)
(* (yoma/office/adapters/scheduler.py), one collection cycle over the      *)
(* registered adapters with its retries (adapters/runtime.py, registry.py) *)
(* and the delivery of what was collected (operations/bus.py).             *)
(*                                                                         *)
(* Threads are the callers of the public methods and the loop threads      *)
(* start() creates.  A step is what happens between two points where       *)
(* another thread can be seen: one read or write of the stop event, of the *)
(* thread reference or of the registry, one adapter call, one section      *)
(* under the scheduler's lock.                                             *)
(***************************************************************************)
EXTENDS Integers, FiniteSets, FiniteSetsExt

CONSTANTS
  Callers,      \* threads that call the scheduler's methods
  Loops,        \* identities of the threads start() may create (bound)
  Adapters,     \* names of adapters
  MaxRetries,   \* AdapterRuntimeManager.max_retries
  MaxCycles,    \* bound: collection cycles begun
  MaxBatch,     \* bound: events of one answer of an adapter
  NoThread,     \* the reference's None
  NoAdapter     \* no adapter is being collected

ASSUME SchedulerAssumption ==
  /\ Callers \cap Loops = {}
  /\ NoThread \notin Loops
  /\ NoAdapter \notin Adapters
  /\ MaxRetries \in Nat
  /\ MaxCycles \in Nat /\ MaxBatch \in Nat
  /\ IsFiniteSet(Callers) /\ IsFiniteSet(Loops) /\ IsFiniteSet(Adapters)

VARIABLES
  enabled,      \* the enabled flag
  event,        \* the stop event is set
  ref,          \* self._thread
  call,         \* where each caller is in the method it called
  loop,         \* life of each loop thread
  cycle,        \* where each thread is in a collection cycle
  registered,   \* adapters in the registry
  cycles,       \* self._cycle_count
  events,       \* self._events_collected
  begun,        \* history: cycles begun
  raises,       \* history: deliveries a handler interrupted
  published,    \* history: events every handler received
  lost,         \* history: events an interrupted delivery kept back
  orphans       \* history: loops whose join timed out

lifeVars == <<enabled, event, ref, call, loop, orphans>>
cycleVars == <<cycle, cycles, events, begun, raises, published, lost>>
schedVars == <<lifeVars, cycleVars, registered>>

Workers == Callers \cup Loops

CallPoints == {"idle", "running", "clear", "create", "spawn",
               "set", "alive", "join", "forget", "raised"}
LoopLife == {"unused", "made", "started", "dead"}
CyclePoints == {"out", "collect", "missing", "deliver", "raised"}

Outside == [at |-> "out", left |-> {}, cur |-> NoAdapter, tries |-> 0, got |-> 0]

SchedInit ==
  /\ enabled \in BOOLEAN
  /\ event = FALSE
  /\ ref = NoThread
  /\ call = [c \in Callers |-> "idle"]
  /\ loop = [l \in Loops |-> "unused"]
  /\ cycle = [w \in Workers |-> Outside]
  /\ registered \in SUBSET Adapters
  /\ cycles = 0 /\ events = 0
  /\ begun = 0 /\ raises = 0 /\ published = 0 /\ lost = 0
  /\ orphans = {}

Live == {l \in Loops : loop[l] = "started"}
Alive(t) == t \in Live
\* c is in none of the methods: its last call returned, or raised.
Quiet(c) == call[c] \in {"idle", "raised"} /\ cycle[c].at = "out"
Goto(c, p) == call' = [call EXCEPT ![c] = p]

-----------------------------------------------------------------------------
(* start() *)

\* if not self.enabled: return
Start(c) ==
  /\ Quiet(c) /\ enabled
  /\ Goto(c, "running")
  /\ UNCHANGED <<enabled, event, ref, loop, orphans, cycleVars, registered>>

AfterRunningAlways(t) == "clear"
AfterRunning(t) == IF Alive(t) THEN "idle" ELSE "clear"

\* if self.running: return
StartRunning(c) ==
  /\ call[c] = "running"
  /\ Goto(c, AfterRunning(ref))
  /\ UNCHANGED <<enabled, event, ref, loop, orphans, cycleVars, registered>>

\* self._stop_event.clear()
StartClear(c) ==
  /\ call[c] = "clear"
  /\ event' = FALSE
  /\ Goto(c, "create")
  /\ UNCHANGED <<enabled, ref, loop, orphans, cycleVars, registered>>

\* self._thread = threading.Thread(...)
StartCreate(c) ==
  /\ call[c] = "create"
  /\ \E l \in Loops :
       /\ loop[l] = "unused"
       /\ loop' = [loop EXCEPT ![l] = "made"]
       /\ ref' = l
  /\ Goto(c, "spawn")
  /\ UNCHANGED <<enabled, event, orphans, cycleVars, registered>>

\* self._thread.start(), which raises when another caller has forgotten the
\* thread or has started it already.
StartSpawn(c) ==
  /\ call[c] = "spawn"
  /\ \/ /\ ref # NoThread /\ loop[ref] = "made"
        /\ loop' = [loop EXCEPT ![ref] = "started"]
        /\ Goto(c, "idle")
     \/ /\ ~ (ref # NoThread /\ loop[ref] = "made")
        /\ Goto(c, "raised")
        /\ UNCHANGED loop
  /\ UNCHANGED <<enabled, event, ref, orphans, cycleVars, registered>>

(* stop() and set_enabled() *)

Unsignalled(c) == event
Signalled(c) == TRUE

\* self._stop_event.set()
StopSet(c) ==
  /\ Quiet(c) \/ call[c] = "set"
  /\ event' = Signalled(c)
  /\ Goto(c, "alive")
  /\ UNCHANGED <<enabled, ref, loop, orphans, cycleVars, registered>>

\* if self._thread and self._thread.is_alive()
StopAlive(c) ==
  /\ call[c] = "alive"
  /\ Goto(c, IF Alive(ref) THEN "join" ELSE "forget")
  /\ UNCHANGED <<enabled, event, ref, loop, orphans, cycleVars, registered>>

\* self._thread.join(timeout): the thread ended, or the time is over, or
\* another stop() has set the reference to None and the call raises.
StopJoin(c) ==
  /\ call[c] = "join"
  /\ \/ /\ ref = NoThread
        /\ Goto(c, "raised")
        /\ UNCHANGED orphans
     \/ /\ ref # NoThread /\ ~ Alive(ref)
        /\ Goto(c, "forget")
        /\ UNCHANGED orphans
     \/ /\ Alive(ref)
        /\ orphans' = orphans \cup {ref}
        /\ Goto(c, "forget")
  /\ UNCHANGED <<enabled, event, ref, loop, cycleVars, registered>>

KeepReference(c) == ref
Forgotten(c) == NoThread

\* self._thread = None
StopForget(c) ==
  /\ call[c] = "forget"
  /\ ref' = Forgotten(c)
  /\ Goto(c, "idle")
  /\ UNCHANGED <<enabled, event, loop, orphans, cycleVars, registered>>

AfterSetEnabled(b) == IF b THEN "idle" ELSE "set"

\* set_enabled(): disabling goes on to stop().
SetEnabled(c, b) ==
  /\ Quiet(c)
  /\ enabled' = b
  /\ Goto(c, AfterSetEnabled(b))
  /\ UNCHANGED <<event, ref, loop, orphans, cycleVars, registered>>

-----------------------------------------------------------------------------
(* One collection cycle, by a loop thread or by a caller of run_once() *)

\* collect_all() takes the list of the adapters registered now.
Begin(w) ==
  /\ begun < MaxCycles
  /\ cycle[w].at = "out"
  /\ cycle' = [cycle EXCEPT ![w].at = "collect", ![w].left = registered]
  /\ begun' = begun + 1
  /\ UNCHANGED <<lifeVars, cycles, events, raises, published, lost, registered>>

RunOnce(c) == Quiet(c) /\ Begin(c)

IsDisabled(l) == ~ enabled
SeesStop(l) == event

\* while not self._stop_event.wait(self.interval): a cycle
LoopCycle(l) == loop[l] = "started" /\ ~ SeesStop(l) /\ Begin(l)

\* The loop sees the stop event and its thread ends.
LoopEnd(l) ==
  /\ loop[l] = "started" /\ cycle[l].at = "out" /\ SeesStop(l)
  /\ loop' = [loop EXCEPT ![l] = "dead"]
  /\ UNCHANGED <<enabled, event, ref, call, orphans, cycleVars, registered>>

Collecting(w) == cycle[w].at = "collect"

\* registry.require(name) for the next name of the list; a name unregistered
\* since then raises and the cycle is lost.
Require(w) ==
  /\ Collecting(w) /\ cycle[w].cur = NoAdapter
  /\ \E a \in cycle[w].left :
       cycle' = [cycle EXCEPT ![w] = IF a \in registered
                                     THEN [@ EXCEPT !.cur = a, !.tries = 0]
                                     ELSE [Outside EXCEPT !.at = "missing"]]
  /\ UNCHANGED <<lifeVars, cycles, events, begun, raises, published, lost, registered>>

Done(w, k) ==
  cycle' = [cycle EXCEPT ![w] =
    [at |-> "collect", left |-> cycle[w].left \ {cycle[w].cur}, cur |-> NoAdapter,
     tries |-> 0, got |-> cycle[w].got + k]]

MayRetry(n) == n < MaxRetries

\* One attempt of collect(): the adapter answers with events or without, or
\* fails and is tried again after a reconnection, or fails for the last time.
Attempt(w) ==
  /\ Collecting(w) /\ cycle[w].cur # NoAdapter
  /\ \/ \E k \in 0 .. MaxBatch : Done(w, k)
     \/ /\ MayRetry(cycle[w].tries)
        /\ cycle' = [cycle EXCEPT ![w].tries = @ + 1]
     \/ /\ ~ MayRetry(cycle[w].tries)
        /\ Done(w, 0)
  /\ UNCHANGED <<lifeVars, cycles, events, begun, raises, published, lost, registered>>

CountedLate(w) == events
Counted(w) == events + cycle[w].got

\* The counters are written under the lock.
Count(w) ==
  /\ Collecting(w) /\ cycle[w].cur = NoAdapter /\ cycle[w].left = {}
  /\ cycles' = cycles + 1
  /\ events' = Counted(w)
  /\ cycle' = [cycle EXCEPT ![w] = IF cycle[w].got > 0 THEN [@ EXCEPT !.at = "deliver"]
                                                       ELSE Outside]
  /\ UNCHANGED <<lifeVars, begun, raises, published, lost, registered>>

\* on_events(): every event to every handler; a handler that raises keeps
\* the remaining events of the cycle from everyone.
Deliver(w) ==
  /\ cycle[w].at = "deliver"
  /\ \/ /\ published' = published + cycle[w].got
        /\ cycle' = [cycle EXCEPT ![w] = Outside]
        /\ UNCHANGED <<raises, lost>>
     \/ /\ \E k \in 0 .. cycle[w].got - 1 :
             /\ published' = published + k
             /\ lost' = lost + cycle[w].got - k
        /\ raises' = raises + 1
        /\ cycle' = [cycle EXCEPT ![w] = [Outside EXCEPT !.at = "raised"]]
  /\ UNCHANGED <<lifeVars, cycles, events, begun, registered>>

CountedFailure(n) == n + 1
EndsThread(w) == [Outside EXCEPT !.at = "ended"]
AfterExcept(w) == Outside

\* except Exception: the counters once more, and the error's name
Except(w) ==
  /\ cycle[w].at \in {"missing", "raised"}
  /\ cycles' = CountedFailure(cycles)
  /\ cycle' = [cycle EXCEPT ![w] = AfterExcept(w)]
  /\ UNCHANGED <<lifeVars, events, begun, raises, published, lost, registered>>

CycleStep(w) == Require(w) \/ Attempt(w) \/ Count(w) \/ Deliver(w) \/ Except(w)

\* registry.register() and unregister(), by any other thread at any time
Register(a) ==
  /\ a \notin registered
  /\ registered' = registered \cup {a}
  /\ UNCHANGED <<lifeVars, cycleVars>>

Unregister(a) ==
  /\ a \in registered
  /\ registered' = registered \ {a}
  /\ UNCHANGED <<lifeVars, cycleVars>>

-----------------------------------------------------------------------------

LoopStep(l) == LoopCycle(l) \/ LoopEnd(l) \/ CycleStep(l)

\* A call under way goes on.
StartStep(c) == StartRunning(c) \/ StartClear(c) \/ StartCreate(c) \/ StartSpawn(c)
StopStep(c) == (call[c] = "set" /\ StopSet(c)) \/ StopAlive(c) \/ StopJoin(c) \/ StopForget(c)
CallStep(c) == StartStep(c) \/ StopStep(c) \/ CycleStep(c)

RegistryStep == \E a \in Adapters : Register(a) \/ Unregister(a)

SchedNext ==
  \/ \E c \in Callers :
       \/ Start(c) \/ StopSet(c) \/ RunOnce(c)
       \/ \E b \in BOOLEAN : SetEnabled(c, b)
       \/ CallStep(c)
  \/ \E l \in Loops : LoopStep(l)
  \/ RegistryStep

SchedSpec == SchedInit /\ [][SchedNext]_schedVars

\* Threads are scheduled, adapters and handlers return: a loop or a call that
\* can go on does.  Nobody has to call anything.
SchedFairSpec ==
  /\ SchedSpec
  /\ \A l \in Loops : WF_schedVars(LoopStep(l))
  /\ \A c \in Callers : WF_schedVars(CallStep(c))

-----------------------------------------------------------------------------
(* Properties *)

CycleState ==
  [at : CyclePoints, left : SUBSET Adapters, cur : Adapters \cup {NoAdapter},
   tries : 0 .. MaxRetries, got : Nat]

\* Types; an attempt under way is of an adapter still to do, and a thread
\* outside a cycle keeps nothing of the last one.
SchedTypeOK ==
  /\ enabled \in BOOLEAN /\ event \in BOOLEAN
  /\ ref \in Loops \cup {NoThread}
  /\ call \in [Callers -> CallPoints]
  /\ loop \in [Loops -> LoopLife]
  /\ cycle \in [Workers -> CycleState]
  /\ registered \subseteq Adapters
  /\ cycles \in Nat /\ events \in Nat
  /\ begun \in Nat /\ raises \in Nat /\ published \in Nat /\ lost \in Nat
  /\ orphans \subseteq Loops

\* With one caller, every loop thread that lives is the one the scheduler
\* refers to or one whose join in stop() timed out: start() never loses a
\* running loop (scheduler.py 171-193).
LoopsAccounted == Live \subseteq {ref} \cup orphans

\* With one caller, once stop() has returned and until the next start(), no
\* loop begins a cycle: loops that outlived the join still see the stop event.
StoppedStaysQuiet ==
  \A c \in Callers : call[c] = "idle" /\ ref = NoThread => event \/ Live = {}

\* With one caller, set_enabled(False) has let go of the loop when it returns,
\* and no start() creates another before set_enabled(True).
DisabledHasNoLoop ==
  \A c \in Callers : call[c] = "idle" /\ ~ enabled => ref = NoThread

\* The inductive invariant behind the three: where the caller is says which
\* loops can live, whether the stop event is set and whose the reference is.
SchedInv ==
  /\ SchedTypeOK
  /\ LoopsAccounted
  /\ \A c \in Callers :
       /\ call[c] # "raised"
       /\ call[c] \in {"clear", "create", "forget"} => Live \subseteq orphans
       /\ call[c] \in {"alive", "join", "forget"} => event
       /\ call[c] = "join" => ref # NoThread
       /\ call[c] = "spawn" => ref # NoThread /\ loop[ref] = "made"
       /\ call[c] \in {"running", "clear", "create", "spawn"} => enabled
       /\ call[c] \in {"idle", "running", "clear", "set"} /\ ref = NoThread
            => event \/ Live = {}
       /\ call[c] = "idle" /\ ~ enabled => ref = NoThread

\* The schedule of calls is sequential.
OneCaller == \A c, d \in Callers : c = d

At(P) == Cardinality({w \in Workers : cycle[w].at \in P})

\* cycle_count is exact under any interleaving of loops and run_once():
\* every cycle is counted once when its results are in or its collection
\* raised, and once more when its delivery raised (scheduler.py 137-165).
CyclesExact ==
  cycles + At({"collect", "missing"}) + At({"raised"}) = begun + raises

\* With one caller: types, every living loop accounted for, none while disabled, and exact
\* counts of cycles.
SchedulerKept == SchedTypeOK /\ LoopsAccounted /\ DisabledHasNoLoop /\ CyclesExact

\* events_collected counts exactly the events handed to the bus: published,
\* kept back by a raising handler, or about to be delivered.
EventsExact ==
  events = published + lost +
    MapThenSumSet(LAMBDA w : cycle[w].got, {w \in Workers : cycle[w].at = "deliver"})

\* If the stop event stays set, every loop thread ends, whatever adapters and
\* handlers raised on the way.
StopEndsLoops == <>[] event => <>[] (Live = {})

\* A loop that is not told to stop keeps collecting: no failing adapter,
\* vanished adapter or raising handler ends it (up to the bound on cycles).
SurvivesFailures == (Live # {} /\ ~ event) ~> (event \/ begun = MaxCycles)

=============================================================================
