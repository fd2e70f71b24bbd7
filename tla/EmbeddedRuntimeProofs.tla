------------------------- MODULE EmbeddedRuntimeProofs -------------------------
(***************************************************************************)
(* Theorems about CollectionScheduler and the runtime that embeds it.      *)
(* First the scheduler, for any number of loop threads, adapters, retries  *)
(* and cycles: the types and the counts of cycles and events for any       *)
(* number of callers, and the safety of the lifecycle for one caller.      *)
(* Then EmbeddedRuntime for one caller of start() and stop() and any       *)
(* number of failed writes and crashes: its steps are steps of the         *)
(* scheduler or leave the scheduler alone, but for a crash, which brings   *)
(* the scheduler's initial state back, so that the lifecycle invariant of  *)
(* the scheduler holds here too.  The last theorem holds for any number of *)
(* callers.                                                                *)
(***************************************************************************)
EXTENDS EmbeddedRuntime, FiniteSetTheorems, NaturalsInduction, WellFoundedInduction,
        TLAPS

-----------------------------------------------------------------------------
\* The adapter at hand is done with k events.
LEMMA DoneState ==
  ASSUME NEW s \in CycleState, NEW k \in 0 .. MaxBatch
  PROVE  [at |-> "collect", left |-> s.left \ {s.cur}, cur |-> NoAdapter, tries |-> 0,
          got |-> s.got + k] \in CycleState
<1>1. k \in Nat /\ 0 \in 0 .. MaxRetries /\ "collect" \in CyclePoints
    BY SchedulerAssumption DEF CyclePoints
<1>2. s.left \subseteq Adapters /\ s.got + k \in Nat
    BY <1>1 DEF CycleState
<1>3. QED
    BY <1>1, <1>2 DEF CycleState

\* A thread outside a cycle, and one whose adapter has vanished.
LEMMA OutsideState ==
  Outside \in CycleState /\ \A p \in CyclePoints : [Outside EXCEPT !.at = p] \in CycleState
BY SchedulerAssumption DEF Outside, CycleState, CyclePoints

\* One thread's cycle moves on.
LEMMA Moved ==
  ASSUME cycle \in [Workers -> CycleState], NEW w \in Workers, NEW s \in CycleState
  PROVE  [cycle EXCEPT ![w] = s] \in [Workers -> CycleState]
OBVIOUS

\* Every step of every thread keeps the types.
LEMMA TypeStep == SchedTypeOK /\ [SchedNext]_schedVars => SchedTypeOK'
<1> USE DEF SchedTypeOK, CallPoints, LoopLife, CyclePoints, CycleState, Outside, Workers,
            lifeVars, cycleVars, Goto, Signalled, AfterRunning, Forgotten
<1> SUFFICES ASSUME SchedTypeOK, [SchedNext]_schedVars PROVE SchedTypeOK'
    OBVIOUS
<1>1. ASSUME NEW c \in Callers, Start(c) PROVE SchedTypeOK'
    BY <1>1, SchedulerAssumption DEF Start
<1>2. ASSUME NEW c \in Callers, StopSet(c) PROVE SchedTypeOK'
    BY <1>2, SchedulerAssumption DEF StopSet
<1>3. ASSUME NEW c \in Callers, StartRunning(c) PROVE SchedTypeOK'
    BY <1>3, SchedulerAssumption DEF StartRunning
<1>4. ASSUME NEW c \in Callers, StartClear(c) PROVE SchedTypeOK'
    BY <1>4, SchedulerAssumption DEF StartClear
<1>5. ASSUME NEW c \in Callers, StartCreate(c) PROVE SchedTypeOK'
    BY <1>5, SchedulerAssumption DEF StartCreate
<1>6. ASSUME NEW c \in Callers, StartSpawn(c) PROVE SchedTypeOK'
    BY <1>6, SchedulerAssumption DEF StartSpawn
<1>7. ASSUME NEW c \in Callers, StopAlive(c) PROVE SchedTypeOK'
    BY <1>7, SchedulerAssumption DEF StopAlive
<1>8. ASSUME NEW c \in Callers, StopJoin(c) PROVE SchedTypeOK'
    BY <1>8, SchedulerAssumption DEF StopJoin, Alive, Live
<1>9. ASSUME NEW c \in Callers, StopForget(c) PROVE SchedTypeOK'
    BY <1>9, SchedulerAssumption DEF StopForget
<1>10. ASSUME NEW c \in Callers, NEW b \in BOOLEAN, SetEnabled(c, b) PROVE SchedTypeOK'
    BY <1>10, SchedulerAssumption DEF SetEnabled, AfterSetEnabled
<1>11. ASSUME NEW w \in Workers, Begin(w) PROVE SchedTypeOK'
    BY <1>11, SchedulerAssumption DEF Begin
<1>12. ASSUME NEW w \in Workers, Require(w) PROVE SchedTypeOK'
  <2>1. cycle' \in [Workers -> CycleState]
    <3>1. cycle \in [Workers -> CycleState] /\ [Outside EXCEPT !.at = "missing"] \in CycleState
        BY OutsideState
    <3>2. ASSUME NEW a \in cycle[w].left
          PROVE  [cycle[w] EXCEPT !.cur = a, !.tries = 0] \in CycleState
        BY <3>1, SchedulerAssumption
    <3>3. PICK a \in cycle[w].left :
            cycle' = [cycle EXCEPT ![w] = IF a \in registered
                                          THEN [@ EXCEPT !.cur = a, !.tries = 0]
                                          ELSE [Outside EXCEPT !.at = "missing"]]
        BY <1>12 DEF Require
    <3>4. PICK s \in CycleState : cycle' = [cycle EXCEPT ![w] = s]
        BY <3>1, <3>2, <3>3, Zenon
    <3>5. QED
        BY <3>1, <3>4, Zenon, Moved
  <2>2. QED
      BY <1>12, <2>1 DEF Require
<1>13. ASSUME NEW w \in Workers, Attempt(w) PROVE SchedTypeOK'
  <2>1. cycle' \in [Workers -> CycleState]
    <3>1. /\ cycle[w] \in CycleState /\ cycle \in [Workers -> CycleState]
          /\ MaxRetries \in Nat /\ MaxBatch \in Nat
        BY SchedulerAssumption
    <3>2. ASSUME NEW k \in 0 .. MaxBatch, Done(w, k) PROVE cycle' \in [Workers -> CycleState]
      <4>1. [at |-> "collect", left |-> cycle[w].left \ {cycle[w].cur}, cur |-> NoAdapter,
             tries |-> 0, got |-> cycle[w].got + k] \in CycleState
          BY <3>1, DoneState
      <4>2. QED
          BY <3>1, <3>2, <4>1 DEF Done
    <3>3. ASSUME MayRetry(cycle[w].tries), cycle' = [cycle EXCEPT ![w].tries = @ + 1]
          PROVE  cycle' \in [Workers -> CycleState]
        BY <3>1, <3>3 DEF MayRetry
    <3>4. QED
        BY <1>13, <3>1, <3>2, <3>3 DEF Attempt
  <2>2. QED
      BY <1>13, <2>1 DEF Attempt
<1>14. ASSUME NEW w \in Workers, Count(w) PROVE SchedTypeOK'
  <2>1. cycle' \in [Workers -> CycleState]
    <3>1. cycle \in [Workers -> CycleState] /\ Outside \in CycleState
        BY OutsideState
    <3>2. [cycle[w] EXCEPT !.at = "deliver"] \in CycleState
        BY <3>1
    <3>3. QED
        BY <1>14, <3>1, <3>2, Zenon, Moved DEF Count
  <2>2. cycles' \in Nat /\ events' \in Nat
      BY <1>14 DEF Count, Counted
  <2>3. QED
      BY <1>14, <2>1, <2>2 DEF Count
<1>15. ASSUME NEW w \in Workers, Deliver(w) PROVE SchedTypeOK'
  <2>1. cycle' \in [Workers -> CycleState]
    <3>1. PICK s \in CycleState : cycle' = [cycle EXCEPT ![w] = s]
        BY <1>15, OutsideState, Zenon DEF Deliver
    <3>2. QED
        BY <3>1, Zenon, Moved
  <2>2. published' \in Nat /\ lost' \in Nat /\ raises' \in Nat
      BY <1>15 DEF Deliver
  <2>3. QED
      BY <1>15, <2>1, <2>2 DEF Deliver
<1>16. ASSUME NEW w \in Workers, Except(w) PROVE SchedTypeOK'
  <2>1. cycle' \in [Workers -> CycleState]
      BY <1>16, OutsideState DEF Except, AfterExcept
  <2>2. QED
      BY <1>16, <2>1 DEF Except, CountedFailure
<1>17. ASSUME NEW l \in Loops, LoopEnd(l) PROVE SchedTypeOK'
    BY <1>17, SchedulerAssumption DEF LoopEnd
<1>18. ASSUME NEW a \in Adapters, Register(a) \/ Unregister(a) PROVE SchedTypeOK'
    BY <1>18, SchedulerAssumption DEF Register, Unregister
<1>19. CASE UNCHANGED schedVars
    BY <1>19 DEF schedVars
<1>20. QED
    BY <1>1, <1>2, <1>3, <1>4, <1>5, <1>6, <1>7, <1>8, <1>9, <1>10, <1>11, <1>12,
       <1>13, <1>14, <1>15, <1>16, <1>17, <1>18, <1>19 DEF SchedNext, CallStep,
       StartStep, StopStep, LoopStep, CycleStep, LoopCycle, RunOnce, RegistryStep,
       Workers

\* The initial state has the types.
LEMMA TypeInit == SchedInit => SchedTypeOK
<1> SUFFICES ASSUME SchedInit PROVE SchedTypeOK
    OBVIOUS
<1>1. Outside \in CycleState
    BY SchedulerAssumption DEF Outside, CycleState, CyclePoints
<1>2. cycle \in [Workers -> CycleState]
    BY <1>1 DEF SchedInit
<1>3. QED
    BY <1>2 DEF SchedInit, SchedTypeOK, CallPoints, LoopLife

\* Any number of callers, any interleaving: the types hold, so an attempt is
\* never beyond MaxRetries and a counter never negative.
THEOREM SchedulerTyped == SchedSpec => []SchedTypeOK
<1>1. SchedInit => SchedTypeOK
    BY TypeInit
<1>2. SchedTypeOK /\ [SchedNext]_schedVars => SchedTypeOK'
    BY TypeStep
<1>3. QED
    BY <1>1, <1>2, PTL DEF SchedSpec

-----------------------------------------------------------------------------
\* With one caller, every step keeps the lifecycle invariant.
LEMMA InvStep == OneCaller /\ SchedInv /\ [SchedNext]_schedVars => SchedInv'
<1> USE DEF SchedInv, LoopsAccounted, Live, Alive, OneCaller, lifeVars, cycleVars, Goto, Signalled,
            AfterRunning, Forgotten, Quiet, SchedTypeOK, CallPoints, LoopLife
<1> SUFFICES ASSUME OneCaller, SchedInv, [SchedNext]_schedVars PROVE SchedInv'
    OBVIOUS
<1>1. ASSUME NEW c \in Callers, Start(c) PROVE SchedInv'
    BY <1>1, TypeStep, SchedulerAssumption DEF Start
<1>2. ASSUME NEW c \in Callers, StopSet(c) PROVE SchedInv'
    BY <1>2, TypeStep, SchedulerAssumption DEF StopSet
<1>3. ASSUME NEW c \in Callers, StartRunning(c) PROVE SchedInv'
    BY <1>3, TypeStep, SchedulerAssumption DEF StartRunning
<1>4. ASSUME NEW c \in Callers, StartClear(c) PROVE SchedInv'
    BY <1>4, TypeStep, SchedulerAssumption DEF StartClear
<1>5. ASSUME NEW c \in Callers, StartCreate(c) PROVE SchedInv'
    BY <1>5, TypeStep, SchedulerAssumption DEF StartCreate
<1>6. ASSUME NEW c \in Callers, StartSpawn(c) PROVE SchedInv'
    BY <1>6, TypeStep, SchedulerAssumption DEF StartSpawn
<1>7. ASSUME NEW c \in Callers, StopAlive(c) PROVE SchedInv'
    BY <1>7, TypeStep, SchedulerAssumption DEF StopAlive
<1>8. ASSUME NEW c \in Callers, StopJoin(c) PROVE SchedInv'
    BY <1>8, TypeStep, SchedulerAssumption DEF StopJoin
<1>9. ASSUME NEW c \in Callers, StopForget(c) PROVE SchedInv'
    BY <1>9, TypeStep, SchedulerAssumption DEF StopForget
<1>10. ASSUME NEW c \in Callers, NEW b \in BOOLEAN, SetEnabled(c, b) PROVE SchedInv'
    BY <1>10, TypeStep, SchedulerAssumption DEF SetEnabled, AfterSetEnabled
<1>11. ASSUME NEW w \in Workers, Begin(w) PROVE SchedInv'
    BY <1>11, TypeStep, SchedulerAssumption DEF Begin
<1>12. ASSUME NEW w \in Workers, Require(w) PROVE SchedInv'
    BY <1>12, TypeStep, SchedulerAssumption DEF Require
<1>13. ASSUME NEW w \in Workers, Attempt(w) PROVE SchedInv'
    BY <1>13, TypeStep, SchedulerAssumption DEF Attempt
<1>14. ASSUME NEW w \in Workers, Count(w) PROVE SchedInv'
    BY <1>14, TypeStep, SchedulerAssumption DEF Count
<1>15. ASSUME NEW w \in Workers, Deliver(w) PROVE SchedInv'
    BY <1>15, TypeStep, SchedulerAssumption DEF Deliver
<1>16. ASSUME NEW w \in Workers, Except(w) PROVE SchedInv'
    BY <1>16, TypeStep, SchedulerAssumption DEF Except
<1>17. ASSUME NEW l \in Loops, LoopEnd(l) PROVE SchedInv'
    BY <1>17, TypeStep, SchedulerAssumption DEF LoopEnd
<1>18. ASSUME NEW a \in Adapters, Register(a) \/ Unregister(a) PROVE SchedInv'
    BY <1>18, TypeStep, SchedulerAssumption DEF Register, Unregister
<1>19. CASE UNCHANGED schedVars
    BY <1>19 DEF schedVars
<1>20. QED
    BY <1>1, <1>2, <1>3, <1>4, <1>5, <1>6, <1>7, <1>8, <1>9, <1>10, <1>11, <1>12,
       <1>13, <1>14, <1>15, <1>16, <1>17, <1>18, <1>19 DEF SchedNext, CallStep,
       StartStep, StopStep, LoopStep, CycleStep, LoopCycle, RunOnce, RegistryStep,
       Workers

\* With one caller, the lifecycle invariant always holds.
LEMMA Lifecycle == SchedSpec => [](OneCaller => SchedInv)
<1>1. SchedInit => (OneCaller => SchedInv)
    BY TypeInit DEF SchedInit, SchedInv, LoopsAccounted, Live
<1>2. (OneCaller => SchedInv) /\ [SchedNext]_schedVars => (OneCaller => SchedInv)'
    BY InvStep DEF OneCaller
<1>3. QED
    BY <1>1, <1>2, PTL DEF SchedSpec

\* One caller, any number of restarts and timed-out joins: a living loop is
\* the referenced one or one whose join timed out.
THEOREM LoopsKept == SchedSpec => [](OneCaller => LoopsAccounted)
<1>1. (OneCaller => SchedInv) => (OneCaller => LoopsAccounted)
    BY DEF SchedInv
<1>2. QED
    BY <1>1, Lifecycle, PTL

\* One caller: after stop() and until start(), no loop can begin a cycle.
THEOREM StoppedQuiet == SchedSpec => [](OneCaller => StoppedStaysQuiet)
<1>1. (OneCaller => SchedInv) => (OneCaller => StoppedStaysQuiet)
    BY DEF SchedInv, StoppedStaysQuiet
<1>2. QED
    BY <1>1, Lifecycle, PTL

\* One caller: a disabled scheduler at rest refers to no loop.
THEOREM DisabledEmpty == SchedSpec => [](OneCaller => DisabledHasNoLoop)
<1>1. (OneCaller => SchedInv) => (OneCaller => DisabledHasNoLoop)
    BY DEF SchedInv, DisabledHasNoLoop
<1>2. QED
    BY <1>1, Lifecycle, PTL

-----------------------------------------------------------------------------
(* The count of cycles, for any number of callers.                         *)

In(P) == {w \in Workers : cycle[w].at \in P}

\* Threads are finitely many, so the sets that At counts are finite.
LEMMA InFinite == ASSUME NEW P PROVE IsFiniteSet(In(P)) /\ At(P) \in Nat
<1>1. IsFiniteSet(Workers)
    BY SchedulerAssumption, FS_Union DEF Workers
<1>2. In(P) \subseteq Workers
    BY DEF In
<1>3. IsFiniteSet(In(P))
    BY <1>1, <1>2, FS_Subset
<1>4. QED
    BY <1>3, FS_CardinalityType DEF At, In

\* One more thread at P: At(P) grows by one.
LEMMA Enter ==
  ASSUME NEW P, NEW w \in Workers, w \notin In(P), In(P)' = In(P) \cup {w}
  PROVE  At(P)' = At(P) + 1
<1>1. Cardinality(In(P) \cup {w}) = Cardinality(In(P)) + 1
    BY InFinite, FS_AddElement
<1>2. At(P) = Cardinality(In(P)) /\ At(P)' = Cardinality(In(P)')
    BY DEF At, In
<1>3. QED
    BY <1>1, <1>2

\* One thread fewer at P: At(P) shrinks by one.
LEMMA Leave ==
  ASSUME NEW P, NEW w \in Workers, w \in In(P), In(P)' = In(P) \ {w}
  PROVE  At(P)' = At(P) - 1
<1>1. Cardinality(In(P) \ {w}) = Cardinality(In(P)) - 1
    BY InFinite, FS_RemoveElement
<1>2. At(P) = Cardinality(In(P)) /\ At(P)' = Cardinality(In(P)')
    BY DEF At, In
<1>3. QED
    BY <1>1, <1>2

\* The same threads at P: At(P) stays.
LEMMA Stay == ASSUME NEW P, In(P)' = In(P) PROVE At(P)' = At(P)
BY DEF At, In

Uncounted1 == {"collect", "missing"}
Uncounted2 == {"raised"}

\* A step leaves the cycles alone or takes one thread on in its own.
LEMMA CycleOnly ==
  [SchedNext]_schedVars =>
    \/ UNCHANGED cycleVars
    \/ \E w \in Workers : \/ Begin(w) \/ Require(w) \/ Attempt(w)
                          \/ Count(w) \/ Deliver(w) \/ Except(w)
BY DEF SchedNext, schedVars, CallStep, StartStep, StopStep, CycleStep, LoopStep, RunOnce,
       LoopCycle, LoopEnd, RegistryStep, Register, Unregister, Start, StopSet,
       SetEnabled, StartRunning, StartClear, StartCreate, StartSpawn, StopAlive,
       StopJoin, StopForget, Workers

\* Every step keeps the balance of cycles begun, counted and raised.
LEMMA CountStep == SchedTypeOK /\ CyclesExact /\ [SchedNext]_schedVars => CyclesExact'
<1> USE DEF Uncounted1, Uncounted2
<1> SUFFICES ASSUME SchedTypeOK, CyclesExact, [SchedNext]_schedVars PROVE CyclesExact'
    OBVIOUS
<1> DEFINE A == At(Uncounted1)
           B == At(Uncounted2)
<1>0. A \in Nat /\ B \in Nat /\ cycles \in Nat /\ begun \in Nat /\ raises \in Nat
    BY InFinite DEF SchedTypeOK
<1>a. cycles + A + B = begun + raises
    BY DEF CyclesExact
<1>b. SUFFICES cycles' + A' + B' = begun' + raises'
    BY DEF CyclesExact
<1>c. cycle \in [Workers -> CycleState]
    BY DEF SchedTypeOK
<1>1. ASSUME UNCHANGED cycleVars PROVE cycles' + A' + B' = begun' + raises'
  <2>1. In(Uncounted1)' = In(Uncounted1) /\ In(Uncounted2)' = In(Uncounted2)
      BY <1>1 DEF In, cycleVars
  <2>2. A' = A /\ B' = B
      BY <2>1, Stay
  <2>3. QED
      BY <1>1, <1>a, <2>2 DEF cycleVars
<1>2. ASSUME NEW w \in Workers, Begin(w) PROVE cycles' + A' + B' = begun' + raises'
  <2>1. /\ w \notin In(Uncounted1) /\ In(Uncounted1)' = In(Uncounted1) \cup {w}
        /\ In(Uncounted2)' = In(Uncounted2)
      BY <1>2, <1>c DEF In, Begin, CycleState
  <2>2. A' = A + 1 /\ B' = B
      BY <2>1, Enter, Stay
  <2>3. QED
      BY <1>2, <1>0, <1>a, <2>2 DEF Begin
<1>3. ASSUME NEW w \in Workers, Require(w) PROVE cycles' + A' + B' = begun' + raises'
  <2>1. In(Uncounted1)' = In(Uncounted1) /\ In(Uncounted2)' = In(Uncounted2)
      BY <1>3, <1>c DEF In, Require, Collecting, CycleState, Outside
  <2>2. A' = A /\ B' = B
      BY <2>1, Stay
  <2>3. QED
      BY <1>3, <1>a, <2>2 DEF Require
<1>4. ASSUME NEW w \in Workers, Attempt(w) PROVE cycles' + A' + B' = begun' + raises'
  <2>1. In(Uncounted1)' = In(Uncounted1) /\ In(Uncounted2)' = In(Uncounted2)
      BY <1>4, <1>c DEF In, Attempt, Done, Collecting, CycleState
  <2>2. A' = A /\ B' = B
      BY <2>1, Stay
  <2>3. QED
      BY <1>4, <1>a, <2>2 DEF Attempt
<1>5. ASSUME NEW w \in Workers, Count(w) PROVE cycles' + A' + B' = begun' + raises'
  <2>1. /\ w \in In(Uncounted1) /\ In(Uncounted1)' = In(Uncounted1) \ {w}
        /\ In(Uncounted2)' = In(Uncounted2)
      BY <1>5, <1>c DEF In, Count, Collecting, CycleState, Outside
  <2>2. A' = A - 1 /\ B' = B
      BY <2>1, Leave, Stay
  <2>3. QED
      BY <1>5, <1>0, <1>a, <2>2 DEF Count
<1>6. ASSUME NEW w \in Workers, Deliver(w) PROVE cycles' + A' + B' = begun' + raises'
  <2>0. In(Uncounted1)' = In(Uncounted1)
      BY <1>6, <1>c DEF In, Deliver, CycleState, Outside
  <2>1. CASE raises' = raises + 1
    <3>1. w \notin In(Uncounted2) /\ In(Uncounted2)' = In(Uncounted2) \cup {w}
        BY <1>0, <1>6, <1>c, <2>1 DEF In, Deliver, CycleState, Outside
    <3>2. A' = A /\ B' = B + 1
        BY <2>0, <3>1, Enter, Stay
    <3>3. QED
        BY <1>6, <1>0, <1>a, <2>1, <3>2 DEF Deliver
  <2>2. CASE raises' = raises
    <3>1. In(Uncounted2)' = In(Uncounted2)
        BY <1>0, <1>6, <1>c, <2>2 DEF In, Deliver, CycleState, Outside
    <3>2. A' = A /\ B' = B
        BY <2>0, <3>1, Stay
    <3>3. QED
        BY <1>6, <1>a, <2>2, <3>2 DEF Deliver
  <2>3. QED
      BY <1>6, <2>1, <2>2 DEF Deliver
<1>7. ASSUME NEW w \in Workers, Except(w) PROVE cycles' + A' + B' = begun' + raises'
  <2>1. CASE cycle[w].at = "missing"
    <3>1. /\ w \in In(Uncounted1) /\ In(Uncounted1)' = In(Uncounted1) \ {w}
          /\ In(Uncounted2)' = In(Uncounted2)
        BY <1>7, <1>c, <2>1 DEF In, Except, AfterExcept, CycleState, Outside
    <3>2. A' = A - 1 /\ B' = B
        BY <3>1, Leave, Stay
    <3>3. QED
        BY <1>7, <1>0, <1>a, <3>2 DEF Except, CountedFailure
  <2>2. CASE cycle[w].at = "raised"
    <3>1. /\ w \in In(Uncounted2) /\ In(Uncounted2)' = In(Uncounted2) \ {w}
          /\ In(Uncounted1)' = In(Uncounted1)
        BY <1>7, <1>c, <2>2 DEF In, Except, AfterExcept, CycleState, Outside
    <3>2. A' = A /\ B' = B - 1
        BY <3>1, Leave, Stay
    <3>3. QED
        BY <1>7, <1>0, <1>a, <3>2 DEF Except, CountedFailure
  <2>3. QED
      BY <1>7, <2>1, <2>2 DEF Except
<1>8. QED
  BY <1>1, <1>2, <1>3, <1>4, <1>5, <1>6, <1>7, CycleOnly

\* Whatever threads collect at the same time, the number of cycles the status
\* reports is the number begun, those not yet counted left out, and one more
\* for every delivery a handler interrupted.
THEOREM CycleCount == SchedSpec => []CyclesExact
<1>1. SchedInit => CyclesExact
  <2> SUFFICES ASSUME SchedInit PROVE CyclesExact
      OBVIOUS
  <2>1. In(Uncounted1) = {} /\ In(Uncounted2) = {}
      BY DEF In, SchedInit, Outside, Uncounted1, Uncounted2
  <2>2. At(Uncounted1) = 0 /\ At(Uncounted2) = 0
      BY <2>1, FS_EmptySet DEF At, In
  <2>3. QED
      BY <2>2 DEF CyclesExact, SchedInit, Uncounted1, Uncounted2
<1>2. SchedTypeOK /\ CyclesExact /\ [SchedNext]_schedVars => CyclesExact'
    BY CountStep
<1>3. QED
    BY <1>1, <1>2, SchedulerTyped, PTL DEF SchedSpec

-----------------------------------------------------------------------------
(* The count of events: sums over finite sets of threads.                    *)

\* The numbers, each below the greater ones.
Below == {ss \in Nat \X Nat : ss[1] < ss[2]}

\* A set of natural numbers that has 0 and the successor of each of its members has them all.
LEMMA Induction ==
  ASSUME NEW S \in SUBSET Nat, 0 \in S, \A n \in S : n + 1 \in S
  PROVE  S = Nat
<1> SUFFICES ASSUME Nat \ S # {} PROVE FALSE
  OBVIOUS
<1>1. IsWellFoundedOn(Below, Nat)
  BY NatLessThanWellFounded DEF OpToRel, Below
<1>2. \E x \in Nat \ S : \A y \in Nat \ S : ~ (<<y, x>> \in Below)
  BY <1>1, WFMin
<1>3. PICK x \in Nat \ S : \A y \in Nat \ S : ~ (y < x)
  BY <1>2 DEF Below
<1>4. x # 0 /\ x - 1 \in Nat /\ x - 1 < x
  BY <1>3
<1>5. QED
  BY <1>3, <1>4

\* A set that is not empty has the member CHOOSE takes, and one fewer without it.
Any(t) == CHOOSE w \in t : TRUE

LEMMA Without ==
  ASSUME NEW t, IsFiniteSet(t), NEW w \in t
  PROVE  /\ Any(t) \in t /\ IsFiniteSet(t \ {w}) /\ Cardinality(t) \in Nat
         /\ Cardinality(t \ {w}) = Cardinality(t) - 1 /\ Cardinality(t) # 0
<1>1. Any(t) \in t
  BY Zenon DEF Any
<1>2. IsFiniteSet(t \ {w}) /\ Cardinality(t \ {w}) = Cardinality(t) - 1
  BY FS_RemoveElement
<1>3. Cardinality(t) \in Nat /\ (Cardinality(t) = 0 <=> t = {})
  BY FS_CardinalityType, FS_EmptySet
<1>4. QED
  BY <1>1, <1>2, <1>3

\* The function MapThenSumSet is made of: over the subsets of S, what the threads in them got.
SumStep(g, f, t) == IF t = {} THEN 0 ELSE f[Any(t)].got + g[t \ {Any(t)}]
IsSum(g, f, S) == g = [t \in SUBSET S |-> SumStep(g, f, t)]

\* It exists for every finite set: by induction over the sizes of its subsets.
LEMMA SumExists == ASSUME NEW f, NEW S, IsFiniteSet(S) PROVE \E g : IsSum(g, f, S)
<1> DEFINE UpTo(g, n) == \A t \in SUBSET S : Cardinality(t) <= n => g[t] = SumStep(g, f, t)
           N == {n \in Nat : \E g : g = [t \in SUBSET S |-> g[t]] /\ UpTo(g, n)}
<1>1. \A t \in SUBSET S : IsFiniteSet(t) /\ Cardinality(t) \in Nat /\ (Cardinality(t) = 0 <=> t = {})
  BY FS_Subset, FS_CardinalityType, FS_EmptySet
<1>2. 0 \in N
  <2> DEFINE g == [t \in SUBSET S |-> 0]
  <2>1. g = [t \in SUBSET S |-> g[t]]
    OBVIOUS
  <2>2. UpTo(g, 0)
    <3> SUFFICES ASSUME NEW t \in SUBSET S, Cardinality(t) <= 0 PROVE g[t] = SumStep(g, f, t)
      OBVIOUS
    <3>1. t = {}
      BY <1>1
    <3>2. QED
      BY <3>1 DEF SumStep
  <2> HIDE DEF g
  <2>3. QED
    BY <2>1, <2>2
<1>3. ASSUME NEW n \in N PROVE n + 1 \in N
  <2>1. PICK g : g = [t \in SUBSET S |-> g[t]] /\ UpTo(g, n)
    OBVIOUS
  <2> DEFINE h == [t \in SUBSET S |-> IF Cardinality(t) = n + 1 THEN SumStep(g, f, t) ELSE g[t]]
  <2>2. \A t \in SUBSET S : Cardinality(t) <= n => h[t] = g[t]
    BY <1>1
  <2>3. ASSUME NEW t \in SUBSET S, Cardinality(t) <= n + 1 PROVE h[t] = SumStep(h, f, t)
    <3>1. SumStep(g, f, t) = SumStep(h, f, t)
      <4>1. CASE t = {}
        BY <4>1 DEF SumStep
      <4>2. CASE t # {}
        <5> DEFINE u == t \ {Any(t)}
        <5>1. u \in SUBSET S /\ Cardinality(u) <= n
          <6>1. PICK w \in t : TRUE
            BY <4>2
          <6>2. Any(t) \in t
            BY <1>1, <6>1, Without
          <6>3. Cardinality(t \ {Any(t)}) = Cardinality(t) - 1
            BY <1>1, <6>2, Without
          <6>4. QED
            BY <1>1, <2>3, <6>3
        <5>2. h[u] = g[u]
          BY <5>1, <2>2
        <5>3. QED
          BY <5>2, <4>2 DEF SumStep
      <4>3. QED
        BY <4>1, <4>2
    <3>2. CASE Cardinality(t) = n + 1
      BY <3>1, <3>2
    <3>3. CASE Cardinality(t) # n + 1
      <4>1. Cardinality(t) <= n
        BY <1>1, <2>3, <3>3
      <4>2. QED
        BY <4>1, <3>1, <2>1, <2>2
    <3>4. QED
      BY <3>2, <3>3
  <2>4. h = [t \in SUBSET S |-> h[t]]
    OBVIOUS
  <2> HIDE DEF h
  <2>5. n + 1 \in Nat
    OBVIOUS
  <2>6. QED
    BY <2>3, <2>4, <2>5
<1>4. N = Nat
  <2> HIDE DEF N
  <2>1. N \in SUBSET Nat
    BY DEF N
  <2>2. QED
    BY <1>2, <1>3, <2>1, Induction
<1>5. Cardinality(S) \in N
  BY <1>4, <1>1
<1>6. PICK g : g = [t \in SUBSET S |-> g[t]] /\ UpTo(g, Cardinality(S))
  BY <1>5
<1>7. \A t \in SUBSET S : Cardinality(t) <= Cardinality(S)
  BY FS_Subset
<1>8. \A t \in SUBSET S : g[t] = SumStep(g, f, t)
  BY <1>6, <1>7
<1>9. QED
  BY <1>6, <1>8 DEF IsSum

\* What the threads of S got, f being the cycles of all threads.
GotBy(f, S) == MapThenSumSet(LAMBDA w : f[w].got, S)

\* It is the value of that function.
LEMMA SumOf ==
  ASSUME NEW f, NEW S, IsFiniteSet(S)
  PROVE  \E g : IsSum(g, f, S) /\ GotBy(f, S) = g[S]
<1>1. GotBy(f, S) = (CHOOSE g : g = [t \in SUBSET S |->
        IF t = {} THEN 0 ELSE f[CHOOSE w \in t : TRUE].got + g[t \ {CHOOSE w \in t : TRUE}]])[S]
  BY DEF GotBy, MapThenSumSet, MapThenFoldSet
<1>2. GotBy(f, S) = (CHOOSE g : IsSum(g, f, S))[S]
  BY <1>1 DEF IsSum, SumStep, Any
<1>3. PICK g : IsSum(g, f, S)
  BY SumExists
<1>4. IsSum(CHOOSE h : IsSum(h, f, S), f, S)
  BY <1>3, Zenon
<1>5. QED
  BY <1>2, <1>4

\* Whichever member is taken first, a sum is what it got and the sum of the others.
Splits(g, f, t) == g[t] \in Nat /\ \A w \in t : g[t] = f[w].got + g[t \ {w}]

LEMMA SumSplits ==
  ASSUME NEW f \in [Workers -> CycleState], NEW S \in SUBSET Workers, IsFiniteSet(S),
         NEW g, IsSum(g, f, S), NEW r \in SUBSET S
  PROVE  Splits(g, f, r)
<1> DEFINE N == {n \in Nat : \A t \in SUBSET S : Cardinality(t) <= n => Splits(g, f, t)}
<1>1. \A t \in SUBSET S : IsFiniteSet(t) /\ Cardinality(t) \in Nat /\ (Cardinality(t) = 0 <=> t = {})
  BY FS_Subset, FS_CardinalityType, FS_EmptySet
<1>2. \A t \in SUBSET S : g[t] = SumStep(g, f, t)
  BY DEF IsSum
<1>3. 0 \in N
  <2>1. ASSUME NEW t \in SUBSET S, Cardinality(t) <= 0 PROVE Splits(g, f, t)
    <3>1. t = {}
      BY <1>1, <2>1
    <3>2. g[t] = 0
      BY <1>2, <3>1 DEF SumStep
    <3>3. QED
      BY <3>1, <3>2 DEF Splits
  <2>2. QED
    BY <2>1
<1>4. ASSUME NEW n \in N PROVE n + 1 \in N
  <2>1. ASSUME NEW t \in SUBSET S, Cardinality(t) = n + 1 PROVE Splits(g, f, t)
    <3>1. t # {} /\ IsFiniteSet(t)
      BY <1>1, <2>1
    <3>2. PICK a : a = Any(t)
      OBVIOUS
    <3>3. a \in t
      <4>1. PICK w \in t : TRUE
        BY <3>1
      <4>2. QED
        BY <3>1, <3>2, <4>1, Without
    <3>4. g[t] = f[a].got + g[t \ {a}]
      BY <1>2, <3>1, <3>2 DEF SumStep
    <3>5. \A w \in t : Cardinality(t \ {w}) = n /\ t \ {w} \in SUBSET S
      BY <3>1, <2>1, Without
    <3>6. \A w \in t : Splits(g, f, t \ {w})
      BY <3>5
    <3>7. \A w \in t : g[t \ {w}] \in Nat /\ f[w].got \in Nat
      BY <3>6 DEF Splits, CycleState
    <3>8. ASSUME NEW w \in t PROVE g[t] = f[w].got + g[t \ {w}]
      <4>1. CASE w = a
        BY <3>4, <4>1
      <4>2. CASE w # a
        <5>1. w \in t \ {a} /\ a \in t \ {w} /\ (t \ {a}) \ {w} = (t \ {w}) \ {a}
          BY <3>3, <4>2
        <5>2. PICK u : u = (t \ {w}) \ {a}
          OBVIOUS
        <5>3. g[t \ {a}] = f[w].got + g[u] /\ g[t \ {w}] = f[a].got + g[u]
          BY <3>3, <3>6, <5>1, <5>2 DEF Splits
        <5>4. g[u] \in Nat
          <6>1. u \in SUBSET S /\ Cardinality(u) = n - 1
            BY <3>1, <3>5, <5>1, <5>2, Without
          <6>2. QED
            BY <6>1 DEF Splits
        <5>5. QED
          BY <3>3, <3>4, <3>7, <5>3, <5>4
      <4>3. QED
        BY <4>1, <4>2
    <3>9. g[t] \in Nat
      BY <3>3, <3>4, <3>7
    <3>10. QED
      BY <3>8, <3>9 DEF Splits
  <2>2. \A t \in SUBSET S : Cardinality(t) <= n + 1 => Cardinality(t) <= n \/ Cardinality(t) = n + 1
    BY <1>1
  <2>3. QED
    BY <2>1, <2>2
<1>5. N = Nat
  <2> HIDE DEF N
  <2>1. N \in SUBSET Nat
    BY DEF N
  <2>2. QED
    BY <1>3, <1>4, <2>1, Induction
<1>6. Cardinality(r) \in N
  BY <1>5, <1>1
<1>7. QED
  BY <1>6

\* Two sums over threads that got the same are the same.
LEMMA SumsAgree ==
  ASSUME NEW f \in [Workers -> CycleState], NEW e \in [Workers -> CycleState],
         NEW S \in SUBSET Workers, NEW R \in SUBSET Workers, IsFiniteSet(S), IsFiniteSet(R),
         NEW g, IsSum(g, f, S), NEW h, IsSum(h, e, R),
         NEW r, r \subseteq S, r \subseteq R, \A w \in r : f[w].got = e[w].got
  PROVE  g[r] = h[r]
<1> DEFINE N == {n \in Nat : \A t \in SUBSET r : Cardinality(t) <= n => g[t] = h[t]}
<1>1. \A t \in SUBSET r : /\ t \in SUBSET S /\ t \in SUBSET R /\ IsFiniteSet(t)
                          /\ Cardinality(t) \in Nat /\ (Cardinality(t) = 0 <=> t = {})
  BY FS_Subset, FS_CardinalityType, FS_EmptySet
<1>2. \A t \in SUBSET r : g[t] = SumStep(g, f, t) /\ h[t] = SumStep(h, e, t)
  BY <1>1 DEF IsSum
<1>3. 0 \in N
  <2>1. ASSUME NEW t \in SUBSET r, Cardinality(t) <= 0 PROVE g[t] = h[t]
    <3>1. t = {}
      BY <1>1, <2>1
    <3>2. QED
      BY <1>2, <3>1 DEF SumStep
  <2>2. QED
    BY <2>1
<1>4. ASSUME NEW n \in N PROVE n + 1 \in N
  <2>1. ASSUME NEW t \in SUBSET r, Cardinality(t) = n + 1 PROVE g[t] = h[t]
    <3>1. t # {} /\ IsFiniteSet(t)
      BY <1>1, <2>1
    <3>2. PICK a : a = Any(t)
      OBVIOUS
    <3>3. a \in t
      <4>1. PICK w \in t : TRUE
        BY <3>1
      <4>2. QED
        BY <3>1, <3>2, <4>1, Without
    <3>4. g[t] = f[a].got + g[t \ {a}] /\ h[t] = e[a].got + h[t \ {a}]
      BY <1>2, <3>1, <3>2 DEF SumStep
    <3>5. Cardinality(t \ {a}) = n /\ t \ {a} \in SUBSET r
      BY <3>1, <3>3, <2>1, Without
    <3>6. g[t \ {a}] = h[t \ {a}]
      BY <3>5
    <3>7. f[a].got = e[a].got
      BY <3>3
    <3>8. QED
      BY <3>4, <3>6, <3>7
  <2>2. \A t \in SUBSET r : Cardinality(t) <= n + 1 => Cardinality(t) <= n \/ Cardinality(t) = n + 1
    BY <1>1
  <2>3. QED
    BY <2>1, <2>2
<1>5. N = Nat
  <2> HIDE DEF N
  <2>1. N \in SUBSET Nat
    BY DEF N
  <2>2. QED
    BY <1>3, <1>4, <2>1, Induction
<1>6. Cardinality(r) \in N
  BY <1>5, <1>1
<1>7. QED
  BY <1>6, <1>1

\* Threads that got the same leave the sum as it is, and one more thread adds what it got.
LEMMA GotSame ==
  ASSUME NEW f \in [Workers -> CycleState], NEW e \in [Workers -> CycleState],
         NEW S \in SUBSET Workers, IsFiniteSet(S), \A w \in S : f[w].got = e[w].got
  PROVE  GotBy(f, S) = GotBy(e, S)
<1>1. PICK g : IsSum(g, f, S) /\ GotBy(f, S) = g[S]
  BY SumOf
<1>2. PICK h : IsSum(h, e, S) /\ GotBy(e, S) = h[S]
  BY SumOf
<1>3. g[S] = h[S]
  BY <1>1, <1>2, SumsAgree
<1>4. QED
  BY <1>1, <1>2, <1>3

LEMMA GotMore ==
  ASSUME NEW f \in [Workers -> CycleState], NEW e \in [Workers -> CycleState],
         NEW S \in SUBSET Workers, IsFiniteSet(S), NEW w \in Workers, w \notin S,
         \A v \in S : f[v].got = e[v].got
  PROVE  GotBy(e, S \cup {w}) = GotBy(f, S) + e[w].got /\ GotBy(f, S) \in Nat
<1> DEFINE R == S \cup {w}
<1>0. IsFiniteSet(R) /\ R \in SUBSET Workers /\ w \in R /\ R \ {w} = S
  BY FS_AddElement
<1> HIDE DEF R
<1>1. PICK g : IsSum(g, f, S) /\ GotBy(f, S) = g[S]
  BY SumOf
<1>2. PICK h : IsSum(h, e, R) /\ GotBy(e, R) = h[R]
  BY <1>0, SumOf
<1>3. g[S] \in Nat
  BY <1>1, SumSplits DEF Splits
<1>4. Splits(h, e, R)
  BY <1>0, <1>2, SumSplits
<1>5. h[R] = e[w].got + h[S]
  BY <1>0, <1>4 DEF Splits
<1>6. S \subseteq R
  BY <1>0
<1>7. g[S] = h[S]
  BY <1>0, <1>1, <1>2, <1>6, SumsAgree
<1>8. e[w].got \in Nat
  BY DEF CycleState
<1>9. QED
  BY <1>1, <1>2, <1>3, <1>5, <1>7, <1>8 DEF R

\* The threads that are about to deliver, and what they got.
Delivering == In({"deliver"})

LEMMA EventsAre == EventsExact <=> events = published + lost + GotBy(cycle, Delivering)
<1>1. Delivering = {w \in Workers : cycle[w].at = "deliver"}
  BY DEF Delivering, In
<1>2. QED
  BY <1>1 DEF EventsExact, GotBy, MapThenSumSet, MapThenFoldSet

\* Every step keeps the balance of events counted, delivered and kept back.
LEMMA EventsStep == SchedTypeOK /\ EventsExact /\ [SchedNext]_schedVars => EventsExact'
<1> SUFFICES ASSUME SchedTypeOK, EventsExact, [SchedNext]_schedVars PROVE EventsExact'
  OBVIOUS
<1> DEFINE D == Delivering
           G == GotBy(cycle, Delivering)
<1>0. /\ cycle \in [Workers -> CycleState] /\ cycle' \in [Workers -> CycleState]
      /\ events \in Nat /\ published \in Nat /\ lost \in Nat
  BY TypeStep DEF SchedTypeOK
<1>1. D \in SUBSET Workers /\ IsFiniteSet(D) /\ D' \in SUBSET Workers
  BY InFinite DEF Delivering, In
<1>2. events = published + lost + G
  BY EventsAre
<1>3. EventsExact' <=> events' = published' + lost' + G'
  <2>1. D' = {w \in Workers : cycle'[w].at = "deliver"}
    BY DEF Delivering, In
  <2>2. QED
    BY <2>1 DEF EventsExact, GotBy, MapThenSumSet, MapThenFoldSet
<1>4. \A w \in Workers : cycle[w].got \in Nat /\ cycle'[w].got \in Nat
  BY <1>0 DEF CycleState
<1>5. ASSUME D' = D, \A w \in D : cycle[w].got = cycle'[w].got
      PROVE  G' = G
  <2>1. GotBy(cycle, D) = GotBy(cycle', D)
    BY <1>0, <1>1, <1>5, GotSame
  <2>2. QED
    BY <1>5, <2>1
<1>6. ASSUME NEW w \in Workers, w \notin D, D' = D \cup {w}, \A v \in D : cycle[v].got = cycle'[v].got
      PROVE  G' = G + cycle'[w].got
  <2>1. GotBy(cycle', D \cup {w}) = GotBy(cycle, D) + cycle'[w].got
    BY <1>0, <1>1, <1>6, GotMore
  <2>2. QED
    BY <1>6, <2>1
<1>7. ASSUME NEW w \in D, D' = D \ {w}, \A v \in D' : cycle[v].got = cycle'[v].got
      PROVE  G = G' + cycle[w].got /\ G' \in Nat
  <2>1. PICK R : R = D \ {w}
    OBVIOUS
  <2>2. R \in SUBSET Workers /\ IsFiniteSet(R) /\ w \in Workers /\ w \notin R /\ R \cup {w} = D
    BY <1>1, <2>1, FS_RemoveElement
  <2>3. \A v \in R : cycle'[v].got = cycle[v].got
    BY <1>7, <2>1
  <2>4. GotBy(cycle, R \cup {w}) = GotBy(cycle', R) + cycle[w].got /\ GotBy(cycle', R) \in Nat
    BY <1>0, <2>2, <2>3, GotMore
  <2>5. QED
    BY <1>7, <2>1, <2>2, <2>4
<1>8. G \in Nat
  <2>1. PICK g : IsSum(g, cycle, D) /\ G = g[D]
    BY <1>1, SumOf
  <2>2. QED
    BY <1>0, <1>1, <2>1, SumSplits DEF Splits
<1> HIDE DEF G, D
<1>9. ASSUME UNCHANGED cycleVars PROVE EventsExact'
  <2>1. D' = D /\ \A w \in D : cycle[w].got = cycle'[w].got
    BY <1>9 DEF cycleVars, D, Delivering, In
  <2>2. QED
    BY <1>2, <1>3, <1>5, <1>9, <2>1 DEF cycleVars
<1>10. ASSUME NEW w \in Workers, Begin(w) \/ Require(w) \/ Attempt(w) \/ Except(w)
       PROVE  EventsExact'
  <2>1. /\ cycle[w].at # "deliver" /\ cycle'[w].at # "deliver"
        /\ \A v \in Workers \ {w} : cycle'[v] = cycle[v]
    <3>1. CASE Begin(w)
      BY <1>0, <3>1 DEF Begin, CycleState
    <3>2. CASE Require(w)
      BY <1>0, <3>2 DEF Require, Collecting, Outside, CycleState
    <3>3. CASE Attempt(w)
      BY <1>0, <3>3 DEF Attempt, Done, Collecting, CycleState
    <3>4. CASE Except(w)
      BY <1>0, <3>4 DEF Except, AfterExcept, Outside
    <3>5. QED
      BY <1>10, <3>1, <3>2, <3>3, <3>4
  <2>2. D' = D /\ \A v \in D : cycle[v].got = cycle'[v].got
    BY <1>0, <2>1 DEF D, Delivering, In
  <2>3. UNCHANGED <<events, published, lost>>
    BY <1>10 DEF Begin, Require, Attempt, Except
  <2>4. QED
    BY <1>2, <1>3, <1>5, <2>2, <2>3
<1>11. ASSUME NEW w \in Workers, Count(w) PROVE EventsExact'
  <2>1. /\ cycle[w].at = "collect" /\ events' = events + cycle[w].got /\ UNCHANGED <<published, lost>>
        /\ \A v \in Workers \ {w} : cycle'[v] = cycle[v]
    BY <1>0, <1>11 DEF Count, Counted, Collecting
  <2>2. CASE cycle[w].got > 0
    <3>1. cycle'[w].at = "deliver" /\ cycle'[w].got = cycle[w].got
      BY <1>0, <1>11, <2>2 DEF Count, CycleState
    <3>2. w \notin D /\ D' = D \cup {w} /\ \A v \in D : cycle[v].got = cycle'[v].got
      BY <1>0, <2>1, <3>1 DEF D, Delivering, In
    <3>3. G' = G + cycle'[w].got
      BY <3>2, <1>6
    <3>4. QED
      BY <1>0, <1>2, <1>3, <1>4, <1>8, <2>1, <3>1, <3>3
  <2>3. CASE ~ (cycle[w].got > 0)
    <3>1. cycle'[w].at = "out" /\ cycle[w].got = 0
      BY <1>0, <1>4, <1>11, <2>3 DEF Count, Outside
    <3>2. D' = D /\ \A v \in D : cycle[v].got = cycle'[v].got
      BY <1>0, <2>1, <3>1 DEF D, Delivering, In
    <3>3. QED
      BY <1>0, <1>2, <1>3, <1>5, <2>1, <3>1, <3>2
  <2>4. QED
    BY <2>2, <2>3
<1>12. ASSUME NEW w \in Workers, Deliver(w) PROVE EventsExact'
  <2>1. /\ cycle[w].at = "deliver" /\ cycle'[w].at # "deliver" /\ events' = events
        /\ \A v \in Workers \ {w} : cycle'[v] = cycle[v]
    BY <1>0, <1>12 DEF Deliver, Outside
  <2>2. published' + lost' = published + lost + cycle[w].got /\ published' \in Nat /\ lost' \in Nat
    BY <1>0, <1>4, <1>12 DEF Deliver
  <2>3. w \in D /\ D' = D \ {w} /\ \A v \in D' : cycle[v].got = cycle'[v].got
    BY <1>0, <2>1 DEF D, Delivering, In
  <2>4. G = G' + cycle[w].got /\ G' \in Nat
    BY <1>7, <2>3
  <2>5. QED
    BY <1>0, <1>2, <1>3, <1>4, <2>1, <2>2, <2>4
<1>13. QED
  <2>1. \/ UNCHANGED cycleVars
        \/ \E w \in Workers : \/ Begin(w) \/ Require(w) \/ Attempt(w)
                              \/ Count(w) \/ Deliver(w) \/ Except(w)
    BY CycleOnly
  <2>2. QED
    BY <2>1, <1>9, <1>10, <1>11, <1>12

\* Whatever threads collect, publish and are interrupted at the same time, the number of events
\* the status reports is the number delivered, kept back or about to be delivered.
THEOREM EventCount == SchedSpec => []EventsExact
<1>1. SchedInit => EventsExact
  <2> SUFFICES ASSUME SchedInit PROVE EventsExact
    OBVIOUS
  <2>1. Delivering = {}
    BY DEF Delivering, In, SchedInit, Outside
  <2>2. IsFiniteSet({})
    BY FS_EmptySet
  <2>3. PICK g : IsSum(g, cycle, {}) /\ GotBy(cycle, {}) = g[{}]
    BY <2>2, SumOf
  <2>4. g[{}] = 0
    BY <2>3 DEF IsSum, SumStep
  <2>5. QED
    BY <2>1, <2>3, <2>4, EventsAre DEF SchedInit
<1>2. SchedTypeOK /\ EventsExact /\ [SchedNext]_schedVars => EventsExact'
  BY EventsStep
<1>3. QED
  BY <1>1, <1>2, SchedulerTyped, PTL DEF SchedSpec

\* One caller: the lifecycle and the counts of the scheduler are kept.
THEOREM SchedulerIsKept == SchedSpec => [](OneCaller => SchedulerKept)
<1>1. /\ SchedTypeOK /\ CyclesExact
      /\ OneCaller => LoopsAccounted
      /\ OneCaller => DisabledHasNoLoop
      => (OneCaller => SchedulerKept)
    BY DEF SchedulerKept
<1>2. QED
    BY <1>1, SchedulerTyped, CycleCount, LoopsKept, DisabledEmpty, PTL

-----------------------------------------------------------------------------
(* The runtime.                                                              *)

\* A crash leaves the scheduler as a new process creates it.
LEMMA CrashResets == Crash => SchedInv'
<1> SUFFICES ASSUME Crash PROVE SchedInv'
    OBVIOUS
<1>1. Outside \in CycleState
    BY SchedulerAssumption DEF Outside, CycleState, CyclePoints
<1>2. cycle' \in [Workers -> CycleState]
    BY <1>1 DEF Crash
<1>3. SchedTypeOK'
    BY <1>2 DEF Crash, SchedTypeOK, CallPoints, LoopLife
<1>4. QED
    BY <1>3 DEF Crash, SchedInv, LoopsAccounted, Live

\* Every other step of the runtime is a step of the scheduler or none of it.
LEMMA SchedulerStep == Next => Crash \/ [SchedNext]_schedVars
<1> SUFFICES ASSUME Next PROVE Crash \/ [SchedNext]_schedVars
    OBVIOUS
<1>1. ASSUME NEW c \in Callers, RuntimeStart(c) PROVE [SchedNext]_schedVars
    BY <1>1 DEF RuntimeStart, Begins
<1>2. ASSUME NEW c \in Callers, ShowBooting(c) PROVE [SchedNext]_schedVars
    BY <1>2 DEF ShowBooting, Show
<1>3. ASSUME NEW c \in Callers, SaveBooting(c) PROVE [SchedNext]_schedVars
    BY <1>3 DEF SaveBooting
<1>4. ASSUME NEW c \in Callers, Restore(c) PROVE [SchedNext]_schedVars
    BY <1>4 DEF Restore
<1>5. ASSUME NEW c \in Callers, Restored(c) PROVE [SchedNext]_schedVars
    BY <1>5 DEF Restored
<1>6. ASSUME NEW c \in Callers, CheckLicense(c) PROVE [SchedNext]_schedVars
    BY <1>6 DEF CheckLicense
<1>7. ASSUME NEW c \in Callers, SetBlocked(c) PROVE [SchedNext]_schedVars
    BY <1>7 DEF SetBlocked
<1>8. ASSUME NEW c \in Callers, ShowExpired(c) PROVE [SchedNext]_schedVars
    BY <1>8 DEF ShowExpired, Show
<1>9. ASSUME NEW c \in Callers, SaveBlocked(c) PROVE [SchedNext]_schedVars
    BY <1>9 DEF SaveBlocked
<1>10. ASSUME NEW c \in Callers, MarkRunning(c) PROVE [SchedNext]_schedVars
    BY <1>10 DEF MarkRunning, Mark
<1>11. ASSUME NEW c \in Callers, EnterScheduler(c) PROVE [SchedNext]_schedVars
    BY <1>11 DEF EnterScheduler, SchedNext
<1>12. ASSUME NEW c \in Callers, SchedulerStarted(c) PROVE [SchedNext]_schedVars
    BY <1>12 DEF SchedulerStarted
<1>13. ASSUME NEW c \in Callers, ShowRunning(c) PROVE [SchedNext]_schedVars
    BY <1>13 DEF ShowRunning, Show
<1>14. ASSUME NEW c \in Callers, SaveRunning(c) PROVE [SchedNext]_schedVars
    BY <1>14 DEF SaveRunning
<1>15. ASSUME NEW c \in Callers, StartFails(c) PROVE [SchedNext]_schedVars
    BY <1>15 DEF StartFails, Mark
<1>16. ASSUME NEW c \in Callers, ShowFailed(c) PROVE [SchedNext]_schedVars
    BY <1>16 DEF ShowFailed, Show
<1>17. ASSUME NEW c \in Callers, SaveFailed(c) PROVE [SchedNext]_schedVars
    BY <1>17 DEF SaveFailed
<1>18. ASSUME NEW c \in Callers, RuntimeStop(c) PROVE [SchedNext]_schedVars
    BY <1>18 DEF RuntimeStop, Begins
<1>19. ASSUME NEW c \in Callers, ShowStopping(c) PROVE [SchedNext]_schedVars
    BY <1>19 DEF ShowStopping, Show
<1>20. ASSUME NEW c \in Callers, SaveStopping(c) PROVE [SchedNext]_schedVars
    BY <1>20 DEF SaveStopping
<1>21. ASSUME NEW c \in Callers, EnterStop(c) PROVE [SchedNext]_schedVars
    BY <1>21 DEF EnterStop, Halt, SchedNext
<1>22. ASSUME NEW c \in Callers, SchedulerStopped(c) PROVE [SchedNext]_schedVars
    BY <1>22 DEF SchedulerStopped, Mark
<1>23. ASSUME NEW c \in Callers, ShowStopped(c) PROVE [SchedNext]_schedVars
    BY <1>23 DEF ShowStopped, Show
<1>24. ASSUME NEW c \in Callers, SaveStopped(c) PROVE [SchedNext]_schedVars
    BY <1>24 DEF SaveStopped
<1>25. ASSUME Background PROVE [SchedNext]_schedVars
    BY <1>25 DEF Background, SchedNext
<1>26. ASSUME LicenseChanges PROVE [SchedNext]_schedVars
    BY <1>26 DEF LicenseChanges
<1>27. QED
    BY <1>1, <1>2, <1>3, <1>4, <1>5, <1>6, <1>7, <1>8, <1>9, <1>10, <1>11, <1>12, <1>13, <1>14,
       <1>15, <1>16, <1>17, <1>18, <1>19, <1>20, <1>21, <1>22, <1>23, <1>24, <1>25, <1>26
    DEF Next, StartingStep, StoppingStep

\* The lifecycle of the scheduler holds under the runtime.
LEMMA SchedulerHolds == OneCaller /\ SchedInv /\ [Next]_vars => SchedInv'
<1> SUFFICES ASSUME OneCaller, SchedInv, [Next]_vars PROVE SchedInv'
    OBVIOUS
<1>1. CASE Crash
    BY <1>1, CrashResets
<1>2. CASE [SchedNext]_schedVars
    BY <1>2, InvStep
<1>3. CASE UNCHANGED vars
    BY <1>3, InvStep DEF vars
<1>4. QED
    BY <1>1, <1>2, <1>3, SchedulerStep

\* What a write that succeeds or fails does to the types.
LEMMA SaveTypes ==
  ASSUME RuntimeTypeOK, NEW s \in States, Save(s) \/ SaveFails
  PROVE  /\ stored' \in States \cup {"none"}
         /\ saved' \in BOOLEAN
         /\ faults' \in 0 .. MaxFaults
<1>1. CASE Save(s)
    BY <1>1 DEF Save, RuntimeTypeOK
<1>2. CASE SaveFails
    BY <1>2, RuntimeAssumption DEF SaveFails, Fault, RuntimeTypeOK
<1>3. QED
    BY <1>1, <1>2

\* Every step keeps the types of the runtime, whatever the scheduler does.
LEMMA RuntimeTypeStep == RuntimeTypeOK /\ SchedTypeOK' /\ [Next]_vars => RuntimeTypeOK'
<1> SUFFICES ASSUME RuntimeTypeOK, SchedTypeOK', [Next]_vars PROVE RuntimeTypeOK'
    OBVIOUS
<1> USE RuntimeAssumption DEF RuntimeTypeOK, States, RuntimePoints, Step, world
<1>1. ASSUME NEW c \in Callers, RuntimeStart(c) PROVE RuntimeTypeOK'
    BY <1>1 DEF RuntimeStart, Begins, memory
<1>2. ASSUME NEW c \in Callers, ShowBooting(c) PROVE RuntimeTypeOK'
    BY <1>2 DEF ShowBooting, Show
<1>3. ASSUME NEW c \in Callers, SaveBooting(c) PROVE RuntimeTypeOK'
  <2>1. Save("booting") \/ SaveFails
      BY <1>3 DEF SaveBooting
  <2>2. /\ stored' \in States \cup {"none"} /\ saved' \in BOOLEAN
        /\ faults' \in 0 .. MaxFaults
      BY <2>1, SaveTypes
  <2>3. rpc' \in [Callers -> RuntimePoints]
      BY <1>3 DEF SaveBooting
  <2>4. QED
      BY <1>3, <2>2, <2>3 DEF SaveBooting, memory
<1>4. ASSUME NEW c \in Callers, Restore(c) PROVE RuntimeTypeOK'
    BY <1>4 DEF Restore, memory
<1>5. ASSUME NEW c \in Callers, Restored(c) PROVE RuntimeTypeOK'
  <2>1. faults' \in 0 .. MaxFaults
    <3>1. faults' = faults \/ Fault
        BY <1>5 DEF Restored
    <3>2. QED
        BY <3>1 DEF Fault
  <2>2. rpc' \in [Callers -> RuntimePoints]
      BY <1>5 DEF Restored
  <2>3. restored' \in BOOLEAN
      BY <1>5 DEF Restored
  <2>4. QED
      BY <1>5, <2>1, <2>2, <2>3 DEF Restored
<1>6. ASSUME NEW c \in Callers, CheckLicense(c) PROVE RuntimeTypeOK'
  <2>1. faults' \in 0 .. MaxFaults
    <3>1. faults' = faults \/ Fault
        BY <1>6 DEF CheckLicense
    <3>2. QED
        BY <3>1 DEF Fault
  <2>2. rpc' \in [Callers -> RuntimePoints]
      BY <1>6 DEF CheckLicense
  <2>3. QED
      BY <1>6, <2>1, <2>2 DEF CheckLicense, memory
<1>7. ASSUME NEW c \in Callers, SetBlocked(c) PROVE RuntimeTypeOK'
  <2>1. rpc' \in [Callers -> RuntimePoints]
      BY <1>7 DEF SetBlocked
  <2>2. blocked' \in BOOLEAN
      BY <1>7 DEF SetBlocked
  <2>3. QED
      BY <1>7, <2>1, <2>2 DEF SetBlocked
<1>8. ASSUME NEW c \in Callers, ShowExpired(c) PROVE RuntimeTypeOK'
    BY <1>8 DEF ShowExpired, Show
<1>9. ASSUME NEW c \in Callers, SaveBlocked(c) PROVE RuntimeTypeOK'
  <2>1. Save("license_expired") \/ SaveFails
      BY <1>9 DEF SaveBlocked
  <2>2. /\ stored' \in States \cup {"none"} /\ saved' \in BOOLEAN
        /\ faults' \in 0 .. MaxFaults
      BY <2>1, SaveTypes
  <2>3. rpc' \in [Callers -> RuntimePoints]
      BY <1>9 DEF SaveBlocked, Returns
  <2>4. QED
      BY <1>9, <2>2, <2>3 DEF SaveBlocked, memory
<1>10. ASSUME NEW c \in Callers, MarkRunning(c) PROVE RuntimeTypeOK'
    BY <1>10 DEF MarkRunning, Mark
<1>11. ASSUME NEW c \in Callers, EnterScheduler(c) PROVE RuntimeTypeOK'
    BY <1>11 DEF EnterScheduler, memory
<1>12. ASSUME NEW c \in Callers, SchedulerStarted(c) PROVE RuntimeTypeOK'
    BY <1>12 DEF SchedulerStarted, memory
<1>13. ASSUME NEW c \in Callers, ShowRunning(c) PROVE RuntimeTypeOK'
    BY <1>13 DEF ShowRunning, Show
<1>14. ASSUME NEW c \in Callers, SaveRunning(c) PROVE RuntimeTypeOK'
  <2>1. Save("running") \/ SaveFails
      BY <1>14 DEF SaveRunning
  <2>2. /\ stored' \in States \cup {"none"} /\ saved' \in BOOLEAN
        /\ faults' \in 0 .. MaxFaults
      BY <2>1, SaveTypes
  <2>3. rpc' \in [Callers -> RuntimePoints]
      BY <1>14 DEF SaveRunning
  <2>4. QED
      BY <1>14, <2>2, <2>3 DEF SaveRunning, memory
<1>15. ASSUME NEW c \in Callers, StartFails(c) PROVE RuntimeTypeOK'
    BY <1>15 DEF StartFails, Mark
<1>16. ASSUME NEW c \in Callers, ShowFailed(c) PROVE RuntimeTypeOK'
    BY <1>16 DEF ShowFailed, Show
<1>17. ASSUME NEW c \in Callers, SaveFailed(c) PROVE RuntimeTypeOK'
  <2>1. Save("failed") \/ SaveFails
      BY <1>17 DEF SaveFailed
  <2>2. /\ stored' \in States \cup {"none"} /\ saved' \in BOOLEAN
        /\ faults' \in 0 .. MaxFaults
      BY <2>1, SaveTypes
  <2>3. rpc' \in [Callers -> RuntimePoints]
      BY <1>17 DEF SaveFailed
  <2>4. QED
      BY <1>17, <2>2, <2>3 DEF SaveFailed, memory
<1>18. ASSUME NEW c \in Callers, RuntimeStop(c) PROVE RuntimeTypeOK'
  <2>1. ASSUME NEW p \in RuntimePoints, Begins(c, p) PROVE RuntimeTypeOK'
      BY <2>1 DEF Begins, memory
  <2>2. QED
      BY <1>18, <2>1 DEF RuntimeStop
<1>19. ASSUME NEW c \in Callers, ShowStopping(c) PROVE RuntimeTypeOK'
    BY <1>19 DEF ShowStopping, Show
<1>20. ASSUME NEW c \in Callers, SaveStopping(c) PROVE RuntimeTypeOK'
  <2>1. Save("stopping") \/ SaveFails
      BY <1>20 DEF SaveStopping
  <2>2. /\ stored' \in States \cup {"none"} /\ saved' \in BOOLEAN
        /\ faults' \in 0 .. MaxFaults
      BY <2>1, SaveTypes
  <2>3. rpc' \in [Callers -> RuntimePoints]
      BY <1>20 DEF SaveStopping
  <2>4. QED
      BY <1>20, <2>2, <2>3 DEF SaveStopping, memory
<1>21. ASSUME NEW c \in Callers, EnterStop(c) PROVE RuntimeTypeOK'
    BY <1>21 DEF EnterStop, memory
<1>22. ASSUME NEW c \in Callers, SchedulerStopped(c) PROVE RuntimeTypeOK'
    BY <1>22 DEF SchedulerStopped, Mark, Ended
<1>23. ASSUME NEW c \in Callers, ShowStopped(c) PROVE RuntimeTypeOK'
    BY <1>23 DEF ShowStopped, Show
<1>24. ASSUME NEW c \in Callers, SaveStopped(c) PROVE RuntimeTypeOK'
  <2>1. Save("stopped") \/ SaveFails
      BY <1>24 DEF SaveStopped, LastState
  <2>2. /\ stored' \in States \cup {"none"} /\ saved' \in BOOLEAN
        /\ faults' \in 0 .. MaxFaults
      BY <2>1, SaveTypes
  <2>3. rpc' \in [Callers -> RuntimePoints]
      BY <1>24 DEF SaveStopped
  <2>4. QED
      BY <1>24, <2>2, <2>3 DEF SaveStopped, memory
<1>25. ASSUME Background PROVE RuntimeTypeOK'
    BY <1>25 DEF Background, runtimeVars, memory
<1>26. ASSUME LicenseChanges PROVE RuntimeTypeOK'
    BY <1>26 DEF LicenseChanges, memory
<1>27. ASSUME Crash PROVE RuntimeTypeOK'
  <2>1. crashes' \in 0 .. MaxCrashes
      BY <1>27 DEF Crash
  <2>2. rpc' \in [Callers -> RuntimePoints]
      BY <1>27 DEF Crash
  <2>3. /\ running' \in BOOLEAN /\ blocked' \in BOOLEAN /\ restored' \in BOOLEAN
        /\ saved' \in BOOLEAN /\ overlapped' \in BOOLEAN /\ state' \in States
      BY <1>27 DEF Crash
  <2>4. QED
      BY <1>27, <2>1, <2>2, <2>3 DEF Crash
<1>28. CASE UNCHANGED vars
    BY <1>28 DEF vars, runtimeVars, memory
<1>29. QED
    BY <1>1, <1>2, <1>3, <1>4, <1>5, <1>6, <1>7, <1>8, <1>9, <1>10, <1>11, <1>12, <1>13, <1>14,
       <1>15, <1>16, <1>17, <1>18, <1>19, <1>20, <1>21, <1>22, <1>23, <1>24, <1>25, <1>26,
       <1>27, <1>28
    DEF Next, StartingStep, StoppingStep

\* With one caller, every step keeps what its place says.
LEMMA PointStep ==
  ASSUME OneCaller, RuntimeInv, SchedInv', [Next]_vars, NEW c \in Callers
  PROVE  PointInv(c)'
<1> DEFINE Goal == PointInv(c)'
<1>a. /\ rpc \in [Callers -> RuntimePoints] /\ call \in [Callers -> CallPoints]
      /\ running \in BOOLEAN /\ blocked \in BOOLEAN /\ faults \in Nat
    BY RuntimeAssumption DEF RuntimeInv, RuntimeTypeOK, SchedTypeOK
<1>b. PointInv(c)
    BY DEF RuntimeInv
<1>c. /\ call[c] # "raised"
      /\ call'[c] # "raised"
    BY DEF RuntimeInv, SchedInv
<1> USE <1>a, <1>b, <1>c
<1> USE DEF PointInv, Step, Fault, Save, SaveFails, memory, world, LastState, Ended, Returns,
            RuntimePoints, CallPoints, Down, Up, Showing
<1>1. ASSUME RuntimeStart(c) PROVE Goal
    BY <1>1 DEF RuntimeStart, Begins, schedVars, lifeVars
<1>2. ASSUME ShowBooting(c) PROVE Goal
    BY <1>2 DEF ShowBooting, Show, schedVars, lifeVars
<1>3. ASSUME SaveBooting(c) PROVE Goal
    BY <1>3 DEF SaveBooting, schedVars, lifeVars
<1>4. ASSUME Restore(c) PROVE Goal
    BY <1>4 DEF Restore, schedVars, lifeVars
<1>5. ASSUME Restored(c) PROVE Goal
    BY <1>5 DEF Restored, schedVars, lifeVars
<1>6. ASSUME CheckLicense(c) PROVE Goal
    BY <1>6 DEF CheckLicense, schedVars, lifeVars
<1>7. ASSUME SetBlocked(c) PROVE Goal
    BY <1>7 DEF SetBlocked, schedVars, lifeVars
<1>8. ASSUME ShowExpired(c) PROVE Goal
    BY <1>8 DEF ShowExpired, Show, schedVars, lifeVars
<1>9. ASSUME SaveBlocked(c) PROVE Goal
    BY <1>9 DEF SaveBlocked, schedVars, lifeVars
<1>10. ASSUME MarkRunning(c) PROVE Goal
    BY <1>10 DEF MarkRunning, Mark, schedVars, lifeVars
<1>11. ASSUME EnterScheduler(c) PROVE Goal
    BY <1>11 DEF EnterScheduler, Start, Goto, schedVars, lifeVars
<1>12. ASSUME SchedulerStarted(c) PROVE Goal
    BY <1>12 DEF SchedulerStarted, schedVars, lifeVars
<1>13. ASSUME ShowRunning(c) PROVE Goal
    BY <1>13 DEF ShowRunning, Show, schedVars, lifeVars
<1>14. ASSUME SaveRunning(c) PROVE Goal
    BY <1>14 DEF SaveRunning, schedVars, lifeVars
<1>15. ASSUME StartFails(c) PROVE Goal
    BY <1>15 DEF StartFails, Mark, schedVars, lifeVars
<1>16. ASSUME ShowFailed(c) PROVE Goal
    BY <1>16 DEF ShowFailed, Show, schedVars, lifeVars
<1>17. ASSUME SaveFailed(c) PROVE Goal
    BY <1>17 DEF SaveFailed, schedVars, lifeVars
<1>18. ASSUME RuntimeStop(c) PROVE Goal
  <2>1. CASE ~ running /\ Begins(c, "stopped")
      BY <2>1 DEF Begins, schedVars, lifeVars
  <2>2. CASE running /\ Begins(c, "stop")
      BY <2>2 DEF Begins, schedVars, lifeVars
  <2>3. QED
      BY <1>18, <2>1, <2>2 DEF RuntimeStop
<1>19. ASSUME ShowStopping(c) PROVE Goal
    BY <1>19 DEF ShowStopping, Show, schedVars, lifeVars
<1>20. ASSUME SaveStopping(c) PROVE Goal
    BY <1>20 DEF SaveStopping, schedVars, lifeVars
<1>21. ASSUME EnterStop(c) PROVE Goal
    BY <1>21 DEF EnterStop, Halt, StopSet, Goto
<1>22. ASSUME SchedulerStopped(c) PROVE Goal
    BY <1>22 DEF SchedulerStopped, Mark, schedVars, lifeVars
<1>23. ASSUME ShowStopped(c) PROVE Goal
    BY <1>23 DEF ShowStopped, Show, schedVars, lifeVars
<1>24. ASSUME SaveStopped(c) PROVE Goal
    BY <1>24 DEF SaveStopped, schedVars, lifeVars
<1>25. ASSUME Background PROVE Goal
  <2>0. UNCHANGED runtimeVars
      BY <1>25 DEF Background
  <2>1. ASSUME NEW l \in Loops, LoopStep(l) PROVE UNCHANGED <<call, ref>>
      BY <2>1 DEF LoopStep, LoopCycle, LoopEnd, CycleStep, Begin, Require, Attempt,
         Count,
                  Deliver, Except, lifeVars
  <2>2. ASSUME RegistryStep PROVE UNCHANGED <<call, ref>>
      BY <2>2 DEF RegistryStep, Register, Unregister, lifeVars
  <2>3. CASE UNCHANGED <<call, ref>>
      BY <2>0, <2>3 DEF runtimeVars
  <2>4. ASSUME StartStep(c) PROVE Goal
      BY <2>0, <2>4 DEF runtimeVars, StartStep, StartRunning, StartClear, StartCreate,
                        StartSpawn, AfterRunning, Goto
  <2>5. ASSUME StopStep(c) PROVE Goal
      BY <2>0, <2>5 DEF runtimeVars, StopStep, StopSet, StopAlive, StopJoin, StopForget,
                        Forgotten, Goto
  <2>6. ASSUME CycleStep(c) PROVE UNCHANGED <<call, ref>>
      BY <2>6 DEF CycleStep, Require, Attempt, Count, Deliver, Except, lifeVars
  <2>7. QED
      BY <1>25, <2>1, <2>2, <2>3, <2>4, <2>5, <2>6 DEF Background, CallStep, OneCaller
<1>26. ASSUME LicenseChanges PROVE Goal
    BY <1>26 DEF LicenseChanges, schedVars, lifeVars
<1>27. ASSUME Crash PROVE Goal
    BY <1>27 DEF Crash
<1>28. CASE UNCHANGED vars
    BY <1>28 DEF vars, schedVars, lifeVars, runtimeVars
<1>29. QED
    BY <1>1, <1>2, <1>3, <1>4, <1>5, <1>6, <1>7, <1>8, <1>9, <1>10, <1>11, <1>12, <1>13, <1>14,
       <1>15, <1>16, <1>17, <1>18, <1>19, <1>20, <1>21, <1>22, <1>23, <1>24, <1>25, <1>26,
       <1>27, <1>28
    DEF Next, StartingStep, StoppingStep, OneCaller

\* With one caller, every step keeps the invariant of the runtime.
LEMMA RuntimeStep == OneCaller /\ RuntimeInv /\ [Next]_vars => RuntimeInv'
<1> SUFFICES ASSUME OneCaller, RuntimeInv, [Next]_vars PROVE RuntimeInv'
    OBVIOUS
<1>1. SchedInv' /\ SchedTypeOK'
    BY SchedulerHolds DEF RuntimeInv, SchedInv
<1>2. RuntimeTypeOK'
    BY <1>1, RuntimeTypeStep DEF RuntimeInv
<1>3. ASSUME NEW c \in Callers PROVE PointInv(c)'
    BY <1>1, <1>3, PointStep
<1>4. QED
    BY <1>1, <1>2, <1>3 DEF RuntimeInv


\* A new process on a new database is in the invariant.
LEMMA InitInv == Init => RuntimeInv
<1> SUFFICES ASSUME Init PROVE RuntimeInv
    OBVIOUS
<1>1. SchedTypeOK
    BY TypeInit DEF Init
<1>2. SchedInv
    BY <1>1 DEF Init, SchedInit, SchedInv, LoopsAccounted, Live
<1>3. rpc \in [Callers -> RuntimePoints] /\ state \in States
    BY DEF Init, RuntimeInit, RuntimePoints, States
<1>4. RuntimeTypeOK
  <2>1. faults \in 0 .. MaxFaults /\ crashes \in 0 .. MaxCrashes
      BY RuntimeAssumption DEF Init
  <2>2. running \in BOOLEAN /\ blocked \in BOOLEAN /\ restored \in BOOLEAN
      BY DEF Init, RuntimeInit
  <2>3. licensed \in BOOLEAN /\ saved \in BOOLEAN /\ overlapped \in BOOLEAN
        /\ stored = "none"
      BY DEF Init, RuntimeInit
  <2>4. QED
      BY <1>1, <1>3, <2>1, <2>2, <2>3 DEF RuntimeTypeOK
<1>5. ASSUME NEW c \in Callers PROVE PointInv(c)
    BY DEF Init, RuntimeInit, SchedInit, PointInv, Down, Up, Showing
<1>6. QED
    BY <1>2, <1>4, <1>5 DEF RuntimeInv

\* Only a caller about to do so starts a thread.
LEMMA SpawnStarts ==
  ASSUME loop \in [Loops -> LoopLife], NEW l \in Loops, loop[l] = "made", loop'[l] = "started",
         Crash \/ [SchedNext]_schedVars
  PROVE  \E c \in Callers : call[c] = "spawn"
<1>1. CASE Crash
    BY <1>1 DEF Crash
<1>2. CASE UNCHANGED schedVars
    BY <1>2 DEF schedVars, lifeVars
<1>3. ASSUME NEW c \in Callers, CallStep(c) PROVE call[c] = "spawn"
  <2>1. CASE StartStep(c)
      BY <2>1 DEF StartStep, StartRunning, StartClear, StartCreate, StartSpawn
  <2>2. CASE StopStep(c)
      BY <2>2 DEF StopStep, StopSet, StopAlive, StopJoin, StopForget
  <2>3. CASE CycleStep(c)
      BY <2>3 DEF CycleStep, Require, Attempt, Count, Deliver, Except, lifeVars
  <2>4. QED
      BY <1>3, <2>1, <2>2, <2>3 DEF CallStep
<1>4. ASSUME NEW k \in Loops, LoopStep(k) PROVE FALSE
    BY <1>4 DEF LoopStep, LoopCycle, LoopEnd, CycleStep, Begin, Require, Attempt, Count,
                Deliver, Except, lifeVars
<1>5. ASSUME RegistryStep PROVE FALSE
    BY <1>5 DEF RegistryStep, Register, Unregister, lifeVars
<1>6. ASSUME NEW c \in Callers,
             Start(c) \/ StopSet(c) \/ RunOnce(c) \/ \E b \in BOOLEAN : SetEnabled(c, b)
      PROVE  FALSE
    BY <1>6 DEF Start, StopSet, RunOnce, Begin, SetEnabled, lifeVars
<1>7. QED
    BY <1>1, <1>2, <1>3, <1>4, <1>5, <1>6 DEF SchedNext

\* The invariant of the runtime always holds with one caller.
LEMMA RuntimeInvariant == Spec => [](OneCaller => RuntimeInv)
<1>1. Init => (OneCaller => RuntimeInv)
    BY InitInv
<1>2. (OneCaller => RuntimeInv) /\ [Next]_vars => (OneCaller => RuntimeInv)'
    BY RuntimeStep DEF OneCaller
<1>3. QED
    BY <1>1, <1>2, PTL DEF Spec

\* Whatever writes failed, a runtime that runs is stored as running while no
\* start or stop is under way: a crash of it is reported by the next start.
THEOREM CrashReported == Spec => [](OneCaller /\ Callers # {} => CrashIsReported)
<1>1. (OneCaller => RuntimeInv) => (OneCaller /\ Callers # {} => CrashIsReported)
    BY DEF RuntimeInv, PointInv, CrashIsReported, Rest, RecoveryRequired, Unclean
<1>2. QED
    BY <1>1, RuntimeInvariant, PTL

\* Without a failed write, what is stored is the state whenever the runtime is
\* at rest after its first save.
THEOREM StoredIsState == Spec => [](OneCaller /\ Callers # {} => StoredAgrees)
<1>1. (OneCaller => RuntimeInv) => (OneCaller /\ Callers # {} => StoredAgrees)
    BY DEF RuntimeInv, PointInv, StoredAgrees, Rest
<1>2. QED
    BY <1>1, RuntimeInvariant, PTL

\* Without a failed write, a stopped runtime at rest refers to no loop, and no
\* loop that outlived its join begins another cycle.
THEOREM StoppedQuietly == Spec => [](OneCaller /\ Callers # {} => StoppedCollectsNothing)
<1>1. (OneCaller => RuntimeInv) => (OneCaller /\ Callers # {} => StoppedCollectsNothing)
    BY DEF RuntimeInv, PointInv, SchedInv, StoppedCollectsNothing, Rest
<1>2. QED
    BY <1>1, RuntimeInvariant, PTL

\* Without a failed write, a runtime its license blocks begins no cycle.
THEOREM BlockedQuietly == Spec => [](OneCaller /\ Callers # {} => BlockedCollectsNothing)
<1>1. (OneCaller => RuntimeInv) => (OneCaller /\ Callers # {} => BlockedCollectsNothing)
  <2> SUFFICES ASSUME OneCaller, RuntimeInv, NEW c \in Callers, blocked, faults = 0
               PROVE  event \/ Live = {}
      BY DEF BlockedCollectsNothing
  <2>1. ~ running /\ rpc[c] \in RuntimePoints
      BY DEF RuntimeInv, RuntimeTypeOK, PointInv
  <2>2. rpc[c] \in Down \cup {"idle"} /\ rpc[c] \notin {"failed", "record"}
      BY <2>1 DEF RuntimeInv, PointInv, RuntimePoints, Down, Up
  <2>3. call[c] = "idle" /\ ref = NoThread
      BY <2>1, <2>2 DEF RuntimeInv, PointInv, Down
  <2>4. QED
      BY <2>3 DEF RuntimeInv, SchedInv
<1>2. QED
    BY <1>1, RuntimeInvariant, PTL

\* A loop thread starts only while the runtime is marked running on an answer
\* of the license check: with one caller, the scheduler is entered nowhere else.
THEOREM LicensedStart == ASSUME OneCaller PROVE Spec => StartsLicensed
<1> DEFINE A == \A l \in Loops : loop[l] = "made" /\ loop'[l] = "started" => running /\ ~ blocked
<1>1. Init => RuntimeInv
    BY InitInv
<1>2. RuntimeInv /\ [Next]_vars => RuntimeInv'
    BY RuntimeStep
<1>3. RuntimeInv /\ [Next]_vars => [A]_vars
  <2> SUFFICES ASSUME RuntimeInv, [Next]_vars, NEW l \in Loops,
                      loop[l] = "made", loop'[l] = "started"
               PROVE  running /\ ~ blocked
      OBVIOUS
  <2>1. PICK c \in Callers : call[c] = "spawn"
    <3>1. loop \in [Loops -> LoopLife]
        BY DEF RuntimeInv, RuntimeTypeOK, SchedTypeOK
    <3>2. Crash \/ [SchedNext]_schedVars
        BY SchedulerStep DEF vars
    <3>3. QED
        BY <3>1, <3>2, SpawnStarts
  <2>2. running /\ ~ blocked
      BY <2>1 DEF RuntimeInv, RuntimeTypeOK, PointInv, RuntimePoints, Up
  <2>3. QED
      BY <2>2
<1>4. QED
    BY <1>1, <1>2, <1>3, PTL DEF Spec, StartsLicensed

\* One caller: what is stored and what collects follow the runtime.
THEOREM RuntimeIsKept == Spec => [](OneCaller /\ Callers # {} => RuntimeKept)
<1>1. /\ OneCaller => RuntimeInv
      /\ OneCaller /\ Callers # {} => CrashIsReported
      /\ OneCaller /\ Callers # {} => StoredAgrees
      /\ OneCaller /\ Callers # {} => StoppedCollectsNothing
      /\ OneCaller /\ Callers # {} => BlockedCollectsNothing
      => (OneCaller /\ Callers # {} => RuntimeKept)
    BY DEF RuntimeKept, RuntimeInv
<1>2. QED
    BY <1>1, RuntimeInvariant, CrashReported, StoredIsState, StoppedQuietly, BlockedQuietly, PTL
-----------------------------------------------------------------------------
(* What holds for any number of callers.                                     *)

\* Where a call that overlaps no other is says what is marked running and what is shown; at
\* rest after it, what is shown is true and stored.
AloneInv(c) ==
  /\ rpc[c] \in Down => ~ running
  /\ rpc[c] \in DOMAIN Showing => state = Showing[rpc[c]]

ShownInv ==
  /\ rpc \in [Callers -> RuntimePoints]
  /\ running \in BOOLEAN
  /\ faults \in Nat
  /\ ~ overlapped =>
       /\ \A c, d \in Callers : rpc[c] # "idle" /\ rpc[d] # "idle" => c = d
       /\ \A c \in Callers : AloneInv(c)
  /\ RunningIsShown

\* Every step of any caller keeps it.
LEMMA ShownStep == ShownInv /\ [Next]_vars => ShownInv'
<1> SUFFICES ASSUME ShownInv, [Next]_vars PROVE ShownInv'
  OBVIOUS
<1> USE DEF ShownInv, AloneInv, RunningIsShown, Rest, RuntimePoints, Step, Down, Showing
<1>1. ASSUME NEW c \in Callers, RuntimeStart(c) PROVE ShownInv'
  BY <1>1 DEF RuntimeStart, Begins, memory, world
<1>2. ASSUME NEW c \in Callers, ShowBooting(c) PROVE ShownInv'
  BY <1>2 DEF ShowBooting, Show, memory, world
<1>3. ASSUME NEW c \in Callers, SaveBooting(c) PROVE ShownInv'
  BY <1>3 DEF SaveBooting, memory, world, Save, SaveFails, Fault
<1>4. ASSUME NEW c \in Callers, Restore(c) PROVE ShownInv'
  BY <1>4 DEF Restore, memory, world
<1>5. ASSUME NEW c \in Callers, Restored(c) PROVE ShownInv'
  BY <1>5 DEF Restored, memory, world, Save, SaveFails, Fault
<1>6. ASSUME NEW c \in Callers, CheckLicense(c) PROVE ShownInv'
  BY <1>6 DEF CheckLicense, memory, world, Save, SaveFails, Fault
<1>7. ASSUME NEW c \in Callers, SetBlocked(c) PROVE ShownInv'
  BY <1>7 DEF SetBlocked, memory, world
<1>8. ASSUME NEW c \in Callers, ShowExpired(c) PROVE ShownInv'
  BY <1>8 DEF ShowExpired, Show, memory, world
<1>9. ASSUME NEW c \in Callers, SaveBlocked(c) PROVE ShownInv'
  BY <1>9 DEF SaveBlocked, memory, world, Save, SaveFails, Fault, Returns
<1>10. ASSUME NEW c \in Callers, MarkRunning(c) PROVE ShownInv'
  BY <1>10 DEF MarkRunning, Mark, memory, world
<1>11. ASSUME NEW c \in Callers, EnterScheduler(c) PROVE ShownInv'
  BY <1>11 DEF EnterScheduler, memory, world
<1>12. ASSUME NEW c \in Callers, SchedulerStarted(c) PROVE ShownInv'
  BY <1>12 DEF SchedulerStarted, memory, world
<1>13. ASSUME NEW c \in Callers, ShowRunning(c) PROVE ShownInv'
  BY <1>13 DEF ShowRunning, Show, memory, world
<1>14. ASSUME NEW c \in Callers, SaveRunning(c) PROVE ShownInv'
  BY <1>14 DEF SaveRunning, memory, world, Save, SaveFails, Fault
<1>15. ASSUME NEW c \in Callers, StartFails(c) PROVE ShownInv'
  BY <1>15 DEF StartFails, Mark, memory, world
<1>16. ASSUME NEW c \in Callers, ShowFailed(c) PROVE ShownInv'
  BY <1>16 DEF ShowFailed, Show, memory, world
<1>17. ASSUME NEW c \in Callers, SaveFailed(c) PROVE ShownInv'
  BY <1>17 DEF SaveFailed, memory, world, Save, SaveFails, Fault
<1>18. ASSUME NEW c \in Callers, RuntimeStop(c) PROVE ShownInv'
  <2>1. CASE ~ running /\ Begins(c, "stopped")
    BY <2>1 DEF Begins, memory
  <2>2. CASE running /\ Begins(c, "stop")
    BY <2>2 DEF Begins, memory
  <2>3. QED
    BY <1>18, <2>1, <2>2 DEF RuntimeStop
<1>19. ASSUME NEW c \in Callers, ShowStopping(c) PROVE ShownInv'
  BY <1>19 DEF ShowStopping, Show, memory, world
<1>20. ASSUME NEW c \in Callers, SaveStopping(c) PROVE ShownInv'
  BY <1>20 DEF SaveStopping, memory, world, Save, SaveFails, Fault
<1>21. ASSUME NEW c \in Callers, EnterStop(c) PROVE ShownInv'
  BY <1>21 DEF EnterStop, memory, world
<1>22. ASSUME NEW c \in Callers, SchedulerStopped(c) PROVE ShownInv'
  BY <1>22 DEF SchedulerStopped, Mark, memory, world, Ended
<1>23. ASSUME NEW c \in Callers, ShowStopped(c) PROVE ShownInv'
  BY <1>23 DEF ShowStopped, Show, memory, world
<1>24. ASSUME NEW c \in Callers, SaveStopped(c) PROVE ShownInv'
  BY <1>24 DEF SaveStopped, memory, world, Save, SaveFails, Fault, LastState
<1>25. CASE Crash
  BY <1>25 DEF Crash
<1>26. CASE Background \/ LicenseChanges \/ UNCHANGED vars
  BY <1>26 DEF Background, LicenseChanges, vars, runtimeVars, memory
<1>27. QED
  BY <1>1, <1>2, <1>3, <1>4, <1>5, <1>6, <1>7, <1>8, <1>9, <1>10, <1>11, <1>12, <1>13, <1>14,
     <1>15, <1>16, <1>17, <1>18, <1>19, <1>20, <1>21, <1>22, <1>23, <1>24, <1>25, <1>26
  DEF Next, StartingStep, StoppingStep

\* However many callers start and stop it, whatever writes fail and whenever it crashes: after a
\* call that overlapped no other, a runtime at rest that is marked running does not say that it
\* stopped or failed, and what it says is stored unless a write failed.
THEOREM RunningAlwaysShown == Spec => []RunningIsShown
<1>1. Init => ShownInv
  <2> SUFFICES ASSUME Init PROVE ShownInv
    OBVIOUS
  <2>1. /\ rpc \in [Callers -> RuntimePoints] /\ \A c \in Callers : rpc[c] = "idle"
        /\ running = FALSE /\ saved = FALSE /\ faults = 0
    BY DEF Init, RuntimeInit, RuntimePoints
  <2>2. \A c \in Callers : AloneInv(c)
    BY <2>1 DEF AloneInv, Down, Showing
  <2>3. QED
    BY <2>1, <2>2 DEF ShownInv, RunningIsShown
<1>2. ShownInv /\ [Next]_vars => ShownInv'
  BY ShownStep
<1>3. ShownInv => RunningIsShown
  BY DEF ShownInv
<1>4. QED
  BY <1>1, <1>2, <1>3, PTL DEF Spec
=============================================================================
