--------------------------- MODULE AgentRunsProofs ---------------------------
(***************************************************************************)
(* Theorems about AgentRuns for any number of workers, runs, users and     *)
(* paths, any plan and any limits.  The safety properties follow from the  *)
(* inductive invariant IInv; TLC checks IInv on the instance AgentFaults.  *)
(***************************************************************************)
EXTENDS AgentRuns, FiniteSetTheorems, TLAPS

-----------------------------------------------------------------------------
(* The inductive invariant.                                                *)

\* Every step of every worker and every fault keeps the types.
LEMMA TypeStep == TypeOK /\ [Next]_vars => TypeOK'
<1> USE DEF Places, Writes, InTry, Statuses, Terminal, StepStates, Events, Goto, Return,
            Serve, At, dbVars, fsVars, TypeOK,
            RunStatus, FirstStepStatus, AfterCancel, Gated, AfterStart,
            Free, AfterExists, AfterWriteError, StatusOnFailure
<1> SUFFICES ASSUME TypeOK, [Next]_vars PROVE TypeOK'
    OBVIOUS
<1>1. ASSUME NEW t \in Threads, NEW r \in Runs, CreateCheck(t, r) PROVE TypeOK'
    BY <1>1, RunsAssumption, PlanAssumption DEF CreateCheck
<1>2. ASSUME NEW t \in Threads, NEW r \in Runs, ApproveCheck(t, r) PROVE TypeOK'
    BY <1>2, RunsAssumption, PlanAssumption DEF ApproveCheck
<1>3. ASSUME NEW t \in Threads, NEW r \in Runs, CancelCheck(t, r) PROVE TypeOK'
    BY <1>3, RunsAssumption, PlanAssumption DEF CancelCheck
<1>4. ASSUME NEW t \in Threads, NEW r \in Runs, ExecuteCheck(t, r) PROVE TypeOK'
    BY <1>4, RunsAssumption, PlanAssumption DEF ExecuteCheck
<1>5. ASSUME NEW t \in Threads, CreateInsert(t) PROVE TypeOK'
    BY <1>5, RunsAssumption, PlanAssumption, BoundsAssumption DEF CreateInsert
<1>6. ASSUME NEW t \in Threads, ApproveUpdate(t) PROVE TypeOK'
    BY <1>6, RunsAssumption, PlanAssumption, BoundsAssumption DEF ApproveUpdate
<1>7. ASSUME NEW t \in Threads, CancelUpdate(t) PROVE TypeOK'
    BY <1>7, RunsAssumption, PlanAssumption, BoundsAssumption DEF CancelUpdate
<1>8. ASSUME NEW t \in Threads, CancelClear(t) PROVE TypeOK'
    BY <1>8, RunsAssumption, PlanAssumption, BoundsAssumption DEF CancelClear
<1>9. ASSUME NEW t \in Threads, ExecuteStart(t) PROVE TypeOK'
    BY <1>9, RunsAssumption, PlanAssumption, BoundsAssumption DEF ExecuteStart
<1>10. ASSUME NEW t \in Threads, LoopCheck(t) PROVE TypeOK'
    BY <1>10, RunsAssumption, PlanAssumption, BoundsAssumption DEF LoopCheck, CancelSeen
<1>11. ASSUME NEW t \in Threads, CancelSteps(t) PROVE TypeOK'
    BY <1>11, RunsAssumption, PlanAssumption, BoundsAssumption DEF CancelSteps
<1>12. ASSUME NEW t \in Threads, BeginStep(t) PROVE TypeOK'
    BY <1>12, RunsAssumption, PlanAssumption, BoundsAssumption DEF BeginStep
<1>13. ASSUME NEW t \in Threads, TakeArguments(t) PROVE TypeOK'
    BY <1>13, RunsAssumption, PlanAssumption, BoundsAssumption DEF TakeArguments
<1>14. ASSUME NEW t \in Threads, ToolCheck(t) PROVE TypeOK'
    BY <1>14, RunsAssumption, PlanAssumption, BoundsAssumption DEF ToolCheck
<1>15. ASSUME NEW t \in Threads, ToolCreate(t) PROVE TypeOK'
    BY <1>15, RunsAssumption, PlanAssumption, BoundsAssumption DEF ToolCreate
<1>16. ASSUME NEW t \in Threads, ToolFill(t) PROVE TypeOK'
    BY <1>16, RunsAssumption, PlanAssumption, BoundsAssumption DEF ToolFill
<1>17. ASSUME NEW t \in Threads, Verify(t) PROVE TypeOK'
    BY <1>17, RunsAssumption, PlanAssumption, BoundsAssumption DEF Verify
<1>18. ASSUME NEW t \in Threads, CompleteStep(t) PROVE TypeOK'
    BY <1>18, RunsAssumption, PlanAssumption, BoundsAssumption DEF CompleteStep
<1>19. ASSUME NEW t \in Threads, PopArguments(t) PROVE TypeOK'
    BY <1>19, RunsAssumption, PlanAssumption, BoundsAssumption DEF PopArguments
<1>20. ASSUME NEW t \in Threads, FinishCheck(t) PROVE TypeOK'
    BY <1>20, RunsAssumption, PlanAssumption, BoundsAssumption DEF FinishCheck
<1>21. ASSUME NEW t \in Threads, FinishUpdate(t) PROVE TypeOK'
    BY <1>21, RunsAssumption, PlanAssumption, BoundsAssumption DEF FinishUpdate
<1>22. ASSUME NEW t \in Threads, FailStep(t) PROVE TypeOK'
    BY <1>22, RunsAssumption, PlanAssumption, BoundsAssumption DEF FailStep
<1>23. ASSUME NEW t \in Threads, FailRun(t) PROVE TypeOK'
    BY <1>23, RunsAssumption, PlanAssumption, BoundsAssumption DEF FailRun
<1>24. ASSUME NEW t \in Threads, Clear(t) PROVE TypeOK'
    BY <1>24, RunsAssumption, PlanAssumption, BoundsAssumption DEF Clear
<1>25. ASSUME NEW t \in Threads, Log(t) PROVE TypeOK'
    BY <1>25, RunsAssumption, PlanAssumption, BoundsAssumption DEF Log, LogAs, LogLast
<1>26. ASSUME NEW t \in Threads, DatabaseBusy(t) PROVE TypeOK'
    BY <1>26, RunsAssumption, PlanAssumption, BoundsAssumption DEF DatabaseBusy, Raised, Fault,
       Abandon
<1>27. ASSUME NEW t \in Threads, ClearRaises(t) PROVE TypeOK'
    BY <1>27, RunsAssumption, PlanAssumption, BoundsAssumption DEF ClearRaises, Raised, Fault,
       Abandon
<1>28. ASSUME Crash PROVE TypeOK'
    BY <1>28, RunsAssumption, BoundsAssumption DEF Crash, Fault
<1>29. CASE UNCHANGED vars
    BY <1>29 DEF vars
<1> QED
    BY <1>1, <1>2, <1>3, <1>4, <1>5, <1>6, <1>7, <1>8, <1>9, <1>10, <1>11, <1>12, <1>13,
       <1>14, <1>15, <1>16, <1>17, <1>18, <1>19, <1>20, <1>21, <1>22, <1>23, <1>24,
       <1>25, <1>26, <1>27, <1>28, <1>29 DEF Next, Request, Step

\* Every step keeps the facts about requests in service, effects and audit.
LEMMA InvStep == IInv /\ TypeOK' /\ [Next]_vars => IInv'
<1> USE DEF Places, Writes, InTry, Terminal, BeforeEffect, ExecutePlaces, Verified, Goto,
            Return, Serve, At, dbVars, fsVars, TypeOK, IInv, InsertInv, StoredInv,
            ApprovedInv, LoggedInv, WorkInv, CreatorInv, CompletedInv, Effect,
            RunStatus, FirstStepStatus, AfterCancel, Gated, AfterStart,
            Free, AfterExists, AfterWriteError, StatusOnFailure
<1> SUFFICES ASSUME IInv, TypeOK', [Next]_vars PROVE IInv'
    OBVIOUS
<1>1. ASSUME NEW t \in Threads, NEW r \in Runs, CreateCheck(t, r) PROVE IInv'
    BY <1>1, RunsAssumption, PlanAssumption DEF CreateCheck, Fresh
<1>2. ASSUME NEW t \in Threads, NEW r \in Runs, ApproveCheck(t, r) PROVE IInv'
    BY <1>2, RunsAssumption, PlanAssumption DEF ApproveCheck
<1>3. ASSUME NEW t \in Threads, NEW r \in Runs, CancelCheck(t, r) PROVE IInv'
    BY <1>3, RunsAssumption, PlanAssumption DEF CancelCheck
<1>4. ASSUME NEW t \in Threads, NEW r \in Runs, ExecuteCheck(t, r) PROVE IInv'
    BY <1>4, RunsAssumption, PlanAssumption DEF ExecuteCheck
<1>5. ASSUME NEW t \in Threads, CreateInsert(t) PROVE IInv'
    BY <1>5, RunsAssumption, PlanAssumption, BoundsAssumption DEF CreateInsert
<1>6. ASSUME NEW t \in Threads, ApproveUpdate(t) PROVE IInv'
    BY <1>6, RunsAssumption, PlanAssumption, BoundsAssumption DEF ApproveUpdate
<1>7. ASSUME NEW t \in Threads, CancelUpdate(t) PROVE IInv'
    BY <1>7, RunsAssumption, PlanAssumption, BoundsAssumption DEF CancelUpdate
<1>8. ASSUME NEW t \in Threads, CancelClear(t) PROVE IInv'
    BY <1>8, RunsAssumption, PlanAssumption, BoundsAssumption DEF CancelClear
<1>9. ASSUME NEW t \in Threads, ExecuteStart(t) PROVE IInv'
    BY <1>9, RunsAssumption, PlanAssumption, BoundsAssumption DEF ExecuteStart
<1>10. ASSUME NEW t \in Threads, LoopCheck(t) PROVE IInv'
    BY <1>10, RunsAssumption, PlanAssumption, BoundsAssumption DEF LoopCheck, CancelSeen
<1>11. ASSUME NEW t \in Threads, CancelSteps(t) PROVE IInv'
    BY <1>11, RunsAssumption, PlanAssumption, BoundsAssumption DEF CancelSteps
<1>12. ASSUME NEW t \in Threads, BeginStep(t) PROVE IInv'
    BY <1>12, RunsAssumption, PlanAssumption, BoundsAssumption DEF BeginStep
<1>13. ASSUME NEW t \in Threads, TakeArguments(t) PROVE IInv'
    BY <1>13, RunsAssumption, PlanAssumption, BoundsAssumption DEF TakeArguments
<1>14. ASSUME NEW t \in Threads, ToolCheck(t) PROVE IInv'
    BY <1>14, RunsAssumption, PlanAssumption, BoundsAssumption DEF ToolCheck
<1>15. ASSUME NEW t \in Threads, ToolCreate(t) PROVE IInv'
    <2> DEFINE r == req[t]
    <2> DEFINE x == Target[r]
    <2>1. r \in Runs /\ x \in Targets /\ Mutates(r)
        BY <1>15, PlanAssumption DEF ToolCreate
    <2>2. CASE creator[x] # NoRun
        BY <1>15, <2>1, <2>2 DEF ToolCreate
    <2>3. CASE creator[x] = NoRun
        <3>1. /\ creator' = [creator EXCEPT ![x] = r]
              /\ pc' = [pc EXCEPT ![t] = IF Kind[r] = "mkdir" THEN "verify" ELSE "fill"]
              /\ whole' = IF Kind[r] = "mkdir" THEN whole \cup {x} ELSE whole
              /\ UNCHANGED <<dbVars, audit, pending, req, faults>>
            BY <1>15, <2>3 DEF ToolCreate
        <3>2. InsertInv' /\ StoredInv' /\ ApprovedInv' /\ LoggedInv'
            BY <1>15, <2>1, <3>1 DEF ToolCreate
        <3>3. WorkInv'
            BY <1>15, <2>1, <2>3, <3>1, RunsAssumption DEF ToolCreate
        <3>4. CreatorInv'
            BY <1>15, <2>1, <2>3, <3>1, RunsAssumption DEF ToolCreate
        <3>5. CompletedInv'
            BY <1>15, <2>1, <2>3, <3>1, RunsAssumption DEF ToolCreate
        <3> QED
            BY <3>2, <3>3, <3>4, <3>5
    <2> QED
        BY <2>2, <2>3
<1>16. ASSUME NEW t \in Threads, ToolFill(t) PROVE IInv'
    BY <1>16, RunsAssumption, PlanAssumption, BoundsAssumption DEF ToolFill
<1>17. ASSUME NEW t \in Threads, Verify(t) PROVE IInv'
    BY <1>17, SMTT(60), RunsAssumption, PlanAssumption, BoundsAssumption DEF Verify
<1>18. ASSUME NEW t \in Threads, CompleteStep(t) PROVE IInv'
    BY <1>18, RunsAssumption, PlanAssumption, BoundsAssumption DEF CompleteStep
<1>19. ASSUME NEW t \in Threads, PopArguments(t) PROVE IInv'
    BY <1>19, RunsAssumption, PlanAssumption, BoundsAssumption DEF PopArguments
<1>20. ASSUME NEW t \in Threads, FinishCheck(t) PROVE IInv'
    BY <1>20, SMTT(60), RunsAssumption, PlanAssumption, BoundsAssumption DEF FinishCheck
<1>21. ASSUME NEW t \in Threads, FinishUpdate(t) PROVE IInv'
    BY <1>21, RunsAssumption, PlanAssumption, BoundsAssumption DEF FinishUpdate
<1>22. ASSUME NEW t \in Threads, FailStep(t) PROVE IInv'
    BY <1>22, RunsAssumption, PlanAssumption, BoundsAssumption DEF FailStep
<1>23. ASSUME NEW t \in Threads, FailRun(t) PROVE IInv'
    BY <1>23, RunsAssumption, PlanAssumption, BoundsAssumption DEF FailRun
<1>24. ASSUME NEW t \in Threads, Clear(t) PROVE IInv'
    BY <1>24, RunsAssumption, PlanAssumption, BoundsAssumption DEF Clear
<1>25. ASSUME NEW t \in Threads, Log(t) PROVE IInv'
    BY <1>25, RunsAssumption, PlanAssumption, BoundsAssumption DEF Log, LogAs, LogLast
<1>26. ASSUME NEW t \in Threads, DatabaseBusy(t) PROVE IInv'
    BY <1>26, RunsAssumption, PlanAssumption, BoundsAssumption DEF DatabaseBusy, Raised, Fault,
       Abandon
<1>27. ASSUME NEW t \in Threads, ClearRaises(t) PROVE IInv'
    BY <1>27, RunsAssumption, PlanAssumption, BoundsAssumption DEF ClearRaises, Raised, Fault,
       Abandon
<1>28. ASSUME Crash PROVE IInv'
    BY <1>28, RunsAssumption, BoundsAssumption DEF Crash, Fault
<1>29. CASE UNCHANGED vars
    BY <1>29 DEF vars
<1> QED
    BY <1>1, <1>2, <1>3, <1>4, <1>5, <1>6, <1>7, <1>8, <1>9, <1>10, <1>11, <1>12, <1>13,
       <1>14, <1>15, <1>16, <1>17, <1>18, <1>19, <1>20, <1>21, <1>22, <1>23, <1>24,
       <1>25, <1>26, <1>27, <1>28, <1>29 DEF Next, Request, Step

LEMMA InvInit == Init => IInv
BY RunsAssumption, PlanAssumption, BoundsAssumption
   DEF Init, IInv, TypeOK, Places, Statuses, Terminal, StepStates, Events, InsertInv,
       StoredInv, ApprovedInv, LoggedInv, WorkInv, CreatorInv, CompletedInv, At,
       BeforeEffect, ExecutePlaces, InTry, Verified, Effect

\* The inductive invariant holds in every reachable state.
THEOREM Invariance == Spec => []IInv
<1>1. IInv /\ [Next]_vars => IInv'
    BY TypeStep, InvStep DEF IInv
<1> QED
    BY InvInit, <1>1, PTL DEF Spec

\* Every row, table and worker keeps the values its declaration allows.
THEOREM TypeCorrect == Spec => []TypeOK
<1>1. IInv => TypeOK
    BY DEF IInv
<1> QED
    BY Invariance, <1>1, PTL

-----------------------------------------------------------------------------
(* Effects, approval and audit.                                            *)

\* Whatever a run created, its approval had been given (or none is needed).
THEOREM ApprovalGate == Spec => []EffectApproved
<1>1. IInv => EffectApproved
    BY RunsAssumption, PlanAssumption DEF IInv, CreatorInv, EffectApproved, Effect
<1> QED
    BY Invariance, <1>1, PTL

\* Whatever a run created, its start and the start of its step are audited.
THEOREM AuditAhead == Spec => []EffectLogged
<1>1. IInv => EffectLogged
    BY RunsAssumption, PlanAssumption DEF IInv, CreatorInv, EffectLogged, Effect
<1> QED
    BY Invariance, <1>1, PTL

\* Approval and audit precede every effect.
THEOREM EffectsAreGoverned == Spec => []EffectsGoverned
<1>1. EffectApproved /\ EffectLogged => EffectsGoverned
    BY DEF EffectsGoverned
<1> QED
    BY ApprovalGate, AuditAhead, <1>1, PTL

\* A run with status completed has created its whole target.
THEOREM CompletionTruthful == Spec => []CompletedHasEffect
<1>1. IInv => CompletedHasEffect
    BY DEF IInv, CompletedInv, CompletedHasEffect
<1> QED
    BY Invariance, <1>1, PTL

\* No step overwrites, removes or takes over what a run created.
THEOREM CreationIsFinal == Spec => CreateOnly
<1>1. IInv /\ [Next]_vars =>
        [\A x \in Targets : /\ creator[x] # NoRun => creator'[x] = creator[x]
                            /\ x \in whole => x \in whole']_vars
    <2> SUFFICES ASSUME IInv, [Next]_vars, NEW x \in Targets
                 PROVE /\ creator[x] # NoRun => creator'[x] = creator[x]
                       /\ x \in whole => x \in whole'
        OBVIOUS
    <2>1. creator \in [Targets -> Runs \cup {NoRun}]
        BY DEF IInv, TypeOK
    <2>2. CASE UNCHANGED fsVars
        BY <2>2 DEF fsVars
    <2>3. ASSUME NEW t \in Threads, ToolCreate(t) \/ ToolFill(t)
          PROVE /\ creator[x] # NoRun => creator'[x] = creator[x]
                /\ x \in whole => x \in whole'
        BY <2>1, <2>3 DEF ToolCreate, ToolFill, Free, fsVars
    <2>4. ASSUME NEW t \in Threads, NEW r \in Runs, Request(t, r) PROVE UNCHANGED fsVars
        BY <2>4 DEF Request, CreateCheck, ApproveCheck, CancelCheck, ExecuteCheck
    <2>5. ASSUME NEW t \in Threads, Step(t), ~ToolCreate(t), ~ToolFill(t)
          PROVE  UNCHANGED fsVars
        BY <2>5 DEF Step, CreateInsert, ApproveUpdate, CancelUpdate, CancelClear,
               ExecuteStart, LoopCheck, CancelSteps, BeginStep, TakeArguments, ToolCheck,
               Verify, CompleteStep, PopArguments, FinishCheck, FinishUpdate, FailStep,
               FailRun, Clear, Log, LogAs, LogLast
    <2>6. ASSUME NEW t \in Threads, DatabaseBusy(t) \/ ClearRaises(t)
          PROVE  UNCHANGED fsVars
        BY <2>6 DEF DatabaseBusy, ClearRaises
    <2>7. CASE UNCHANGED vars
        BY <2>2, <2>7 DEF vars
    <2>8. CASE Crash
        BY <2>2, <2>8 DEF Crash
    <2> QED
        BY <2>2, <2>3, <2>4, <2>5, <2>6, <2>7, <2>8 DEF Next
<1> QED
    BY Invariance, <1>1, PTL DEF Spec, CreateOnly

-----------------------------------------------------------------------------
(* Cancellation and the table of pending arguments.                        *)

\* A cancelled run that no worker is working on is never worked on again.
LEMMA CancelStep ==
    ASSUME TypeOK, [Next]_vars, NEW q \in Runs, q \in cancelRequested, Holding(q) = {}
    PROVE  Holding(q)' = {}
<1> USE DEF BeforeEffect, Goto, Return, Serve, At, dbVars, TypeOK,
            RunStatus, FirstStepStatus, AfterCancel, Gated, AfterStart,
            Free, AfterExists, AfterWriteError, StatusOnFailure
<1>0. /\ \A u \in Threads : req[u] = q => pc[u] \notin BeforeEffect
      /\ (\A u \in Threads : req'[u] = q => pc'[u] \notin BeforeEffect) => Holding(q)' = {}
    BY DEF Holding
<1>1. ASSUME NEW t \in Threads, NEW r \in Runs, CreateCheck(t, r) PROVE Holding(q)' = {}
    BY <1>1, <1>0 DEF CreateCheck
<1>2. ASSUME NEW t \in Threads, NEW r \in Runs, ApproveCheck(t, r) PROVE Holding(q)' = {}
    BY <1>2, <1>0 DEF ApproveCheck
<1>3. ASSUME NEW t \in Threads, NEW r \in Runs, CancelCheck(t, r) PROVE Holding(q)' = {}
    BY <1>3, <1>0 DEF CancelCheck
<1>4. ASSUME NEW t \in Threads, NEW r \in Runs, ExecuteCheck(t, r) PROVE Holding(q)' = {}
    BY <1>4, <1>0 DEF ExecuteCheck
<1>5. ASSUME NEW t \in Threads, CreateInsert(t) PROVE Holding(q)' = {}
    BY <1>5, <1>0 DEF CreateInsert
<1>6. ASSUME NEW t \in Threads, ApproveUpdate(t) PROVE Holding(q)' = {}
    BY <1>6, <1>0 DEF ApproveUpdate
<1>7. ASSUME NEW t \in Threads, CancelUpdate(t) PROVE Holding(q)' = {}
    BY <1>7, <1>0 DEF CancelUpdate
<1>8. ASSUME NEW t \in Threads, CancelClear(t) PROVE Holding(q)' = {}
    BY <1>8, <1>0 DEF CancelClear
<1>9. ASSUME NEW t \in Threads, ExecuteStart(t) PROVE Holding(q)' = {}
    BY <1>9, <1>0 DEF ExecuteStart
<1>10. ASSUME NEW t \in Threads, LoopCheck(t) PROVE Holding(q)' = {}
    BY <1>10, <1>0 DEF LoopCheck, CancelSeen
<1>11. ASSUME NEW t \in Threads, CancelSteps(t) PROVE Holding(q)' = {}
    BY <1>11, <1>0 DEF CancelSteps
<1>12. ASSUME NEW t \in Threads, BeginStep(t) PROVE Holding(q)' = {}
    BY <1>12, <1>0 DEF BeginStep
<1>13. ASSUME NEW t \in Threads, TakeArguments(t) PROVE Holding(q)' = {}
    BY <1>13, <1>0 DEF TakeArguments
<1>14. ASSUME NEW t \in Threads, ToolCheck(t) PROVE Holding(q)' = {}
    BY <1>14, <1>0 DEF ToolCheck
<1>15. ASSUME NEW t \in Threads, ToolCreate(t) PROVE Holding(q)' = {}
    BY <1>15, <1>0 DEF ToolCreate
<1>16. ASSUME NEW t \in Threads, ToolFill(t) PROVE Holding(q)' = {}
    BY <1>16, <1>0 DEF ToolFill
<1>17. ASSUME NEW t \in Threads, Verify(t) PROVE Holding(q)' = {}
    BY <1>17, <1>0 DEF Verify
<1>18. ASSUME NEW t \in Threads, CompleteStep(t) PROVE Holding(q)' = {}
    BY <1>18, <1>0 DEF CompleteStep
<1>19. ASSUME NEW t \in Threads, PopArguments(t) PROVE Holding(q)' = {}
    BY <1>19, <1>0 DEF PopArguments
<1>20. ASSUME NEW t \in Threads, FinishCheck(t) PROVE Holding(q)' = {}
    BY <1>20, <1>0 DEF FinishCheck
<1>21. ASSUME NEW t \in Threads, FinishUpdate(t) PROVE Holding(q)' = {}
    BY <1>21, <1>0 DEF FinishUpdate
<1>22. ASSUME NEW t \in Threads, FailStep(t) PROVE Holding(q)' = {}
    BY <1>22, <1>0 DEF FailStep
<1>23. ASSUME NEW t \in Threads, FailRun(t) PROVE Holding(q)' = {}
    BY <1>23, <1>0 DEF FailRun
<1>24. ASSUME NEW t \in Threads, Clear(t) PROVE Holding(q)' = {}
    BY <1>24, <1>0 DEF Clear
<1>25. ASSUME NEW t \in Threads, Log(t) PROVE Holding(q)' = {}
    BY <1>25, <1>0 DEF Log, LogAs, LogLast
<1>26. ASSUME NEW t \in Threads, DatabaseBusy(t) PROVE Holding(q)' = {}
    BY <1>26, <1>0 DEF DatabaseBusy, Raised, Fault, Abandon
<1>27. ASSUME NEW t \in Threads, ClearRaises(t) PROVE Holding(q)' = {}
    BY <1>27, <1>0 DEF ClearRaises, Raised, Fault, Abandon
<1>28. ASSUME Crash PROVE Holding(q)' = {}
    BY <1>28, <1>0 DEF Crash, Fault
<1>29. CASE UNCHANGED vars
    BY <1>29, <1>0 DEF vars
<1> QED
    BY <1>1, <1>2, <1>3, <1>4, <1>5, <1>6, <1>7, <1>8, <1>9, <1>10, <1>11, <1>12, <1>13,
       <1>14, <1>15, <1>16, <1>17, <1>18, <1>19, <1>20, <1>21, <1>22, <1>23, <1>24,
       <1>25, <1>26, <1>27, <1>28, <1>29 DEF Next, Request, Step

THEOREM CancellationHolds == Spec => CancelStopsSteps
<1>1. TypeOK /\ [Next]_vars =>
        [\A r \in Runs : r \in cancelRequested /\ Holding(r) = {} => Holding(r)' = {}]_vars
    BY CancelStep
<1> QED
    BY TypeCorrect, <1>1, PTL DEF Spec, CancelStopsSteps

\* Entries of finished runs have a worker about to drop them, unless a fault
\* took the worker away.
LEMMA PendingStep == TypeOK /\ PendingInv /\ [Next]_vars => PendingInv'
<1> USE DEF ClearPlaces, Terminal, Goto, Return, Serve, At, dbVars, TypeOK, PendingInv,
            RunStatus, FirstStepStatus, AfterCancel, Gated, AfterStart,
            Free, AfterExists, AfterWriteError, StatusOnFailure
<1> SUFFICES ASSUME TypeOK, PendingInv, [Next]_vars PROVE PendingInv'
    OBVIOUS
<1>1. ASSUME NEW t \in Threads, NEW r \in Runs, CreateCheck(t, r) PROVE PendingInv'
    BY <1>1, RunsAssumption, PlanAssumption, BoundsAssumption DEF CreateCheck
<1>2. ASSUME NEW t \in Threads, NEW r \in Runs, ApproveCheck(t, r) PROVE PendingInv'
    BY <1>2, RunsAssumption, PlanAssumption, BoundsAssumption DEF ApproveCheck
<1>3. ASSUME NEW t \in Threads, NEW r \in Runs, CancelCheck(t, r) PROVE PendingInv'
    BY <1>3, RunsAssumption, PlanAssumption, BoundsAssumption DEF CancelCheck
<1>4. ASSUME NEW t \in Threads, NEW r \in Runs, ExecuteCheck(t, r) PROVE PendingInv'
    BY <1>4, RunsAssumption, PlanAssumption, BoundsAssumption DEF ExecuteCheck
<1>5. ASSUME NEW t \in Threads, CreateInsert(t) PROVE PendingInv'
    BY <1>5, RunsAssumption, PlanAssumption, BoundsAssumption DEF CreateInsert
<1>6. ASSUME NEW t \in Threads, ApproveUpdate(t) PROVE PendingInv'
    BY <1>6, RunsAssumption, PlanAssumption, BoundsAssumption DEF ApproveUpdate
<1>7. ASSUME NEW t \in Threads, CancelUpdate(t) PROVE PendingInv'
    BY <1>7, RunsAssumption, PlanAssumption, BoundsAssumption DEF CancelUpdate
<1>8. ASSUME NEW t \in Threads, CancelClear(t) PROVE PendingInv'
    BY <1>8, RunsAssumption, PlanAssumption, BoundsAssumption DEF CancelClear
<1>9. ASSUME NEW t \in Threads, ExecuteStart(t) PROVE PendingInv'
    BY <1>9, RunsAssumption, PlanAssumption, BoundsAssumption DEF ExecuteStart
<1>10. ASSUME NEW t \in Threads, LoopCheck(t) PROVE PendingInv'
    BY <1>10, RunsAssumption, PlanAssumption, BoundsAssumption DEF LoopCheck, CancelSeen
<1>11. ASSUME NEW t \in Threads, CancelSteps(t) PROVE PendingInv'
    BY <1>11, RunsAssumption, PlanAssumption, BoundsAssumption DEF CancelSteps
<1>12. ASSUME NEW t \in Threads, BeginStep(t) PROVE PendingInv'
    BY <1>12, RunsAssumption, PlanAssumption, BoundsAssumption DEF BeginStep
<1>13. ASSUME NEW t \in Threads, TakeArguments(t) PROVE PendingInv'
    BY <1>13, RunsAssumption, PlanAssumption, BoundsAssumption DEF TakeArguments
<1>14. ASSUME NEW t \in Threads, ToolCheck(t) PROVE PendingInv'
    BY <1>14, RunsAssumption, PlanAssumption, BoundsAssumption DEF ToolCheck
<1>15. ASSUME NEW t \in Threads, ToolCreate(t) PROVE PendingInv'
    BY <1>15, RunsAssumption, PlanAssumption, BoundsAssumption DEF ToolCreate
<1>16. ASSUME NEW t \in Threads, ToolFill(t) PROVE PendingInv'
    BY <1>16, RunsAssumption, PlanAssumption, BoundsAssumption DEF ToolFill
<1>17. ASSUME NEW t \in Threads, Verify(t) PROVE PendingInv'
    BY <1>17, RunsAssumption, PlanAssumption, BoundsAssumption DEF Verify
<1>18. ASSUME NEW t \in Threads, CompleteStep(t) PROVE PendingInv'
    BY <1>18, RunsAssumption, PlanAssumption, BoundsAssumption DEF CompleteStep
<1>19. ASSUME NEW t \in Threads, PopArguments(t) PROVE PendingInv'
    BY <1>19, RunsAssumption, PlanAssumption, BoundsAssumption DEF PopArguments
<1>20. ASSUME NEW t \in Threads, FinishCheck(t) PROVE PendingInv'
    BY <1>20, RunsAssumption, PlanAssumption, BoundsAssumption DEF FinishCheck
<1>21. ASSUME NEW t \in Threads, FinishUpdate(t) PROVE PendingInv'
    BY <1>21, RunsAssumption, PlanAssumption, BoundsAssumption DEF FinishUpdate
<1>22. ASSUME NEW t \in Threads, FailStep(t) PROVE PendingInv'
    BY <1>22, RunsAssumption, PlanAssumption, BoundsAssumption DEF FailStep
<1>23. ASSUME NEW t \in Threads, FailRun(t) PROVE PendingInv'
    BY <1>23, RunsAssumption, PlanAssumption, BoundsAssumption DEF FailRun
<1>24. ASSUME NEW t \in Threads, Clear(t) PROVE PendingInv'
    BY <1>24, RunsAssumption, PlanAssumption, BoundsAssumption DEF Clear
<1>25. ASSUME NEW t \in Threads, Log(t) PROVE PendingInv'
    BY <1>25, RunsAssumption, PlanAssumption, BoundsAssumption DEF Log, LogAs, LogLast
<1>26. ASSUME NEW t \in Threads, DatabaseBusy(t) PROVE PendingInv'
    BY <1>26, RunsAssumption, PlanAssumption, BoundsAssumption DEF DatabaseBusy, Raised, Fault,
       Abandon
<1>27. ASSUME NEW t \in Threads, ClearRaises(t) PROVE PendingInv'
    BY <1>27, RunsAssumption, PlanAssumption, BoundsAssumption DEF ClearRaises, Raised, Fault,
       Abandon
<1>28. ASSUME Crash PROVE PendingInv'
    BY <1>28, RunsAssumption, PlanAssumption, BoundsAssumption DEF Crash, Fault
<1>29. CASE UNCHANGED vars
    BY <1>29 DEF vars
<1> QED
    BY <1>1, <1>2, <1>3, <1>4, <1>5, <1>6, <1>7, <1>8, <1>9, <1>10, <1>11, <1>12, <1>13,
       <1>14, <1>15, <1>16, <1>17, <1>18, <1>19, <1>20, <1>21, <1>22, <1>23, <1>24,
       <1>25, <1>26, <1>27, <1>28, <1>29 DEF Next, Request, Step

\* A finished run at rest has left no arguments in memory.
THEOREM PendingDropped == Spec => []PendingCleared
<1>1. Init => PendingInv
    BY DEF Init, PendingInv
<1>2. TypeOK /\ PendingInv => PendingCleared
    BY DEF TypeOK, PendingInv, PendingCleared, Quiet, Serving, ClearPlaces
<1> QED
    BY TypeCorrect, PendingStep, <1>1, <1>2, PTL DEF Spec

-----------------------------------------------------------------------------
(* The limit on stored runs.                                               *)

\* A request counted below the limit is one more insertion.
LEMMA LimitCreate ==
    ASSUME IInv, LimitInv, NEW t \in Threads, NEW r \in Runs, CreateCheck(t, r),
           NEW u \in Users
    PROVE  Cardinality(OwnedBy(u)') + Cardinality(Inserting(u)')
               <= MaxRuns + Cardinality(Threads) - 1
<1> USE ThreadsAssumption, RunsAssumption, PlanAssumption, BoundsAssumption
<1>1. OwnedBy(u)' = OwnedBy(u)
    BY DEF CreateCheck, OwnedBy, dbVars
<1>2. /\ OwnedBy(u) \in SUBSET Runs
      /\ Inserting(u) \in SUBSET Threads
      /\ Inserting(u)' \in SUBSET Threads
    BY DEF OwnedBy, Inserting
<1>3. /\ IsFiniteSet(Inserting(u)') /\ IsFiniteSet(Inserting(u)) /\ IsFiniteSet(OwnedBy(u))
      /\ Cardinality(Inserting(u)') <= Cardinality(Threads)
    BY <1>2, FS_Subset
<1>4. /\ Cardinality(Inserting(u)') \in Nat /\ Cardinality(OwnedBy(u)) \in Nat
      /\ Cardinality(Inserting(u)) \in Nat /\ Cardinality(Threads) \in Nat
    BY <1>3, FS_CardinalityType
<1>5. CASE Owner[r] = u
    <2>1. Cardinality(OwnedBy(u)) < MaxRuns
        BY <1>5 DEF CreateCheck, BelowLimit
    <2> QED
        BY <1>1, <1>3, <1>4, <2>1
<1>6. CASE Owner[r] # u
    <2>1. Inserting(u)' = Inserting(u)
        BY <1>6 DEF CreateCheck, Serve, Inserting, At, IInv, TypeOK
    <2> QED
        BY <1>1, <2>1 DEF LimitInv
<1> QED
    BY <1>5, <1>6

\* An INSERT turns one insertion into one stored run.
LEMMA LimitInsert ==
    ASSUME IInv, LimitInv, NEW t \in Threads, CreateInsert(t), NEW u \in Users
    PROVE  Cardinality(OwnedBy(u)') + Cardinality(Inserting(u)')
               <= MaxRuns + Cardinality(Threads) - 1
<1> DEFINE r == req[t]
<1> USE ThreadsAssumption, RunsAssumption, PlanAssumption, BoundsAssumption
<1>1. r \in Runs /\ status[r] = "absent" /\ At(t, "insert")
    BY DEF IInv, TypeOK, InsertInv, CreateInsert, At
<1>2. IsFiniteSet(OwnedBy(u)) /\ IsFiniteSet(Inserting(u))
    BY FS_Subset, OwnedBy(u) \in SUBSET Runs, Inserting(u) \in SUBSET Threads
       DEF OwnedBy, Inserting
<1>3. Cardinality(OwnedBy(u)) \in Nat /\ Cardinality(Inserting(u)) \in Nat
    BY <1>2, FS_CardinalityType
<1>4. CASE Owner[r] = u
    <2>1. OwnedBy(u)' = OwnedBy(u) \cup {r} /\ r \notin OwnedBy(u)
        BY <1>1, <1>4 DEF CreateInsert, RunStatus, OwnedBy, IInv, TypeOK
    <2>2. Inserting(u)' = Inserting(u) \ {t} /\ t \in Inserting(u)
        BY <1>1, <1>4 DEF CreateInsert, Inserting, At, Goto, IInv, TypeOK
    <2>3. Cardinality(OwnedBy(u)') = Cardinality(OwnedBy(u)) + 1
        BY <1>2, <2>1, FS_AddElement
    <2>4. Cardinality(Inserting(u)') = Cardinality(Inserting(u)) - 1
        BY <1>2, <2>2, FS_RemoveElement
    <2> QED
        BY <1>3, <2>3, <2>4 DEF LimitInv
<1>5. CASE Owner[r] # u
    <2>1. OwnedBy(u)' = OwnedBy(u)
        BY <1>1, <1>5 DEF CreateInsert, OwnedBy, IInv, TypeOK
    <2>2. Inserting(u)' = Inserting(u)
        BY <1>1, <1>5 DEF CreateInsert, Inserting, At, Goto, IInv, TypeOK
    <2> QED
        BY <2>1, <2>2 DEF LimitInv
<1> QED
    BY <1>4, <1>5

\* No other step stores a run or admits an insertion.
LEMMA LimitOther ==
    ASSUME IInv, [Next]_vars, NEW u \in Users,
           \A t \in Threads : ~CreateInsert(t) /\ \A r \in Runs : ~CreateCheck(t, r)
    PROVE  OwnedBy(u)' = OwnedBy(u) /\ Inserting(u)' \in SUBSET Inserting(u)
<1> DEFINE Same == OwnedBy(u)' = OwnedBy(u) /\ Inserting(u)' \in SUBSET Inserting(u)
<1> USE DEF Goto, Return, Serve, At, dbVars, IInv, TypeOK, StoredInv, OwnedBy, Inserting,
            RunStatus, FirstStepStatus, AfterCancel, Gated, AfterStart,
            Free, AfterExists, AfterWriteError, StatusOnFailure
<1>1. ASSUME NEW t \in Threads, NEW r \in Runs, ApproveCheck(t, r) PROVE Same
    BY <1>1 DEF ApproveCheck
<1>2. ASSUME NEW t \in Threads, NEW r \in Runs, CancelCheck(t, r) PROVE Same
    BY <1>2 DEF CancelCheck
<1>3. ASSUME NEW t \in Threads, NEW r \in Runs, ExecuteCheck(t, r) PROVE Same
    BY <1>3 DEF ExecuteCheck
<1>4. ASSUME NEW t \in Threads, ApproveUpdate(t) PROVE Same
    BY <1>4 DEF ApproveUpdate
<1>5. ASSUME NEW t \in Threads, CancelUpdate(t) PROVE Same
    BY <1>5 DEF CancelUpdate
<1>6. ASSUME NEW t \in Threads, CancelClear(t) PROVE Same
    BY <1>6 DEF CancelClear
<1>7. ASSUME NEW t \in Threads, ExecuteStart(t) PROVE Same
    BY <1>7 DEF ExecuteStart
<1>8. ASSUME NEW t \in Threads, LoopCheck(t) PROVE Same
    BY <1>8 DEF LoopCheck, CancelSeen
<1>9. ASSUME NEW t \in Threads, CancelSteps(t) PROVE Same
    BY <1>9 DEF CancelSteps
<1>10. ASSUME NEW t \in Threads, BeginStep(t) PROVE Same
    BY <1>10 DEF BeginStep
<1>11. ASSUME NEW t \in Threads, TakeArguments(t) PROVE Same
    BY <1>11 DEF TakeArguments
<1>12. ASSUME NEW t \in Threads, ToolCheck(t) PROVE Same
    BY <1>12 DEF ToolCheck
<1>13. ASSUME NEW t \in Threads, ToolCreate(t) PROVE Same
    BY <1>13 DEF ToolCreate
<1>14. ASSUME NEW t \in Threads, ToolFill(t) PROVE Same
    BY <1>14 DEF ToolFill
<1>15. ASSUME NEW t \in Threads, Verify(t) PROVE Same
    BY <1>15 DEF Verify
<1>16. ASSUME NEW t \in Threads, CompleteStep(t) PROVE Same
    BY <1>16 DEF CompleteStep
<1>17. ASSUME NEW t \in Threads, PopArguments(t) PROVE Same
    BY <1>17 DEF PopArguments
<1>18. ASSUME NEW t \in Threads, FinishCheck(t) PROVE Same
    BY <1>18 DEF FinishCheck
<1>19. ASSUME NEW t \in Threads, FinishUpdate(t) PROVE Same
    BY <1>19 DEF FinishUpdate
<1>20. ASSUME NEW t \in Threads, FailStep(t) PROVE Same
    BY <1>20 DEF FailStep
<1>21. ASSUME NEW t \in Threads, FailRun(t) PROVE Same
    BY <1>21 DEF FailRun
<1>22. ASSUME NEW t \in Threads, Clear(t) PROVE Same
    BY <1>22 DEF Clear
<1>23. ASSUME NEW t \in Threads, Log(t) PROVE Same
    BY <1>23 DEF Log, LogAs, LogLast
<1>24. ASSUME NEW t \in Threads, DatabaseBusy(t) PROVE Same
    BY <1>24 DEF DatabaseBusy, Raised, Fault, Abandon
<1>25. ASSUME NEW t \in Threads, ClearRaises(t) PROVE Same
    BY <1>25 DEF ClearRaises, Raised, Fault, Abandon
<1>26. ASSUME Crash PROVE Same
    BY <1>26 DEF Crash, Fault
<1>27. CASE UNCHANGED vars
    BY <1>27 DEF vars
<1> QED
    BY <1>1, <1>2, <1>3, <1>4, <1>5, <1>6, <1>7, <1>8, <1>9, <1>10, <1>11, <1>12, <1>13,
       <1>14, <1>15, <1>16, <1>17, <1>18, <1>19, <1>20, <1>21, <1>22, <1>23, <1>24, <1>25,
       <1>26, <1>27
       DEF Next, Request, Step

\* Stored runs exceed the limit by fewer than there are workers.
THEOREM LimitHolds == Spec => []RunsBounded
<1> DEFINE Bounded(u) == Cardinality(OwnedBy(u)) + Cardinality(Inserting(u))
                             <= MaxRuns + Cardinality(Threads) - 1
<1>1. \A u \in Users : /\ IsFiniteSet(Inserting(u)) /\ IsFiniteSet(OwnedBy(u))
                       /\ Cardinality(Inserting(u)) \in Nat
                       /\ Cardinality(OwnedBy(u)) \in Nat
    <2> SUFFICES ASSUME NEW u \in Users
                 PROVE  IsFiniteSet(Inserting(u)) /\ IsFiniteSet(OwnedBy(u))
        BY FS_CardinalityType
    <2>1. OwnedBy(u) \in SUBSET Runs /\ Inserting(u) \in SUBSET Threads
        BY DEF OwnedBy, Inserting
    <2> QED
        BY <2>1, FS_Subset, ThreadsAssumption, RunsAssumption
<1>2. Cardinality(Threads) \in Nat /\ Cardinality(Threads) # 0
    BY ThreadsAssumption, FS_CardinalityType, FS_EmptySet
<1>3. Init => LimitInv
    <2> SUFFICES ASSUME Init, NEW u \in Users PROVE Bounded(u)
        BY DEF LimitInv
    <2>1. OwnedBy(u) = {} /\ Inserting(u) = {}
        BY DEF Init, OwnedBy, Inserting, At
    <2>2. Cardinality(OwnedBy(u)) = 0 /\ Cardinality(Inserting(u)) = 0
        BY <2>1, FS_EmptySet
    <2> QED
        BY <1>2, <2>2, BoundsAssumption
<1>4. IInv /\ LimitInv /\ [Next]_vars => LimitInv'
    <2> SUFFICES ASSUME IInv, LimitInv, [Next]_vars, NEW u \in Users
                 PROVE  Cardinality(OwnedBy(u)') + Cardinality(Inserting(u)')
                            <= MaxRuns + Cardinality(Threads) - 1
        BY DEF LimitInv
    <2>1. CASE \A t \in Threads : ~CreateInsert(t) /\ \A r \in Runs : ~CreateCheck(t, r)
        <3>1. OwnedBy(u)' = OwnedBy(u) /\ Inserting(u)' \in SUBSET Inserting(u)
            BY <2>1, LimitOther
        <3>2. IsFiniteSet(Inserting(u)') /\ Cardinality(Inserting(u)') <= Cardinality(Inserting(u))
            BY <1>1, <3>1, FS_Subset
        <3>3. Cardinality(Inserting(u)') \in Nat
            BY <3>2, FS_CardinalityType
        <3> QED
            BY <1>1, <1>2, <3>1, <3>2, <3>3, BoundsAssumption DEF LimitInv
    <2>2. CASE \E t \in Threads, r \in Runs : CreateCheck(t, r)
        BY <2>2, LimitCreate
    <2>3. CASE \E t \in Threads : CreateInsert(t)
        BY <2>3, LimitInsert
    <2> QED
        BY <2>1, <2>2, <2>3
<1>5. LimitInv => RunsBounded
    BY <1>1, <1>2, BoundsAssumption DEF LimitInv, RunsBounded
<1> QED
    BY Invariance, <1>3, <1>4, <1>5, PTL DEF Spec

-----------------------------------------------------------------------------
(* The concurrent handlers implement the abstract specification.           *)

\* The abstract view of a state.
Opened == {r \in Runs : status[r] # "absent" /\ r \notin approvalRequired}
Shown  == {r \in Runs : status[r] = "completed"}

\* A step that leaves the rows and the files alone is a stutter.
LEMMA SilentStep ==
    ASSUME UNCHANGED <<status, approvalRequired, creator, whole>>
    PROVE  UNCHANGED Governance!vars
BY DEF Governance!vars

\* A status other than 'completed' given to a stored run hides it.
LEMMA HidingStep ==
    ASSUME IInv, NEW t \in Threads, NEW s \in Statuses \ {"absent", "completed"},
           pc[t] \notin {"idle", "insert"},
           status' = [status EXCEPT ![req[t]] = s],
           UNCHANGED <<approvalRequired, creator, whole>>
    PROVE  Governance!Next
<1>0. PICK r \in Runs : r = req[t]
    BY DEF IInv, TypeOK
<1>1. status[r] # "absent"
    BY <1>0 DEF IInv, StoredInv
<1>2. Opened' = Opened /\ Shown' = Shown \ {r}
    BY <1>0, <1>1 DEF IInv, TypeOK, Opened, Shown
<1>3. Governance!Hide(r)
    BY <1>2 DEF Governance!Hide, Opened, Shown
<1> QED
    BY <1>1, <1>3 DEF Governance!Next

\* An INSERT opens the run if its plan needs no approval.
LEMMA CreateRefines ==
    ASSUME IInv, NEW t \in Threads, CreateInsert(t)
    PROVE  Governance!Next \/ UNCHANGED Governance!vars
<1>0. PICK r \in Runs : r = req[t]
    BY DEF IInv, TypeOK, CreateInsert, At
<1>1. r \in Runs /\ status[r] = "absent"
    BY <1>0 DEF IInv, TypeOK, InsertInv, CreateInsert, At
<1>2. Shown' = Shown /\ UNCHANGED fsVars
    BY <1>0, <1>1 DEF IInv, TypeOK, Shown, CreateInsert, RunStatus
<1>3. CASE Mutates(r)
    <2>1. Opened' = Opened
        BY <1>0, <1>1, <1>3 DEF IInv, TypeOK, Opened, CreateInsert
    <2> QED
        BY <1>2, <2>1 DEF Governance!vars, Opened, Shown, fsVars
<1>4. CASE ~Mutates(r)
    <2>1. r \notin approvalRequired
        BY <1>1 DEF IInv, StoredInv
    <2>2. Opened' = Opened \cup {r}
        BY <1>0, <1>1, <1>4, <2>1 DEF IInv, TypeOK, Opened, CreateInsert, RunStatus
    <2>3. Governance!Open(r)
        BY <1>2, <2>2 DEF Governance!Open, Opened, Shown, fsVars
    <2> QED
        BY <1>1, <2>3 DEF Governance!Next
<1> QED
    BY <1>3, <1>4

\* An approval opens its run; a repeated one takes a completed run out of sight.
LEMMA ApproveRefines ==
    ASSUME IInv, NEW t \in Threads, ApproveUpdate(t)
    PROVE  Governance!Next
<1>0. PICK r \in Runs : r = req[t]
    BY DEF IInv, TypeOK, ApproveUpdate, At
<1>1. r \in Runs /\ status[r] # "absent"
    BY <1>0 DEF IInv, TypeOK, StoredInv, ApproveUpdate, At
<1>2. Opened' = Opened \cup {r} /\ Shown' = Shown \ {r} /\ UNCHANGED fsVars
    BY <1>0, <1>1 DEF IInv, TypeOK, Opened, Shown, ApproveUpdate
<1>3. CASE status[r] = "completed"
    <2>1. Opened' = Opened
        BY <1>0, <1>1, <1>2, <1>3 DEF IInv, CompletedInv, Opened
    <2>2. Governance!Hide(r)
        BY <1>2, <2>1 DEF Governance!Hide, Opened, Shown, fsVars
    <2> QED
        BY <1>1, <2>2 DEF Governance!Next
<1>4. CASE status[r] # "completed"
    <2>1. Shown' = Shown
        BY <1>2, <1>4 DEF Shown
    <2>2. Governance!Open(r)
        BY <1>2, <2>1 DEF Governance!Open, Opened, Shown, fsVars
    <2> QED
        BY <1>1, <2>2 DEF Governance!Next
<1> QED
    BY <1>3, <1>4

\* The tool acts for an opened run on a free target.
LEMMA ToolRefines ==
    ASSUME IInv, NEW t \in Threads, ToolCreate(t) \/ ToolFill(t)
    PROVE  Governance!Next \/ UNCHANGED Governance!vars
<1>0. PICK r \in Runs : r = req[t]
    BY DEF IInv, TypeOK, ToolCreate, ToolFill, At
<1>1. r \in Runs /\ Target[r] \in Targets /\ Mutates(r) /\ r \in Opened
    BY <1>0, PlanAssumption DEF IInv, TypeOK, StoredInv, ApprovedInv, WorkInv,
       ToolCreate, ToolFill,
       At, ExecutePlaces, BeforeEffect, InTry, Opened
<1>2. Opened' = Opened /\ Shown' = Shown
    BY <1>0 DEF ToolCreate, ToolFill, dbVars, Opened, Shown
<1>3. CASE UNCHANGED fsVars
    BY <1>2, <1>3 DEF Governance!vars, Opened, Shown, fsVars
<1>4. CASE ToolCreate(t) /\ ~UNCHANGED fsVars
    <2>1. Governance!Create(r)
        BY <1>0, <1>1, <1>2, <1>4 DEF ToolCreate, Free, Governance!Create, Opened,
           Shown,
           fsVars
    <2> QED
        BY <1>1, <2>1 DEF Governance!Next
<1>5. CASE ToolFill(t) /\ ~UNCHANGED fsVars
    <2>1. Effect(r) /\ creator' = creator /\ whole' = whole \cup {Target[r]}
        BY <1>0, <1>5 DEF IInv, WorkInv, ToolFill, At, fsVars
    <2>2. Governance!Fill(r)
        BY <1>2, <2>1 DEF Governance!Fill, Effect, Opened, Shown
    <2> QED
        BY <1>1, <2>2 DEF Governance!Next
<1> QED
    BY <1>3, <1>4, <1>5

\* A run is shown as completed only with its verified effect.
LEMMA FinishRefines ==
    ASSUME IInv, NEW t \in Threads, FinishUpdate(t)
    PROVE  Governance!Next
<1>0. PICK r \in Runs : r = req[t]
    BY DEF IInv, TypeOK, FinishUpdate, At
<1>1. /\ r \in Runs /\ status[r] # "absent" /\ r \notin approvalRequired
      /\ Mutates(r) => Effect(r) /\ Target[r] \in whole
    BY <1>0 DEF IInv, TypeOK, StoredInv, ApprovedInv, WorkInv, FinishUpdate, At,
       ExecutePlaces,
       BeforeEffect, InTry, Verified
<1>2. Opened' = Opened /\ Shown' = Shown \cup {r} /\ UNCHANGED fsVars
    BY <1>0, <1>1 DEF IInv, TypeOK, FinishUpdate, Opened, Shown
<1>3. Governance!Show(r)
    BY <1>1, <1>2 DEF Governance!Show, Effect, Opened, Shown, fsVars
<1> QED
    BY <1>1, <1>3 DEF Governance!Next

\* The handlers, with their races, failures and crashes, implement
\* ActionGovernance.
THEOREM Implementation == Spec => ImplementsGovernance
<1>1. Init => Governance!Init
    BY DEF Init, Governance!Init
<1>2. IInv /\ [Next]_vars => [Governance!Next]_(Governance!vars)
    <2> SUFFICES ASSUME IInv, [Next]_vars
                 PROVE  Governance!Next \/ UNCHANGED Governance!vars
        OBVIOUS
    <2> DEFINE Silent == UNCHANGED <<status, approvalRequired, creator, whole>>
    <2>1. ASSUME NEW t \in Threads, NEW r \in Runs, Request(t, r) PROVE Silent
        BY <2>1 DEF Request, CreateCheck, ApproveCheck, CancelCheck, ExecuteCheck,
           dbVars, fsVars
    <2>2. ASSUME NEW t \in Threads,
                 CancelClear(t) \/ LoopCheck(t) \/ CancelSteps(t) \/ BeginStep(t)
                 \/ TakeArguments(t) \/ ToolCheck(t) \/ Verify(t) \/ CompleteStep(t)
                 \/ PopArguments(t) \/ FinishCheck(t) \/ Clear(t) \/ Log(t)
                 \/ DatabaseBusy(t) \/ ClearRaises(t)
          PROVE  Silent
        BY <2>2 DEF CancelClear, LoopCheck, CancelSteps, BeginStep, TakeArguments,
           ToolCheck,
           Verify, CompleteStep, PopArguments, FinishCheck, Clear, Log, LogAs, LogLast,
           DatabaseBusy, ClearRaises, dbVars, fsVars
    <2>3. ASSUME Crash \/ UNCHANGED vars PROVE Silent
        BY <2>3 DEF Crash, vars, dbVars, fsVars
    <2>4. ASSUME NEW t \in Threads, CancelUpdate(t) PROVE Governance!Next
        BY <2>4, HidingStep DEF CancelUpdate, At, Statuses, Terminal, fsVars
    <2>5. ASSUME NEW t \in Threads, ExecuteStart(t) PROVE Governance!Next
        BY <2>5, HidingStep DEF ExecuteStart, At, Statuses, Terminal, fsVars
    <2>6. ASSUME NEW t \in Threads, FailStep(t) \/ FailRun(t) PROVE Governance!Next
        BY <2>6, HidingStep DEF FailStep, FailRun, StatusOnFailure, At, Statuses,
           Terminal, fsVars
    <2> HIDE DEF Silent
    <2>7. Silent => UNCHANGED Governance!vars
        BY SilentStep DEF Silent
    <2> QED
        BY <2>1, <2>2, <2>3, <2>4, <2>5, <2>6, <2>7, CreateRefines, ApproveRefines,
           ToolRefines, FinishRefines DEF Next, Step
<1> QED
    BY Invariance, <1>1, <1>2, PTL DEF Spec, ImplementsGovernance, Governance!Spec
=============================================================================
