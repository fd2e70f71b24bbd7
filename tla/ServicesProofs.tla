--------------------------- MODULE ServicesProofs ---------------------------
(***************************************************************************)
(* Theorems and lemmas about parts of the platform that need no other: the *)
(* trial of a deployment for any durations, clock, number of failing saves *)
(* and set of deployments, and the services that measure, predict and      *)
(* observe, with the inductions, sums and folds they are computed by.      *)
(***************************************************************************)
EXTENDS TrialSubscription, Workforce, Predictions, BackgroundIntelligence,
        FiniteSetTheorems, SequenceTheorems, NaturalsInduction, WellFoundedInduction, TLAPS

-----------------------------------------------------------------------------
(* The trial.                                                                *)

\* A new subscription of a deployment has the type of one.
LEMMA NewSubscription ==
  ASSUME NEW d \in Deployments, NEW t \in Nat, NEW n \in Nat, NEW s \in States
  PROVE  /\ Subscription(d, t, n, s) \in Subscriptions
         /\ Subscription(d, t, n, s).dep = d
         /\ Subscription(d, t, n, s).end = t + n
         /\ Subscription(d, t, n, s).state = s
  BY DEF Subscription, Subscriptions

\* A change of its state leaves a subscription one, of the same deployment.
LEMMA Restated ==
  ASSUME NEW s \in Subscriptions, NEW st \in States
  PROVE  /\ [s EXCEPT !.state = st] \in Subscriptions
         /\ [s EXCEPT !.state = st].dep = s.dep
         /\ [s EXCEPT !.state = st].end = s.end
         /\ [s EXCEPT !.state = st].state = st
  BY DEF Subscriptions

\* refresh() returns the subscription, or the expired one for a trial.
LEMMA RefreshedState ==
  ASSUME NEW s \in Subscriptions, NEW t \in Nat
  PROVE  /\ Refreshed(s, t) \in Subscriptions
         /\ Refreshed(s, t).dep = s.dep
         /\ Refreshed(s, t).end = s.end
         /\ Refreshed(s, t) # s => s.state = "trial" /\ Refreshed(s, t).state = "expired"
<1>1. CASE s.state = "trial" /\ Ends(s, t)
    BY <1>1, Restated DEF Refreshed, States
<1>2. CASE ~ (s.state = "trial" /\ Ends(s, t))
    BY <1>2 DEF Refreshed
<1>3. QED
    BY <1>1, <1>2

\* What Open makes of what it restored, or grants.
LEMMA OpenedState ==
  ASSUME TrialTypeOK, NEW d \in Deployments
  PROVE  /\ Opened(d) \in Subscriptions /\ Opened(d).dep = d
         /\ Restored(d) # NoSub => file # NoSub /\ Restored(d) = file
         /\ Restored(d) # NoSub => Opened(d).end = file.end
         /\ Restored(d) # NoSub /\ Opened(d) # file => Opened(d).state = "expired"
<1>1. CASE Restored(d) = NoSub
    BY <1>1, NewSubscription, TrialAssumption DEF Opened, TrialTypeOK, States
<1>2. CASE Restored(d) # NoSub
  <2>1. file # NoSub /\ file.dep = d /\ Restored(d) = file /\ file \in Subscriptions
      BY <1>2 DEF Restored, TrialTypeOK
  <2>2. Opened(d) = Refreshed(file, clock)
      BY <1>2, <2>1 DEF Opened
  <2>3. clock \in Nat
      BY TrialAssumption DEF TrialTypeOK
  <2>4. /\ Opened(d) \in Subscriptions /\ Opened(d).dep = file.dep
        /\ Opened(d).end = file.end
        /\ Opened(d) # file => Opened(d).state = "expired"
      BY <2>1, <2>2, <2>3, RefreshedState
  <2>5. QED
      BY <2>1, <2>4
<1>3. QED
    BY <1>1, <1>2

\* A failed save is counted and changes nothing stored.
LEMMA FailCounted ==
  ASSUME TrialTypeOK, PersistFails
  PROVE  faults' \in 0 .. MaxFaults /\ faults' # 0 /\ file' = file
  BY TrialAssumption DEF PersistFails, TrialTypeOK

\* Every operation of a running manager makes a subscription of the same
\* deployment and stores it or fails to.
LEMMA OperationTyped ==
  ASSUME TrialTypeOK, Running, UNCHANGED <<clock, manager, granted>>,
         sub' \in Subscriptions, sub'.dep = manager, due' \in Nat,
         unpaid' \in BOOLEAN,
         Persist(sub') \/ PersistFails
  PROVE  TrialTypeOK'
<1>1. faults' \in 0 .. MaxFaults /\ file' \in Subscriptions \cup {NoSub}
  <2>1. CASE Persist(sub')
      BY <2>1 DEF Persist, Saved, TrialTypeOK
  <2>2. CASE PersistFails
      BY <2>2, FailCounted DEF TrialTypeOK
  <2>3. QED
      BY <2>1, <2>2
<1>2. QED
    BY <1>1 DEF TrialTypeOK, Running

\* Every step keeps the types, for any set of deployments.
LEMMA TypeStep == TrialTypeOK /\ [TrialNext]_subVars => TrialTypeOK'
<1> SUFFICES ASSUME TrialTypeOK, [TrialNext]_subVars PROVE TrialTypeOK'
    OBVIOUS
<1>1. ASSUME NEW d \in Deployments, Open(d) PROVE TrialTypeOK'
  <2>1. Opened(d) \in Subscriptions /\ Opened(d).dep = d
      BY OpenedState
  <2>2. CASE PersistFails /\ UNCHANGED <<manager, sub, granted, due, unpaid, clock>>
      BY <2>2, FailCounted DEF TrialTypeOK, Running
  <2>3. CASE ~ (PersistFails /\ UNCHANGED <<manager, sub, granted, due, unpaid, clock>>)
    <3>1. /\ manager' = d /\ sub' = Opened(d) /\ UNCHANGED <<clock, faults>>
          /\ file' \in {file, Opened(d)}
          /\ granted' \in {granted, 1, 2} /\ due' \in {0, due}
          /\ unpaid' \in BOOLEAN
        BY <1>1, <2>3 DEF Open, Persist, Saved, Granted
    <3>2. manager' # NoSub
        BY <3>1, TrialAssumption
    <3>3. QED
        BY <2>1, <3>1, <3>2 DEF TrialTypeOK, Running
  <2>4. QED
      BY <1>1, <2>2, <2>3 DEF Open
<1>2. CASE Refresh
  <2>1. sub \in Subscriptions /\ sub.dep = manager /\ Running
      BY <1>2 DEF Refresh, TrialTypeOK
  <2>2. sub' \in Subscriptions /\ sub'.dep = manager
      BY <1>2, <2>1, RefreshedState DEF Refresh, TrialTypeOK
  <2>3. QED
      BY <1>2, <2>1, <2>2, OperationTyped DEF Refresh, TrialTypeOK
<1>3. ASSUME NEW n \in Durations, Activate(n) PROVE TrialTypeOK'
  <2>1. Running /\ manager \in Deployments /\ n \in Nat /\ clock \in Nat
      BY <1>3, TrialAssumption DEF Activate, TrialTypeOK, Running
  <2>2. sub' \in Subscriptions /\ sub'.dep = manager
      BY <1>3, <2>1, NewSubscription DEF Activate, States
  <2>3. due' \in Nat /\ unpaid' \in BOOLEAN
    <3>1. due' = clock + n
        BY <1>3 DEF Activate
    <3>2. unpaid' \in BOOLEAN
        BY <1>3 DEF Activate
    <3>3. QED
        BY <2>1, <3>1, <3>2
  <2>4. QED
      BY <1>3, <2>1, <2>2, <2>3, OperationTyped DEF Activate
<1>4. ASSUME NEW n \in Durations, Renew(n) PROVE TrialTypeOK'
  <2>1. /\ Running /\ manager \in Deployments /\ n \in Nat /\ clock \in Nat
        /\ sub \in Subscriptions
      BY <1>4, TrialAssumption DEF Renew, TrialTypeOK, Running
  <2>2. RenewalStart(sub) \in Nat
      BY <2>1 DEF RenewalStart, Later, Subscriptions
  <2>3. sub' \in Subscriptions /\ sub'.dep = manager
    <3>1. sub' = Subscription(manager, RenewalStart(sub), n, "active") /\ "active" \in States
        BY <1>4 DEF Renew, States
    <3>2. QED
        BY <2>1, <2>2, <3>1, NewSubscription
  <2>4. due' \in Nat /\ unpaid' \in BOOLEAN
    <3>1. due' = (IF due = 0 THEN clock ELSE due) + n /\ due \in Nat
        BY <1>4 DEF Renew, TrialTypeOK
    <3>2. unpaid' \in BOOLEAN
        BY <1>4 DEF Renew
    <3>3. QED
        BY <2>1, <3>1, <3>2
  <2>5. QED
      BY <1>4, <2>1, <2>3, <2>4, OperationTyped DEF Renew
<1>5. CASE Suspend
  <2>1. sub \in Subscriptions /\ sub.dep = manager /\ Running
      BY <1>5 DEF Suspend, TrialTypeOK
  <2>2. sub' \in Subscriptions /\ sub'.dep = manager
      BY <1>5, <2>1, Restated DEF Suspend, States
  <2>3. QED
      BY <1>5, <2>1, <2>2, OperationTyped DEF Suspend, TrialTypeOK
<1>6. CASE Close
    BY <1>6 DEF Close, TrialTypeOK, Running, history
<1>7. CASE ClockMoves
    BY <1>7 DEF ClockMoves, TrialTypeOK, Running, history
<1>8. CASE FileLost
  <2>1. unpaid' \in BOOLEAN
      BY <1>8 DEF FileLost, TrialTypeOK
  <2>2. QED
      BY <1>8, <2>1 DEF FileLost, TrialTypeOK, Running
<1>9. CASE UNCHANGED subVars
    BY <1>9 DEF subVars, history, TrialTypeOK, Running
<1>10. QED
    BY <1>1, <1>2, <1>3, <1>4, <1>5, <1>6, <1>7, <1>8, <1>9 DEF TrialNext

\* Opening restores an end that was stored, and grants nothing then.
LEMMA OpenStep ==
  ASSUME TrialInv, TrialTypeOK', NEW d \in Deployments, Open(d)
  PROVE  TrialInv'
<1>1. TrialTypeOK /\ ~ Running /\ UNCHANGED clock
    BY DEF TrialInv, Open
<1>2. CASE PersistFails /\ UNCHANGED <<manager, sub, granted, due, unpaid>>
  <2>1. file' = file /\ faults' # 0
      BY <1>1, <1>2, FailCounted
  <2>2. QED
      BY <1>1, <1>2, <2>1 DEF TrialInv, EndKept, OneTrial, Running
<1>3. CASE /\ manager' = d /\ sub' = Opened(d) /\ file' = Opened(d) /\ faults' = faults
           /\ granted' = Granted(d)
           /\ due' = IF Restored(d) = NoSub THEN 0 ELSE due
           /\ unpaid' = (Restored(d) # NoSub /\ (unpaid \/ Opened(d).state = "expired"))
  <2>1. Opened(d) \in Subscriptions /\ Opened(d) # NoSub
      BY <1>1, OpenedState, NoSubAssumption
  <2>2. Opened(d).end \in Nat
      BY <2>1 DEF Subscriptions
  <2>3. granted' <= 1
    <3>1. file = NoSub => granted = 0
        BY DEF TrialInv
    <3>2. granted <= 1
        BY DEF TrialInv, OneTrial
    <3>3. QED
        BY <1>3, <3>1, <3>2 DEF Granted
  <2>4. CASE Restored(d) = NoSub
    <3>1. due' = 0 /\ ~ unpaid'
        BY <1>3, <2>4
    <3>2. QED
        BY <1>3, <2>1, <2>2, <2>3, <3>1 DEF TrialInv, EndKept, OneTrial
  <2>5. CASE Restored(d) # NoSub
    <3>1. /\ file # NoSub /\ Opened(d).end = file.end
          /\ Opened(d) # file => Opened(d).state = "expired"
        BY <1>1, <2>5, OpenedState
    <3>2. unpaid' => ~ CanRun(Opened(d))
      <4>1. CASE Opened(d).state = "expired"
          BY <4>1 DEF CanRun
      <4>2. CASE Opened(d).state # "expired"
          BY <1>3, <3>1, <4>2 DEF TrialInv, EndKept
      <4>3. QED
          BY <4>1, <4>2
    <3>3. EndKept'
        BY <1>3, <2>1, <3>2 DEF EndKept, CanRun
    <3>4. faults = 0 => Opened(d).end >= due'
        BY <1>3, <2>5, <3>1 DEF TrialInv
    <3>5. QED
        BY <1>3, <2>1, <2>3, <3>3, <3>4 DEF TrialInv, OneTrial
  <2>6. QED
      BY <2>4, <2>5
<1>4. QED
  <2>1. Opened(d) = Restored(d) /\ file' = file => file' = Opened(d)
    <3>1. Opened(d) # NoSub
        BY <1>1, OpenedState, NoSubAssumption
    <3>2. Restored(d) # NoSub => Restored(d) = file
        BY <1>1, OpenedState
    <3>3. QED
        BY <3>1, <3>2
  <2>2. QED
      BY <1>1, <1>2, <1>3, <2>1 DEF Open, Persist, Saved

\* What an operation of a running manager has to show.
LEMMA OperationStep ==
  ASSUME TrialInv, TrialTypeOK', Running, UNCHANGED <<manager, granted>>,
         Persist(sub') \/ PersistFails, sub' # NoSub,
         unpaid' => ~ CanRun(sub') /\ (file' # sub' => unpaid),
         sub'.end >= due' \/ faults' # 0
  PROVE  TrialInv'
<1>1. CASE Persist(sub')
  <2>1. file' = sub' /\ faults' = faults
      BY <1>1 DEF Persist, Saved
  <2>2. QED
      BY <2>1 DEF TrialInv, EndKept, OneTrial, Running, CanRun
<1>2. CASE PersistFails
  <2>1. file' = file /\ faults' # 0
      BY <1>2, FailCounted DEF TrialInv
  <2>2. file # NoSub
      BY DEF TrialInv
  <2>3. QED
      BY <2>1, <2>2 DEF TrialInv, EndKept, OneTrial, Running, CanRun
<1>3. QED
    BY <1>1, <1>2

\* Every step keeps the invariant.
LEMMA TrialStep == TrialInv /\ [TrialNext]_subVars => TrialInv'
<1> SUFFICES ASSUME TrialInv, [TrialNext]_subVars PROVE TrialInv'
    OBVIOUS
<1>a. TrialTypeOK /\ TrialTypeOK'
    BY TypeStep DEF TrialInv
<1>b. Running => /\ sub \in Subscriptions /\ sub' \in Subscriptions \cup {NoSub}
                /\ clock \in Nat /\ due \in Nat
    BY <1>a DEF TrialTypeOK
<1>1. ASSUME NEW d \in Deployments, Open(d) PROVE TrialInv'
    BY <1>1, <1>a, OpenStep
<1>2. CASE Refresh
  <2>1. Running /\ sub' = Refreshed(sub, clock) /\ sub' # sub /\ UNCHANGED <<manager, granted, due>>
      BY <1>2 DEF Refresh
  <2>2. sub' \in Subscriptions /\ sub'.end = sub.end /\ sub'.state = "expired" /\ sub' # NoSub
      BY <2>1, <1>b, RefreshedState, NoSubAssumption
  <2>3. ~ CanRun(sub')
      BY <2>2 DEF CanRun
  <2>4. CASE Persist(sub')
    <3>1. file' = sub' /\ faults' = faults
        BY <2>4 DEF Persist, Saved
    <3>2. sub'.end >= due' \/ faults' # 0
        BY <2>1, <2>2, <3>1 DEF TrialInv
    <3>3. QED
        BY <1>a, <2>1, <2>2, <2>3, <2>4, <3>1, <3>2, OperationStep
  <2>5. CASE PersistFails /\ UNCHANGED unpaid
      BY <1>a, <2>1, <2>2, <2>3, <2>5, FailCounted, OperationStep
  <2>6. QED
      BY <1>2, <2>4, <2>5 DEF Refresh
<1>3. ASSUME NEW n \in Durations, Activate(n) PROVE TrialInv'
  <2>1. /\ Running /\ UNCHANGED <<manager, granted>> /\ ~ unpaid'
        /\ Persist(sub') \/ PersistFails
        /\ due' = clock + n /\ sub' = Subscription(manager, clock, n, "active")
      BY <1>3 DEF Activate
  <2>2. sub'.end = due' /\ sub' # NoSub /\ due' \in Nat
    <3>1. n \in Nat /\ manager \in Deployments /\ "active" \in States
        BY <1>a, <2>1, TrialAssumption DEF TrialTypeOK, Running, States
    <3>2. clock \in Nat /\ sub' = Subscription(manager, clock, n, "active")
        BY <1>b, <2>1
    <3>3. sub' \in Subscriptions /\ sub'.end = clock + n
        BY <3>1, <3>2, NewSubscription
    <3>4. sub' # NoSub
        BY <3>3, NoSubAssumption
    <3>5. QED
        BY <2>1, <3>1, <3>2, <3>3, <3>4
  <2>3. QED
      BY <1>a, <2>1, <2>2, OperationStep
<1>4. ASSUME NEW n \in Durations, Renew(n) PROVE TrialInv'
  <2>1. /\ Running /\ UNCHANGED <<manager, granted>> /\ ~ unpaid'
        /\ Persist(sub') \/ PersistFails
        /\ due' = (IF due = 0 THEN clock ELSE due) + n
        /\ sub' = Subscription(manager, RenewalStart(sub), n, "active")
      BY <1>4 DEF Renew
  <2>2. /\ n \in Nat /\ manager \in Deployments /\ "active" \in States
        /\ RenewalStart(sub) \in Nat
        /\ RenewalStart(sub) >= clock /\ RenewalStart(sub) >= sub.end
    <3>1. sub.end \in Nat
        BY <1>b, <2>1 DEF Subscriptions
    <3>2. QED
        BY <1>a, <1>b, <2>1, <3>1, TrialAssumption
           DEF TrialTypeOK, Running, States, RenewalStart, Later
  <2>3. sub'.end = RenewalStart(sub) + n /\ sub' # NoSub
      BY <2>1, <2>2, NewSubscription, NoSubAssumption
  <2>4. sub'.end >= due' \/ faults' # 0
    <3>1. CASE faults = 0
      <4>1. sub.end >= due
          BY <2>1, <3>1 DEF TrialInv
      <4>2. sub.end \in Nat
          BY <1>b, <2>1 DEF Subscriptions
      <4>3. QED
          BY <1>b, <2>1, <2>2, <2>3, <4>1, <4>2
    <3>2. CASE faults # 0
        BY <1>a, <2>1, <3>2, FailCounted DEF Persist
    <3>3. QED
        BY <3>1, <3>2
  <2>5. QED
      BY <1>a, <2>1, <2>3, <2>4, OperationStep
<1>5. CASE Suspend
  <2>1. /\ Running /\ sub' = [sub EXCEPT !.state = "suspended"] /\ "suspended" \in States
        /\ UNCHANGED <<manager, granted, due>>
      BY <1>5 DEF Suspend, States
  <2>2. sub' \in Subscriptions /\ sub'.end = sub.end /\ sub'.state = "suspended" /\ sub' # NoSub
      BY <2>1, <1>b, Restated, NoSubAssumption
  <2>3. ~ CanRun(sub')
      BY <2>2 DEF CanRun
  <2>4. CASE Persist(sub')
    <3>1. file' = sub' /\ faults' = faults
        BY <2>4 DEF Persist, Saved
    <3>2. sub'.end >= due' \/ faults' # 0
        BY <2>1, <2>2, <3>1 DEF TrialInv
    <3>3. QED
        BY <1>a, <2>1, <2>2, <2>3, <2>4, <3>1, <3>2, OperationStep
  <2>5. CASE PersistFails /\ UNCHANGED unpaid
      BY <1>a, <2>1, <2>2, <2>3, <2>5, FailCounted, OperationStep
  <2>6. QED
      BY <1>5, <2>4, <2>5 DEF Suspend
<1>6. CASE Close
    BY <1>6, <1>a DEF Close, TrialInv, EndKept, OneTrial, Running, history
<1>7. CASE ClockMoves
    BY <1>7, <1>a DEF ClockMoves, TrialInv, EndKept, OneTrial, Running, history
<1>8. CASE FileLost
    BY <1>8, <1>a DEF FileLost, TrialInv, EndKept, OneTrial, Running
<1>9. CASE UNCHANGED subVars
    BY <1>9, <1>a DEF subVars, history, TrialInv, EndKept, OneTrial, Running
<1>10. QED
    BY <1>1, <1>2, <1>3, <1>4, <1>5, <1>6, <1>7, <1>8, <1>9 DEF TrialNext

\* A new installation is in the invariant.
LEMMA TrialStart == TrialInit => TrialInv
<1> SUFFICES ASSUME TrialInit PROVE TrialInv
    OBVIOUS
<1>1. ~ Running
    BY DEF TrialInit, Running
<1>2. faults \in 0 .. MaxFaults /\ granted \in 0 .. 2 /\ due \in Nat
    BY TrialAssumption DEF TrialInit
<1>3. unpaid \in BOOLEAN /\ ~ unpaid
    BY DEF TrialInit
<1>4. TrialTypeOK
    BY <1>1, <1>2, <1>3 DEF TrialInit, TrialTypeOK
<1>5. QED
    BY <1>1, <1>3, <1>4 DEF TrialInit, TrialInv, EndKept, OneTrial

\* The types always hold, for any set of deployments.
THEOREM TrialTyped == TrialSpec => []TrialTypeOK
<1>1. TrialInit => TrialTypeOK
    BY TrialStart DEF TrialInv
<1>2. QED
    BY <1>1, TypeStep, PTL DEF TrialSpec

\* The invariant always holds.
LEMMA TrialInvariant == TrialSpec => []TrialInv
  BY TrialStart, TrialStep, PTL DEF TrialSpec

\* A readable file is granted one trial, whatever restarts, failing saves and
\* settings of the clock come between.
THEOREM GrantedOnce == TrialSpec => []OneTrial
<1>1. TrialInv => OneTrial
    BY DEF TrialInv
<1>2. QED
    BY <1>1, TrialInvariant, PTL

\* A stored end or suspension holds until something is paid.
THEOREM EndStands == TrialSpec => []EndHolds
<1>1. TrialInv => EndHolds
    BY DEF TrialInv, EndKept, EndHolds
<1>2. QED
    BY <1>1, TrialInvariant, PTL

\* While saves succeed, no renewal takes away what was paid before it.
THEOREM PaymentsAdd == TrialSpec => []PaidTimeKept
<1>1. TrialInv => PaidTimeKept
    BY DEF TrialInv, PaidTimeKept
<1>2. QED
    BY <1>1, TrialInvariant, PTL

\* Except for a paid subscription, whether YOMA may run and whether the
\* license is valid are the same answer at every moment.
THEOREM AnswersAgree == TrialSpec => []LicenseAgrees
<1>1. TrialTypeOK => LicenseAgrees
  <2> SUFFICES ASSUME TrialTypeOK, Running, sub.state # "active"
               PROVE  LET s == Refreshed(sub, clock) IN CanRun(s) <=> LicenseValid(s, clock)
      BY DEF LicenseAgrees
  <2>1. sub \in Subscriptions /\ clock \in Nat
      BY DEF TrialTypeOK
  <2>2. sub.state \in {"trial", "expired", "suspended"} /\ sub.end \in Nat
      BY <2>1 DEF Subscriptions, States
  <2>3. CASE sub.state = "trial" /\ Ends(sub, clock)
    <3>1. Refreshed(sub, clock).state = "expired"
        BY <2>1, <2>3, Restated DEF Refreshed, States
    <3>2. QED
        BY <3>1 DEF CanRun, LicenseValid, LicenseStatus
  <2>4. CASE sub.state = "trial" /\ ~ Ends(sub, clock)
    <3>1. Refreshed(sub, clock) = sub /\ ~ clock >= sub.end
        BY <2>4 DEF Refreshed, Ends
    <3>2. QED
        BY <2>4, <3>1 DEF CanRun, LicenseValid, LicenseStatus
  <2>5. CASE sub.state \in {"expired", "suspended"}
    <3>1. Refreshed(sub, clock) = sub
        BY <2>5 DEF Refreshed
    <3>2. QED
        BY <2>5, <3>1 DEF CanRun, LicenseValid, LicenseStatus
  <2>6. QED
      BY <2>2, <2>3, <2>4, <2>5
<1>2. QED
    BY <1>1, TrialTyped, PTL

\* One trial per file, an end that stands, one answer about the license.
THEOREM TrialIsSafe == TrialSpec => []TrialSafe
<1>1. TrialTypeOK /\ OneTrial /\ EndHolds /\ LicenseAgrees => TrialSafe
    BY DEF TrialSafe
<1>2. QED
    BY <1>1, TrialTyped, GrantedOnce, EndStands, AnswersAgree, PTL

-----------------------------------------------------------------------------
(* Induction over numbers.                                                   *)

\* The numbers, each below the greater ones.
Below == {ss \in Nat \X Nat : ss[1] < ss[2]}

\* A set of natural numbers that has 0 and the successor of each of its members has them all.
LEMMA Induction ==
  ASSUME NEW S \in SUBSET Nat, 0 \in S, \A n \in S : n + 1 \in S
  PROVE  S = Nat
<1> SUFFICES ASSUME Nat \ S # {} PROVE FALSE
  OBVIOUS
<1>1. IsWellFoundedOn(Below, Nat)
  BY NatLessThanWellFounded DEF OpToRel, Below
<1>2. Nat \ S \subseteq Nat
  OBVIOUS
<1>3. \E x \in Nat \ S : \A y \in Nat \ S : ~ (<<y, x>> \in Below)
  BY <1>1, WFMin, <1>2
<1>4. PICK x \in Nat \ S : \A y \in Nat \ S : ~ (y < x)
  BY <1>3 DEF Below
<1>5. x # 0 /\ x - 1 \in Nat /\ x - 1 < x
  BY <1>4
<1>6. x - 1 \in S
  BY <1>4, <1>5
<1> QED
  BY <1>5, <1>6

\* A set of natural numbers up to a bound that is not empty has a least and a greatest member.
LEMMA LastOf ==
  ASSUME NEW n \in Nat, NEW T \in SUBSET (0 .. n), T # {}
  PROVE  \E t \in T : \A u \in T : u <= t
<1> DEFINE A == {k \in Nat : \E t \in T : k = n - t}
<1>1. A # {} /\ A \subseteq Nat
  <2>1. PICK t \in T : TRUE
    OBVIOUS
  <2>2. n - t \in Nat
    BY <2>1
  <2> QED
    BY <2>2
<1>2. IsWellFoundedOn(Below, Nat)
  BY NatLessThanWellFounded DEF OpToRel, Below
<1>3. \E x \in A : \A y \in A : ~ (<<y, x>> \in Below)
  BY <1>1, <1>2, WFMin
<1>4. PICK x \in A : \A y \in A : ~ (y < x)
  BY <1>3 DEF Below
<1>5. PICK t \in T : x = n - t
  BY <1>4
<1>6. ASSUME NEW u \in T PROVE u <= t
  <2>1. n - u \in A
    OBVIOUS
  <2>2. ~ (n - u < n - t)
    BY <2>1, <1>4, <1>5
  <2> QED
    BY <2>2
<1> QED
  BY <1>5, <1>6

LEMMA FirstOf ==
  ASSUME NEW T \in SUBSET Nat, T # {}
  PROVE  \E t \in T : \A u \in T : t <= u
<1>1. IsWellFoundedOn(Below, Nat)
  BY NatLessThanWellFounded DEF OpToRel, Below
<1>2. \E x \in T : \A y \in T : ~ (<<y, x>> \in Below)
  BY <1>1, WFMin
<1>3. PICK x \in T : \A y \in T : ~ (y < x)
  BY <1>2 DEF Below
<1> QED
  BY <1>3

\* A finite set of natural numbers that is not empty has its maximum.
LEMMA GreatestOf ==
  ASSUME NEW S \in SUBSET Nat, IsFiniteSet(S), S # {}
  PROVE  Max(S) \in S /\ \A j \in S : Max(S) >= j
<1> DEFINE above(i) == {j \in S : j > i}
           counts == {n \in Nat : \E i \in S : n = Cardinality(above(i))}
<1>1. \A i \in S : IsFiniteSet(above(i)) /\ Cardinality(above(i)) \in Nat
  <2>1. \A i \in S : above(i) \in SUBSET S
    OBVIOUS
  <2> HIDE DEF above
  <2> QED
    BY <2>1, FS_Subset, FS_CardinalityType
<1>2. counts \in SUBSET Nat /\ counts # {}
  BY <1>1
<1>3. PICK n \in counts : \A m \in counts : n <= m
  <2> HIDE DEF counts
  <2> QED
    BY <1>2, FirstOf
<1>4. PICK i \in S : n = Cardinality(above(i))
  BY <1>3
<1>5. ASSUME NEW j \in S, j > i PROVE FALSE
  <2>1. j \in above(i) /\ above(j) \in SUBSET (above(i) \ {j})
    <3>1. i \in Nat /\ j \in Nat /\ \A k \in S : k \in Nat
      BY <1>4, <1>5
    <3>2. \A k \in S : k > j => k > i /\ k # j
      BY <1>5, <3>1
    <3> QED
      BY <1>5, <3>2
  <2>2. Cardinality(above(j)) \in counts
    BY <1>1
  <2> HIDE DEF above, counts
  <2>3. /\ IsFiniteSet(above(i) \ {j})
        /\ Cardinality(above(i) \ {j}) = Cardinality(above(i)) - 1
    BY <1>1, <2>1, FS_RemoveElement
  <2>4. Cardinality(above(j)) <= Cardinality(above(i) \ {j})
    BY <2>1, <2>3, FS_Subset
  <2> QED
    BY <1>1, <1>3, <1>4, <2>2, <2>3, <2>4
<1>6. \A j \in S : i >= j
  BY <1>5
<1>7. \E k \in S : \A j \in S : k >= j
  BY <1>6
<1> QED
  BY <1>7, Zenon DEF Max

-----------------------------------------------------------------------------
(* Sums over finite sets.                                                    *)

\* A set that is not empty has the member CHOOSE takes, and one fewer without any of its members.
Picked(t) == CHOOSE d \in t : TRUE

LEMMA OneFewer ==
  ASSUME NEW t, IsFiniteSet(t), NEW d \in t
  PROVE  /\ Picked(t) \in t /\ IsFiniteSet(t \ {d}) /\ Cardinality(t) \in Nat
         /\ Cardinality(t \ {d}) = Cardinality(t) - 1 /\ Cardinality(t) # 0
<1>1. Picked(t) \in t
  BY Zenon DEF Picked
<1>2. IsFiniteSet(t \ {d}) /\ Cardinality(t \ {d}) = Cardinality(t) - 1
  BY FS_RemoveElement
<1>3. Cardinality(t) \in Nat /\ (Cardinality(t) = 0 <=> t = {})
  BY FS_CardinalityType, FS_EmptySet
<1> QED
  BY <1>1, <1>2, <1>3

\* The function the sum of weights over a finite set is made of.
SumStep(g, w, t) == IF t = {} THEN 0 ELSE w[Picked(t)] + g[t \ {Picked(t)}]
IsSum(g, w, S) == g = [t \in SUBSET S |-> SumStep(g, w, t)]

\* It exists for every finite set: by induction over the sizes of its subsets.
LEMMA SumExists ==
  ASSUME NEW w, NEW S, IsFiniteSet(S) PROVE \E g : IsSum(g, w, S)
<1> DEFINE UpTo(g, n) == \A t \in SUBSET S : Cardinality(t) <= n => g[t] = SumStep(g, w, t)
           N == {n \in Nat : \E g : g = [t \in SUBSET S |-> g[t]] /\ UpTo(g, n)}
<1>1. \A t \in SUBSET S : IsFiniteSet(t) /\ Cardinality(t) \in Nat /\ (Cardinality(t) = 0 <=> t = {})
  BY FS_Subset, FS_CardinalityType, FS_EmptySet
<1>2. 0 \in N
  <2> DEFINE g == [t \in SUBSET S |-> 0]
  <2>1. g = [t \in SUBSET S |-> g[t]]
    OBVIOUS
  <2>2. UpTo(g, 0)
    <3> SUFFICES ASSUME NEW t \in SUBSET S, Cardinality(t) <= 0 PROVE g[t] = SumStep(g, w, t)
      OBVIOUS
    <3>1. t = {}
      BY <1>1
    <3> QED
      BY <3>1 DEF SumStep
  <2> HIDE DEF g
  <2> QED
    BY <2>1, <2>2
<1>3. ASSUME NEW n \in N PROVE n + 1 \in N
  <2>1. PICK g : g = [t \in SUBSET S |-> g[t]] /\ UpTo(g, n)
    OBVIOUS
  <2> DEFINE f == [t \in SUBSET S |-> IF Cardinality(t) = n + 1 THEN SumStep(g, w, t) ELSE g[t]]
  <2>2. \A t \in SUBSET S : Cardinality(t) <= n => f[t] = g[t]
    BY <1>1
  <2>3. ASSUME NEW t \in SUBSET S, Cardinality(t) <= n + 1 PROVE f[t] = SumStep(f, w, t)
    <3>1. SumStep(g, w, t) = SumStep(f, w, t)
      <4>1. CASE t = {}
        BY <4>1 DEF SumStep
      <4>2. CASE t # {}
        <5> DEFINE u == t \ {Picked(t)}
        <5>1. u \in SUBSET S /\ Cardinality(u) <= n
          <6>1. PICK d \in t : TRUE
            BY <4>2
          <6>2. Picked(t) \in t
            BY <1>1, <6>1, OneFewer
          <6>3. Cardinality(t \ {Picked(t)}) = Cardinality(t) - 1
            BY <1>1, <6>2, OneFewer
          <6> QED
            BY <1>1, <2>3, <6>3
        <5>2. f[u] = g[u]
          BY <5>1, <2>2
        <5> QED
          BY <5>2, <4>2 DEF SumStep
      <4> QED
        BY <4>1, <4>2
    <3>2. CASE Cardinality(t) = n + 1
      BY <3>1, <3>2
    <3>3. CASE Cardinality(t) # n + 1
      <4>1. Cardinality(t) <= n
        BY <1>1, <2>3, <3>3
      <4> QED
        BY <4>1, <3>1, <2>1, <2>2
    <3> QED
      BY <3>2, <3>3
  <2>4. f = [t \in SUBSET S |-> f[t]]
    OBVIOUS
  <2> HIDE DEF f
  <2>5. n + 1 \in Nat
    OBVIOUS
  <2> QED
    BY <2>3, <2>4, <2>5
<1>4. N = Nat
  <2> HIDE DEF N
  <2>1. N \in SUBSET Nat
    BY DEF N
  <2> QED
    BY <1>2, <1>3, <2>1, Induction
<1>5. Cardinality(S) \in N
  BY <1>4, <1>1
<1>6. PICK g : g = [t \in SUBSET S |-> g[t]] /\ UpTo(g, Cardinality(S))
  BY <1>5
<1>7. \A t \in SUBSET S : Cardinality(t) <= Cardinality(S)
  BY FS_Subset
<1>8. \A t \in SUBSET S : g[t] = SumStep(g, w, t)
  BY <1>6, <1>7
<1> QED
  BY <1>6, <1>8 DEF IsSum

\* Whichever member is taken first, a sum is what it weighs and the sum of the others.
Splits(g, w, t) == g[t] \in Nat /\ \A d \in t : g[t] = w[d] + g[t \ {d}]

LEMMA SumSplits ==
  ASSUME NEW w, NEW S, IsFiniteSet(S), \A d \in S : w[d] \in Nat,
         NEW g, IsSum(g, w, S), NEW r \in SUBSET S
  PROVE  Splits(g, w, r)
<1> DEFINE N == {n \in Nat : \A t \in SUBSET S : Cardinality(t) <= n => Splits(g, w, t)}
<1>0. \A d \in S : w[d] \in Nat
  OBVIOUS
<1>1. \A t \in SUBSET S : IsFiniteSet(t) /\ Cardinality(t) \in Nat /\ (Cardinality(t) = 0 <=> t = {})
  BY FS_Subset, FS_CardinalityType, FS_EmptySet
<1>2. \A t \in SUBSET S : g[t] = SumStep(g, w, t)
  BY DEF IsSum
<1>3. 0 \in N
  <2>1. ASSUME NEW t \in SUBSET S, Cardinality(t) <= 0 PROVE Splits(g, w, t)
    <3>1. t = {}
      BY <1>1, <2>1
    <3>2. g[t] = 0
      BY <1>2, <3>1 DEF SumStep
    <3> QED
      BY <3>1, <3>2 DEF Splits
  <2> QED
    BY <2>1
<1>4. ASSUME NEW n \in N PROVE n + 1 \in N
  <2>1. ASSUME NEW t \in SUBSET S, Cardinality(t) = n + 1 PROVE Splits(g, w, t)
    <3>1. t # {} /\ IsFiniteSet(t)
      BY <1>1, <2>1
    <3>2. PICK a : a = Picked(t)
      OBVIOUS
    <3>3. a \in t
      <4>1. PICK d \in t : TRUE
        BY <3>1
      <4> QED
        BY <3>1, <3>2, <4>1, OneFewer
    <3>4. g[t] = w[a] + g[t \ {a}]
      BY <1>2, <3>1, <3>2 DEF SumStep
    <3>5. \A d \in t : Cardinality(t \ {d}) = n /\ t \ {d} \in SUBSET S
      BY <3>1, <2>1, OneFewer
    <3>6. \A d \in t : Splits(g, w, t \ {d})
      BY <3>5
    <3>7. \A d \in t : g[t \ {d}] \in Nat /\ w[d] \in Nat
      BY <1>0, <3>6 DEF Splits
    <3>8. ASSUME NEW d \in t PROVE g[t] = w[d] + g[t \ {d}]
      <4>1. CASE d = a
        BY <3>4, <4>1
      <4>2. CASE d # a
        <5>1. d \in t \ {a} /\ a \in t \ {d} /\ (t \ {a}) \ {d} = (t \ {d}) \ {a}
          BY <3>3, <4>2
        <5>2. PICK u : u = (t \ {d}) \ {a}
          OBVIOUS
        <5>3. g[t \ {a}] = w[d] + g[u] /\ g[t \ {d}] = w[a] + g[u]
          BY <3>3, <3>6, <5>1, <5>2 DEF Splits
        <5>4. g[u] \in Nat
          <6>1. u \in SUBSET S /\ Cardinality(u) = n - 1
            BY <3>1, <3>5, <5>1, <5>2, OneFewer
          <6> QED
            BY <6>1 DEF Splits
        <5> QED
          BY <3>3, <3>4, <3>7, <5>3, <5>4
      <4> QED
        BY <4>1, <4>2
    <3>9. g[t] \in Nat
      BY <3>3, <3>4, <3>7
    <3> QED
      BY <3>8, <3>9 DEF Splits
  <2>2. \A t \in SUBSET S : Cardinality(t) <= n + 1 => Cardinality(t) <= n \/ Cardinality(t) = n + 1
    BY <1>1
  <2> QED
    BY <2>1, <2>2
<1>5. N = Nat
  <2> HIDE DEF N
  <2>1. N \in SUBSET Nat
    BY DEF N
  <2> QED
    BY <1>3, <1>4, <2>1, Induction
<1>6. Cardinality(r) \in N
  BY <1>5, <1>1
<1> QED
  BY <1>6

\* More weight, or more members, and the sum is no less.
LEMMA SumGrows ==
  ASSUME NEW R, IsFiniteSet(R), NEW S \in SUBSET R, NEW w, NEW v,
         \A d \in S : w[d] \in Nat /\ w[d] <= v[d], \A d \in R : v[d] \in Nat,
         NEW g, IsSum(g, w, S), NEW f, IsSum(f, v, R)
  PROVE  g[S] <= f[R]
<1>0. IsFiniteSet(S)
  BY FS_Subset
<1> DEFINE IsMore(t) == g[t \cap S] <= f[t]
           N == {n \in Nat : \A t \in SUBSET R : Cardinality(t) <= n => IsMore(t)}
<1> HIDE DEF IsMore
<1>3. \A t \in SUBSET R : /\ IsFiniteSet(t) /\ Cardinality(t) \in Nat
                          /\ (Cardinality(t) = 0 <=> t = {})
  BY <1>0, FS_Subset, FS_CardinalityType, FS_EmptySet
<1>4. \A t \in SUBSET R : t \cap S \in SUBSET S /\ Splits(f, v, t) /\ Splits(g, w, t \cap S)
  BY <1>0, SumSplits
<1>5. 0 \in N
  <2>1. ASSUME NEW t \in SUBSET R, Cardinality(t) <= 0 PROVE IsMore(t)
    <3>1. t = {} /\ t \cap S = {}
      BY <1>3, <2>1
    <3>2. g[{}] = 0 /\ f[{}] = 0
      BY DEF IsSum, SumStep
    <3> QED
      BY <3>1, <3>2 DEF IsMore
  <2> QED
    BY <2>1
<1>6. ASSUME NEW n \in N PROVE n + 1 \in N
  <2>1. ASSUME NEW t \in SUBSET R, Cardinality(t) = n + 1 PROVE IsMore(t)
    <3>1. PICK d \in t : TRUE
      BY <1>3, <2>1
    <3>2. PICK u : u = t \ {d}
      OBVIOUS
    <3>3. u \in SUBSET R /\ Cardinality(u) = n
      BY <1>3, <2>1, <3>2, OneFewer
    <3>4. f[t] = v[d] + f[u]
      BY <1>4, <3>2 DEF Splits
    <3>5. IsMore(u) /\ g[u \cap S] \in Nat /\ f[u] \in Nat /\ v[d] \in Nat
      <4>1. Splits(f, v, u) /\ Splits(g, w, u \cap S)
        BY <1>4, <3>3
      <4>2. d \in R
        BY <3>1
      <4> QED
        BY <3>3, <4>1, <4>2 DEF Splits
    <3>6. CASE d \in S
      <4>1. d \in t \cap S /\ (t \cap S) \ {d} = u \cap S
        BY <3>2, <3>6
      <4>2. g[t \cap S] = w[d] + g[u \cap S]
        <5>1. Splits(g, w, t \cap S)
          BY <1>4
        <5> QED
          BY <4>1, <5>1 DEF Splits
      <4>3. w[d] \in Nat /\ w[d] <= v[d]
        BY <3>6
      <4> QED
        BY <3>4, <3>5, <4>2, <4>3 DEF IsMore
    <3>7. CASE d \notin S
      <4>1. t \cap S = u \cap S
        BY <3>2, <3>7
      <4>2. g[t \cap S] = g[u \cap S]
        BY <4>1
      <4> QED
        BY <3>4, <3>5, <4>2 DEF IsMore
    <3> QED
      BY <3>6, <3>7
  <2>2. \A t \in SUBSET R : Cardinality(t) <= n + 1 => Cardinality(t) <= n \/ Cardinality(t) = n + 1
    BY <1>3
  <2> QED
    BY <2>1, <2>2
<1>7. N = Nat
  <2> HIDE DEF N
  <2>1. N \in SUBSET Nat
    BY DEF N
  <2> QED
    BY <1>5, <1>6, <2>1, Induction
<1>8. Cardinality(R) \in N
  BY <1>3, <1>7
<1>9. IsMore(R)
  BY <1>3, <1>8
<1>10. R \cap S = S
  OBVIOUS
<1> QED
  BY <1>9, <1>10 DEF IsMore

\* Weights within a bound have a sum of at most that bound for each member.
LEMMA SumAtMost ==
  ASSUME NEW S, IsFiniteSet(S), NEW most \in Nat, NEW w, \A d \in S : w[d] \in Nat /\ w[d] <= most,
         NEW g, IsSum(g, w, S)
  PROVE  g[S] \in Nat /\ g[S] <= most * Cardinality(S)
<1> DEFINE Few(t) == g[t] <= most * Cardinality(t)
           N == {n \in Nat : \A t \in SUBSET S : Cardinality(t) = n => Few(t)}
<1> HIDE DEF Few
<1>1. \A t \in SUBSET S : /\ IsFiniteSet(t) /\ Cardinality(t) \in Nat
                          /\ (Cardinality(t) = 0 <=> t = {}) /\ Splits(g, w, t)
  BY SumSplits, FS_Subset, FS_CardinalityType, FS_EmptySet
<1>2. 0 \in N
  <2>1. g[{}] = 0 /\ Cardinality({}) = 0
    BY FS_EmptySet DEF IsSum, SumStep
  <2>2. Few({})
    BY <2>1 DEF Few
  <2> QED
    BY <1>1, <2>2
<1>3. ASSUME NEW n \in N PROVE n + 1 \in N
  <2>1. ASSUME NEW t \in SUBSET S, Cardinality(t) = n + 1 PROVE Few(t)
    <3>1. PICK d \in t : TRUE
      BY <1>1, <2>1
    <3>2. PICK u : u = t \ {d}
      OBVIOUS
    <3>3. u \in SUBSET S /\ Cardinality(u) = n
      BY <1>1, <2>1, <3>2, OneFewer
    <3>4. g[t] = w[d] + g[u] /\ g[u] \in Nat
      BY <1>1, <3>2, <3>3 DEF Splits
    <3>5. g[u] <= most * n
      BY <3>3 DEF Few
    <3>6. PICK a \in Nat, b \in Nat : a = w[d] /\ b = g[u]
      BY <3>4
    <3>7. a <= most /\ b <= most * n /\ g[t] = a + b
      BY <3>4, <3>5, <3>6
    <3>8. most * (n + 1) = most * n + most
      BY n \in Nat
    <3>9. most * n \in Nat
      BY n \in Nat
    <3>10. g[t] <= most * (n + 1)
      BY <3>6, <3>7, <3>8, <3>9
    <3> QED
      BY <2>1, <3>10 DEF Few
  <2> QED
    BY <2>1
<1>4. N = Nat
  <2> HIDE DEF N
  <2>1. N \in SUBSET Nat
    BY DEF N
  <2> QED
    BY <1>2, <1>3, <2>1, Induction
<1>5. Cardinality(S) \in N
  BY <1>1, <1>4
<1> QED
  BY <1>1, <1>5 DEF Few, Splits

\* The sizes of disjoint sets add up to the size of their union.
LEMMA SumOfSizes ==
  ASSUME NEW S, IsFiniteSet(S), NEW M, \A d \in S : IsFiniteSet(M[d]),
         \A d, e \in S : d # e => M[d] \cap M[e] = {},
         NEW g, IsSum(g, [d \in S |-> Cardinality(M[d])], S)
  PROVE  g[S] = Cardinality(UNION {M[d] : d \in S})
<1> DEFINE w == [d \in S |-> Cardinality(M[d])]
           All(t) == UNION {M[d] : d \in t}
           Adds(t) == IsFiniteSet(All(t)) /\ g[t] = Cardinality(All(t))
           N == {n \in Nat : \A t \in SUBSET S : Cardinality(t) = n => Adds(t)}
<1>0. \A d \in S : w[d] \in Nat /\ w[d] = Cardinality(M[d])
  BY FS_CardinalityType
<1>6. IsSum(g, w, S)
  OBVIOUS
<1> HIDE DEF Adds, w
<1>1. \A t \in SUBSET S : /\ IsFiniteSet(t) /\ Cardinality(t) \in Nat
                          /\ (Cardinality(t) = 0 <=> t = {}) /\ Splits(g, w, t)
  BY <1>0, <1>6, SumSplits, FS_Subset, FS_CardinalityType, FS_EmptySet
<1>2. 0 \in N
  <2>1. g[{}] = 0
    BY <1>6 DEF IsSum, SumStep
  <2>2. All({}) = {}
    OBVIOUS
  <2>3. Adds({})
    BY <2>1, <2>2, FS_EmptySet DEF Adds
  <2> QED
    BY <1>1, <2>3
<1>3. ASSUME NEW n \in N PROVE n + 1 \in N
  <2>1. ASSUME NEW t \in SUBSET S, Cardinality(t) = n + 1 PROVE Adds(t)
    <3>1. PICK d \in t : TRUE
      BY <1>1, <2>1
    <3>2. PICK u : u = t \ {d}
      OBVIOUS
    <3>3. u \in SUBSET S /\ Cardinality(u) = n /\ d \in S
      <4>1. n \in Nat /\ IsFiniteSet(t)
        BY <1>1
      <4>2. Cardinality(t \ {d}) = Cardinality(t) - 1
        BY <3>1, <4>1, OneFewer
      <4> QED
        BY <2>1, <3>1, <3>2, <4>1, <4>2
    <3>4. g[t] = w[d] + g[u]
      BY <1>1, <3>2 DEF Splits
    <3>5. IsFiniteSet(All(u)) /\ g[u] = Cardinality(All(u))
      BY <3>3 DEF Adds
    <3>6. All(t) = All(u) \cup M[d] /\ All(u) \cap M[d] = {}
      <4>1. \A x : x \in All(t) <=> x \in All(u) \/ x \in M[d]
        BY <3>2
      <4>2. \A e \in u : e \in S /\ e # d
        BY <3>2, <3>3
      <4> QED
        BY <4>1, <4>2, <3>3
    <3>7. IsFiniteSet(M[d])
      BY <3>3
    <3> HIDE DEF All
    <3>8. /\ IsFiniteSet(All(u) \cup M[d])
          /\ Cardinality(All(u) \cup M[d])
               = Cardinality(All(u)) + Cardinality(M[d]) - Cardinality(All(u) \cap M[d])
      BY <3>5, <3>7, FS_Union
    <3>9. Cardinality(All(u) \cap M[d]) = 0
      BY <3>6, FS_EmptySet
    <3>10. Cardinality(All(u)) \in Nat /\ Cardinality(M[d]) \in Nat
      BY <3>5, <3>7, FS_CardinalityType
    <3> QED
      BY <1>0, <3>3, <3>4, <3>5, <3>6, <3>8, <3>9, <3>10 DEF Adds
  <2> QED
    BY <2>1
<1>4. N = Nat
  <2> HIDE DEF N
  <2>1. N \in SUBSET Nat
    BY DEF N
  <2> QED
    BY <1>2, <1>3, <2>1, Induction
<1>5. Cardinality(S) \in N
  BY <1>1, <1>4
<1> QED
  BY <1>5 DEF Adds


-----------------------------------------------------------------------------
(* Folds: the states a list is walked through.                               *)

LEMMA GreatestPlace ==
  ASSUME NEW n \in Nat, NEW t \in SUBSET (1 .. n), t # {}
  PROVE  Max(t) \in t /\ \A y \in t : y <= Max(t)
<1>1. t \in SUBSET (0 .. n)
  OBVIOUS
<1>2. PICK x \in t : \A y \in t : y <= x
  BY <1>1, LastOf
<1>3. \E y \in t : \A z \in t : y >= z
  BY <1>2
<1>4. Max(t) \in t /\ \A z \in t : Max(t) >= z
  BY <1>3, Zenon DEF Max
<1>5. PICK m : m = Max(t)
  OBVIOUS
<1>6. \A z \in t : z <= m
  BY <1>4, <1>5
<1> QED
  BY <1>4, <1>5, <1>6

LEMMA NextPlace ==
  ASSUME NEW n \in Nat
  PROVE  Max(1 .. n + 1) = n + 1 /\ (1 .. n + 1) \ {n + 1} = 1 .. n /\ 1 .. n + 1 # {}
<1>1. 1 .. n + 1 # {} /\ n + 1 \in Nat /\ 1 .. n + 1 \in SUBSET (1 .. n + 1)
  OBVIOUS
<1>2. PICK x : x = Max(1 .. n + 1)
  OBVIOUS
<1>3. x \in 1 .. n + 1 /\ \A y \in 1 .. n + 1 : y <= x
  BY <1>1, <1>2, GreatestPlace
<1>4. x = n + 1
  BY <1>3
<1> QED
  BY <1>2, <1>4

\* What FoldLeft defines over the sets of places of a list, a step being a function of the state
\* reached and of the next entry.
FoldStep(f, step, base, s, t) ==
  IF t = {} THEN base ELSE step[<<f[t \ {Max(t)}], s[Max(t)]>>]

\* States W, entries E: what it takes for a fold to be defined, and the function it is then.
CanFold(W, E, step, base, s, m) ==
  step \in [W \X E -> W] /\ base \in W /\ m \in Nat /\ \A i \in 1 .. m : s[i] \in E
IsFold(f, W, step, base, s, m) ==
  /\ f \in [SUBSET (1 .. m) -> W]
  /\ \A t \in SUBSET (1 .. m) : f[t] = FoldStep(f, step, base, s, t)

LEMMA FoldExists ==
  ASSUME NEW W, NEW E, NEW step, NEW base, NEW m, NEW s, CanFold(W, E, step, base, s, m)
  PROVE  \E f : IsFold(f, W, step, base, s, m)
<1> USE DEF CanFold
<1> DEFINE UpTo(f, n) == \A t \in SUBSET (1 .. m) :
                           t \subseteq 1 .. n => f[t] = FoldStep(f, step, base, s, t)
           N == {n \in Nat : \E f \in [SUBSET (1 .. m) -> W] : UpTo(f, n)}
<1>1. 0 \in N
  <2> DEFINE f == [t \in SUBSET (1 .. m) |-> base]
  <2>1. \A t : t \subseteq 1 .. 0 => t = {}
    OBVIOUS
  <2>2. UpTo(f, 0)
    BY <2>1 DEF FoldStep
  <2>3. f \in [SUBSET (1 .. m) -> W]
    OBVIOUS
  <2> HIDE DEF f
  <2> QED
    BY <2>2, <2>3
<1>2. ASSUME NEW n \in N PROVE n + 1 \in N
  <2>1. PICK f \in [SUBSET (1 .. m) -> W] : UpTo(f, n)
    OBVIOUS
  <2> DEFINE g == [t \in SUBSET (1 .. m) |-> FoldStep(f, step, base, s, t)]
  <2>2. ASSUME NEW t \in SUBSET (1 .. m), t # {}
        PROVE  /\ Max(t) \in 1 .. m /\ t \ {Max(t)} \in SUBSET (1 .. m)
               /\ t \subseteq 1 .. n + 1 => t \ {Max(t)} \subseteq 1 .. n
    <3>1. Max(t) \in t /\ \A y \in t : y <= Max(t)
      BY <2>2, GreatestPlace
    <3>2. PICK x : x = Max(t)
      OBVIOUS
    <3>3. ASSUME t \subseteq 1 .. n + 1, NEW y \in t \ {x} PROVE y \in 1 .. n
      <4>1. y \in 1 .. n + 1 /\ x \in 1 .. n + 1 /\ y <= x /\ y # x
        BY <3>1, <3>2, <3>3
      <4> QED
        BY <4>1, n \in Nat
    <3> QED
      BY <3>1, <3>2, <3>3
  <2>3. g \in [SUBSET (1 .. m) -> W]
    <3>1. ASSUME NEW t \in SUBSET (1 .. m) PROVE FoldStep(f, step, base, s, t) \in W
      <4>1. CASE t = {}
        BY <4>1 DEF FoldStep
      <4>2. CASE t # {}
        <5>1. f[t \ {Max(t)}] \in W /\ s[Max(t)] \in E
          BY <2>2, <4>2
        <5> QED
          BY <4>2, <5>1 DEF FoldStep
      <4> QED
        BY <4>1, <4>2
    <3> QED
      BY <3>1
  <2>4. ASSUME NEW t \in SUBSET (1 .. m), t \subseteq 1 .. n + 1
        PROVE  g[t] = FoldStep(g, step, base, s, t)
    <3>1. CASE t = {}
      BY <3>1 DEF FoldStep
    <3>2. CASE t # {}
      <4>1. t \ {Max(t)} \in SUBSET (1 .. m) /\ t \ {Max(t)} \subseteq 1 .. n
        BY <2>2, <2>4, <3>2
      <4>2. f[t \ {Max(t)}] = g[t \ {Max(t)}]
        BY <2>1, <4>1
      <4> QED
        BY <3>2, <4>2 DEF FoldStep
    <3> QED
      BY <3>1, <3>2
  <2>5. n + 1 \in Nat
    OBVIOUS
  <2> HIDE DEF g
  <2> QED
    BY <2>3, <2>4, <2>5
<1>3. N = Nat
  <2> HIDE DEF N
  <2>1. N \in SUBSET Nat
    BY DEF N
  <2> QED
    BY <1>1, <1>2, <2>1, Induction
<1>4. PICK f \in [SUBSET (1 .. m) -> W] : UpTo(f, m)
  BY <1>3
<1>5. IsFold(f, W, step, base, s, m)
  BY <1>4 DEF IsFold
<1> QED
  BY <1>5

\* The states after the first entries of a list, one step each.
Follows(r, step, s, m) == \A n \in Nat : n < m => r[n + 1] = step[<<r[n], s[n + 1]>>]

IsRun(r, W, step, base, s, m) ==
  r \in [0 .. m -> W] /\ r[0] = base /\ Follows(r, step, s, m)

\* A function that folds goes through such states, those on the first places.
Folds(g, step, W, base, s, m) ==
  /\ g[{}] = base
  /\ \A t \in SUBSET (1 .. m) : t # {} /\ g[t \ {Max(t)}] \in W
                               => g[t] = step[<<g[t \ {Max(t)}], s[Max(t)]>>]

LEMMA FoldRuns ==
  ASSUME NEW W, NEW E, NEW step, NEW base, NEW m, NEW s, CanFold(W, E, step, base, s, m),
         NEW g, Folds(g, step, W, base, s, m)
  PROVE  \E r : IsRun(r, W, step, base, s, m) /\ r[m] = g[1 .. m]
<1> USE DEF CanFold
<1> DEFINE r == [n \in 0 .. m |-> g[1 .. n]]
           N == {n \in Nat : n <= m => r[n] \in W}
<1>1. r[0] = base
  <2>1. 1 .. 0 = {} /\ 0 \in 0 .. m
    OBVIOUS
  <2> QED
    BY <2>1 DEF Folds
<1>2. ASSUME NEW n \in Nat, n < m, r[n] \in W PROVE r[n + 1] = step[<<r[n], s[n + 1]>>]
  <2>1. n \in 0 .. m /\ n + 1 \in 0 .. m /\ 1 .. n + 1 \in SUBSET (1 .. m)
    BY <1>2
  <2>2. PICK t : t = 1 .. n + 1
    OBVIOUS
  <2>3. t # {} /\ Max(t) = n + 1 /\ t \ {n + 1} = 1 .. n /\ t \in SUBSET (1 .. m)
    BY <2>1, <2>2, NextPlace
  <2>4. r[n] = g[t \ {Max(t)}] /\ r[n + 1] = g[t]
    BY <2>1, <2>2, <2>3
  <2> HIDE DEF r
  <2>5. g[t \ {Max(t)}] \in W
    BY <1>2, <2>4
  <2>6. g[t] = step[<<g[t \ {Max(t)}], s[Max(t)]>>]
    BY <2>3, <2>5 DEF Folds
  <2> QED
    BY <2>3, <2>4, <2>6
<1>3. 0 \in N
  BY <1>1
<1>4. ASSUME NEW n \in N PROVE n + 1 \in N
  <2> SUFFICES ASSUME n + 1 <= m PROVE r[n + 1] \in W
    OBVIOUS
  <2> HIDE DEF r
  <2>1. n \in Nat /\ n < m /\ r[n] \in W /\ s[n + 1] \in E
    OBVIOUS
  <2>2. r[n + 1] = step[<<r[n], s[n + 1]>>]
    BY <1>2, <2>1
  <2> QED
    BY <2>1, <2>2
<1>5. N = Nat
  <2> HIDE DEF N
  <2>1. N \in SUBSET Nat
    BY DEF N
  <2> QED
    BY <1>3, <1>4, <2>1, Induction
<1>6. \A n \in 0 .. m : r[n] \in W
  <2> HIDE DEF r
  <2> QED
    BY <1>5
<1>7. r \in [0 .. m -> W] /\ r[m] = g[1 .. m]
  BY <1>6
<1>8. Follows(r, step, s, m)
  <2> HIDE DEF r
  <2> QED
    BY <1>2, <1>6 DEF Follows
<1> HIDE DEF r
<1>9. IsRun(r, W, step, base, s, m)
  BY <1>1, <1>7, <1>8 DEF IsRun
<1> QED
  BY <1>7, <1>9

LEMMA FollowsLess ==
  ASSUME NEW r, NEW step, NEW s, NEW k \in Nat, NEW m \in Nat, m <= k, Follows(r, step, s, k)
  PROVE  Follows(r, step, s, m)
<1>1. \A n \in Nat : n < m => n < k
  OBVIOUS
<1> QED
  BY <1>1 DEF Follows

\* Two walks that start alike and meet the same entries are alike.
LEMMA RunsAgree ==
  ASSUME NEW step, NEW m \in Nat, NEW r, NEW q, NEW s, NEW z,
         Follows(r, step, s, m), Follows(q, step, z, m), r[0] = q[0],
         \A i \in 1 .. m : s[i] = z[i]
  PROVE  r[m] = q[m]
<1> DEFINE N == {n \in Nat : n <= m => r[n] = q[n]}
<1>1. 0 \in N
  OBVIOUS
<1>2. ASSUME NEW n \in N PROVE n + 1 \in N
  <2> SUFFICES ASSUME n + 1 <= m PROVE r[n + 1] = q[n + 1]
    OBVIOUS
  <2>1. n \in Nat /\ n < m /\ r[n] = q[n] /\ s[n + 1] = z[n + 1]
    OBVIOUS
  <2> QED
    BY <2>1 DEF Follows
<1>3. N = Nat
  <2> HIDE DEF N
  <2>1. N \in SUBSET Nat
    BY DEF N
  <2> QED
    BY <1>1, <1>2, <2>1, Induction
<1>4. m \in N
  BY <1>3
<1> QED
  BY <1>4

-----------------------------------------------------------------------------
(* Predictions: sums over days, the trends they make and what follows.       *)

\* The situations of a scope over some days.
OverDays(h, s, S) == MapThenSumSet(LAMBDA d : h[<<s, d>>], S)

Histories == [Cells -> Nat]
AllDays == 0 .. HistoryDays

LEMMA OverDaysIs ==
  ASSUME NEW h, NEW s, NEW S, IsFiniteSet(S)
  PROVE  \E g : IsSum(g, [d \in S |-> h[<<s, d>>]], S) /\ OverDays(h, s, S) = g[S]
<1> DEFINE w == [d \in S |-> h[<<s, d>>]]
           P(g) == g = [t \in SUBSET S |-> IF t = {} THEN 0
                                           ELSE h[<<s, Picked(t)>>] + g[t \ {Picked(t)}]]
<1>1. OverDays(h, s, S) = (CHOOSE g : P(g))[S]
  BY DEF OverDays, MapThenSumSet, MapThenFoldSet, Picked
<1>2. \A t \in SUBSET S : t # {} => Picked(t) \in S
  <2> SUFFICES ASSUME NEW t \in SUBSET S, t # {} PROVE Picked(t) \in S
    OBVIOUS
  <2>1. Picked(t) \in t
    BY Zenon DEF Picked
  <2> QED
    BY <2>1
<1>3. ASSUME NEW g PROVE P(g) <=> IsSum(g, w, S)
  <2>1. [t \in SUBSET S |-> SumStep(g, w, t)]
          = [t \in SUBSET S |-> IF t = {} THEN 0 ELSE h[<<s, Picked(t)>>] + g[t \ {Picked(t)}]]
    BY <1>2 DEF SumStep
  <2> QED
    BY <2>1 DEF IsSum
<1>4. PICK f : IsSum(f, w, S)
  BY SumExists
<1>5. PICK g : g = CHOOSE z : P(z)
  OBVIOUS
<1>6. P(f)
  BY <1>3, <1>4
<1>7. P(g)
  <2> HIDE DEF P
  <2> QED
    BY <1>5, <1>6, Zenon
<1>8. IsSum(g, w, S)
  BY <1>3, <1>7
<1> HIDE DEF P
<1> QED
  BY <1>1, <1>5, <1>8

LEMMA DaysAreFinite == IsFiniteSet(AllDays)
<1>1. 0 \in Int /\ HistoryDays \in Int
  BY PredictionsAssumption
<1> QED
  BY <1>1, FS_Interval DEF AllDays

LEMMA OverDaysCounts ==
  ASSUME NEW h \in Histories, NEW s \in Scopes, NEW S \in SUBSET AllDays
  PROVE  OverDays(h, s, S) \in Nat
<1>0. IsFiniteSet(S)
  BY DaysAreFinite, FS_Subset
<1> DEFINE w == [d \in S |-> h[<<s, d>>]]
<1>1. PICK g : IsSum(g, w, S) /\ OverDays(h, s, S) = g[S]
  BY <1>0, OverDaysIs
<1>2. \A d \in S : w[d] \in Nat
  BY DEF Histories, Cells, AllDays
<1> HIDE DEF w
<1> QED
  BY <1>0, <1>1, <1>2, SumSplits DEF Splits

\* More on each day, or more days, and the sum is no less.
LEMMA OverDaysGrows ==
  ASSUME NEW h \in Histories, NEW e \in Histories, NEW s \in Scopes,
         NEW R \in SUBSET AllDays, NEW S \in SUBSET R,
         \A d \in S : h[<<s, d>>] <= e[<<s, d>>]
  PROVE  OverDays(h, s, S) <= OverDays(e, s, R)
<1>0. IsFiniteSet(R) /\ IsFiniteSet(S) /\ S \in SUBSET AllDays
  BY DaysAreFinite, FS_Subset
<1> DEFINE w == [d \in S |-> h[<<s, d>>]]
           v == [d \in R |-> e[<<s, d>>]]
<1>1. PICK g : IsSum(g, w, S) /\ OverDays(h, s, S) = g[S]
  BY <1>0, OverDaysIs
<1>2. PICK f : IsSum(f, v, R) /\ OverDays(e, s, R) = f[R]
  BY <1>0, OverDaysIs
<1>3. /\ \A d \in S : w[d] \in Nat /\ w[d] <= v[d]
      /\ \A d \in R : v[d] \in Nat
  BY <1>0 DEF Histories, Cells, AllDays
<1> HIDE DEF w, v
<1> QED
  BY <1>0, <1>1, <1>2, <1>3, SumGrows

\* What a trend is, as far as the scores depend on it.
Directions == {"unknown", "increasing", "stable", "decreasing"}
IsTrend(t) ==
  /\ t.total \in Nat /\ t.recent \in Nat /\ t.previous \in Nat
  /\ t.days \in Nat \ {0} /\ t.direction \in Directions
  /\ t.total > 0 => t.direction # "unknown"
  /\ t.direction = "decreasing" => t.previous > 0

DaysOf(h, s) == {d \in AllDays : h[<<s, d>>] > 0}
WithinDays(h, s, a, b) == {d \in DaysOf(h, s) : a <= d /\ d <= b}

\* The trend of a scope, in terms of the sums above.
LEMMA TrendIs ==
  ASSUME NEW h \in Histories, NEW s \in Scopes
  PROVE  /\ IsTrend(BaselineTrend(h, s))
         /\ DaysOf(h, s) = {} => BaselineTrend(h, s).total = 0
         /\ DaysOf(h, s) # {} => BaselineTrend(h, s).total = OverDays(h, s, DaysOf(h, s))
<1> DEFINE D == DaysOf(h, s)
           between(a, b) == OverDays(h, s, WithinDays(h, s, a, b))
           last == Max(D)
           recent == between(last - WindowDays, last)
           previous == between(last - 2 * WindowDays, last - WindowDays - 1)
           span == last - Min(D)
           direction == CASE 10 * (recent - previous) > previous -> "increasing"
                          [] 10 * (previous - recent) > previous -> "decreasing"
                          [] OTHER -> "stable"
<1>1. \A a, b : between(a, b) \in Nat
  <2>1. \A a, b : WithinDays(h, s, a, b) \in SUBSET AllDays
    BY DEF WithinDays, DaysOf
  <2> QED
    BY <2>1, OverDaysCounts
<1>2. CASE D = {}
  <2>1. BaselineTrend(h, s) =
          [total |-> 0, span |-> 0, days |-> WindowDays, recent |-> 0, previous |-> 0,
           direction |-> "unknown"]
    BY <1>2 DEF BaselineTrend, DaysOf, AllDays
  <2> QED
    BY <1>2, <2>1, PredictionsAssumption DEF IsTrend, Directions
<1>3. CASE D # {}
  <2>1. BaselineTrend(h, s) =
          [total |-> between(0, HistoryDays), span |-> span, days |-> Most(span, WindowDays),
           recent |-> recent, previous |-> previous, direction |-> direction]
    BY <1>3 DEF BaselineTrend, DaysOf, WithinDays, AllDays, OverDays, MapThenSumSet, MapThenFoldSet
  <2>2. last \in AllDays /\ Min(D) \in AllDays
    <3>1. D \in SUBSET (0 .. HistoryDays) /\ HistoryDays \in Nat
      BY PredictionsAssumption DEF DaysOf, AllDays
    <3>2. \E d \in D : \A e \in D : e <= d
      BY <1>3, <3>1, LastOf
    <3>3. \E d \in D : \A e \in D : d <= e
      BY <1>3, <3>1, FirstOf
    <3>4. \E d \in D : \A e \in D : d >= e
      BY <3>1, <3>2
    <3> HIDE DEF D
    <3>5. Max(D) \in D
      BY <3>4, Zenon DEF Max
    <3>6. Min(D) \in D
      BY <3>3, Zenon DEF Min
    <3> QED
      BY <3>1, <3>5, <3>6 DEF AllDays
  <2>3. span \in Int
    BY <2>2, PredictionsAssumption DEF AllDays
  <2>4. Most(span, WindowDays) \in Nat \ {0}
    <3> HIDE DEF span
    <3> QED
      BY <2>3, PredictionsAssumption DEF Most
  <2>5. recent \in Nat /\ previous \in Nat /\ between(0, HistoryDays) \in Nat
    BY <1>1
  <2>6. direction \in Directions /\ direction # "unknown" /\ (direction = "decreasing" => previous > 0)
    <3> HIDE DEF recent, previous
    <3> QED
      BY <2>5 DEF Directions
  <2>7. WithinDays(h, s, 0, HistoryDays) = D
    BY DEF WithinDays, DaysOf, AllDays
  <2> HIDE DEF span, recent, previous, direction, last
  <2> QED
    BY <1>3, <2>1, <2>4, <2>5, <2>6, <2>7 DEF IsTrend
<1> QED
  BY <1>2, <1>3

\* A quotient of natural numbers.
LEMMA Quotient ==
  ASSUME NEW a \in Nat, NEW b \in Nat \ {0} PROVE a \div b \in Nat
  OBVIOUS

LEMMA LeastIs ==
  ASSUME NEW a \in Int, NEW b \in Int
  PROVE  /\ Least(a, b) \in {a, b} /\ Least(a, b) <= a /\ Least(a, b) <= b
         /\ Most(a, b) \in {a, b} /\ a <= Most(a, b) /\ b <= Most(a, b)
  BY DEF Least, Most

\* The likelihood of a signal, which only a recurrence has.
LEMMA LikelihoodIs ==
  ASSUME NEW t, IsTrend(t)
  PROVE  /\ Likelihood(t) \in Nat /\ Likelihood(t) <= 9150
         /\ ~Recurs(t) => Likelihood(t) = 0
<1> DEFINE trend == CASE t.direction = "increasing" -> 2000
                      [] t.direction = "stable" -> 1375
                      [] t.direction = "decreasing" -> 625
           ratio == IF t.previous = 0 THEN 1500 ELSE Least((500 * t.recent) \div t.previous, 1500)
           deviation == Least((750 * t.recent * t.days) \div (t.total * WindowDays), 1500)
<1>1. CASE ~Recurs(t)
  BY <1>1 DEF Likelihood
<1>2. CASE Recurs(t)
  <2>0. Likelihood(t) = 350 * Least(PatternCount(t), 10) + trend + ratio + deviation + 650
    BY <1>2 DEF Likelihood
  <2>1. t.total \in Nat /\ t.total >= 2 /\ PatternCount(t) = t.total
    BY <1>2 DEF Recurs, PatternCount, IsTrend
  <2>2. trend \in Nat /\ trend <= 2000
    BY <2>1 DEF IsTrend, Directions
  <2>3. ratio \in Nat /\ ratio <= 1500
    <3>1. t.recent \in Nat /\ t.previous \in Nat /\ 500 * t.recent \in Nat
      BY DEF IsTrend
    <3>2. CASE t.previous = 0
      BY <3>2
    <3>3. CASE t.previous # 0
      <4>1. (500 * t.recent) \div t.previous \in Nat
        BY <3>1, <3>3, Quotient
      <4> QED
        BY <3>3, <4>1 DEF Least
    <3> QED
      BY <3>2, <3>3
  <2>4. deviation \in Nat /\ deviation <= 1500
    <3>1. 750 * t.recent * t.days \in Nat
      BY DEF IsTrend
    <3>2. t.total * WindowDays \in Nat \ {0}
      BY <2>1, PredictionsAssumption
    <3>3. (750 * t.recent * t.days) \div (t.total * WindowDays) \in Nat
      BY <3>1, <3>2, Quotient
    <3> QED
      BY <3>3 DEF Least
  <2>5. Least(PatternCount(t), 10) \in 0 .. 10
    BY <2>1 DEF Least
  <2> HIDE DEF trend, ratio, deviation
  <2> QED
    BY <1>2, <2>0, <2>2, <2>3, <2>4, <2>5
<1> QED
  BY <1>1, <1>2

\* How sure the three forecasts are: a number, the less of it the fewer situations there are.
LEMMA ConfidencesAre ==
  ASSUME NEW t, IsTrend(t)
  PROVE  /\ SignalConfidence(t) \in Nat /\ SignalConfidence(t) <= 10000
         /\ RecurrenceConfidence(t) \in Nat /\ RecurrenceConfidence(t) <= 9500
         /\ WorkloadConfidence(t) \in Nat /\ WorkloadConfidence(t) <= 9000
         /\ ~Recurs(t) => /\ SignalConfidence(t) <= 2500
                          /\ RecurrenceConfidence(t) <= 3950
                          /\ WorkloadConfidence(t) <= 4950
<1>1. /\ t.total \in Nat /\ PatternCount(t) \in Nat /\ Occurred(t) \in Nat
      /\ ~Recurs(t) => PatternCount(t) = 0 /\ Occurred(t) = 1
  BY DEF IsTrend, PatternCount, Recurs, Occurred
<1>2. /\ Least(PatternCount(t), 5) \in 0 .. 5 /\ Least(Occurred(t), 10) \in 0 .. 10
      /\ ~Recurs(t) => Least(PatternCount(t), 5) = 0 /\ Least(Occurred(t), 10) = 1
  BY <1>1 DEF Least
<1>3. /\ SignalConfidence(t) \in Nat /\ SignalConfidence(t) <= 10000
      /\ ~Recurs(t) => SignalConfidence(t) <= 2500
  BY <1>2 DEF SignalConfidence
<1>4. /\ RecurrenceConfidence(t) \in Nat /\ RecurrenceConfidence(t) <= 9500
      /\ ~Recurs(t) => RecurrenceConfidence(t) <= 3950
  BY <1>2 DEF RecurrenceConfidence
<1>5. /\ WorkloadConfidence(t) \in Nat /\ WorkloadConfidence(t) <= 9000
      /\ ~Recurs(t) => WorkloadConfidence(t) <= 4950
  BY <1>2 DEF WorkloadConfidence
<1> QED
  BY <1>3, <1>4, <1>5

LEMMA ConfidencesGrow ==
  ASSUME NEW t, NEW u, IsTrend(t), IsTrend(u), t.total <= u.total
  PROVE  /\ SignalConfidence(t) <= SignalConfidence(u)
         /\ RecurrenceConfidence(t) <= RecurrenceConfidence(u)
         /\ WorkloadConfidence(t) <= WorkloadConfidence(u)
  BY DEF IsTrend, SignalConfidence, RecurrenceConfidence, WorkloadConfidence, Recurs, Occurred,
     PatternCount, HasTrend, Least

\* A share of a number, in ten thousandths, is no more than the number.
LEMMA TenThousandths ==
  ASSUME NEW a \in Nat, NEW p \in Nat, p <= 10000 * a
  PROVE  p \div 10000 \in Nat /\ p \div 10000 <= a
  OBVIOUS

LEMMA Times ==
  ASSUME NEW a \in Nat, NEW b \in 0 .. 10000, NEW p, p = a * b
  PROVE  p \in Nat /\ p <= 10000 * a
<1>1. PICK c \in Nat : b + c = 10000
  <2>1. 10000 - b \in Nat /\ b + (10000 - b) = 10000
    OBVIOUS
  <2> QED
    BY <2>1
<1>2. a * (b + c) = p + a * c /\ p \in Nat /\ a * c \in Nat
  OBVIOUS
<1> QED
  BY <1>1, <1>2

\* A risk is a share of its likelihood.
LEMMA RiskIs ==
  ASSUME NEW t, IsTrend(t)
  PROVE  /\ RiskProbability(t) \in Nat /\ RiskProbability(t) <= Likelihood(t)
         /\ ~Recurs(t) => RiskProbability(t) = 0
<1>1. Likelihood(t) \in Nat /\ (~Recurs(t) => Likelihood(t) = 0)
  BY LikelihoodIs
<1>2. PICK c : c = SignalConfidence(t)
  OBVIOUS
<1>3. c \in Nat /\ c <= 10000
  BY <1>2, ConfidencesAre
<1>4. PICK share : share = 10000 \div 2 + c \div 2
  OBVIOUS
<1>5. share \in 0 .. 10000
  BY <1>3, <1>4
<1>6. RiskProbability(t) = (Likelihood(t) * share) \div 10000
  BY <1>2, <1>4 DEF RiskProbability, One
<1>7. PICK n : n = Likelihood(t)
  OBVIOUS
<1>8. PICK p : p = n * share
  OBVIOUS
<1>9. RiskProbability(t) = p \div 10000 /\ p \div 10000 \in Nat /\ p \div 10000 <= n
  <2>1. n \in Nat
    BY <1>1, <1>7
  <2>2. p \in Nat /\ p <= 10000 * n
    BY <1>5, <1>8, <2>1, Times
  <2>3. p \div 10000 \in Nat /\ p \div 10000 <= n
    BY <2>1, <2>2, TenThousandths
  <2> QED
    BY <1>6, <1>7, <1>8, <2>3
<1>10. ~Recurs(t) => RiskProbability(t) = 0
  <2>1. n = 0 => RiskProbability(t) = 0
    BY <1>5, <1>8, <1>9
  <2> QED
    BY <1>1, <1>7, <2>1
<1> QED
  BY <1>7, <1>9, <1>10

\* No forecast is above one, and that of a scope without a recurrence stays below an alarm.
LEMMA ForecastsAre ==
  ASSUME NEW t, IsTrend(t)
  PROVE  /\ RecurrenceProbability(t) \in Nat /\ RecurrenceProbability(t) <= 9500
         /\ WorkloadProbability(t) \in Nat /\ WorkloadProbability(t) <= 9500
         /\ ~Recurs(t) => RecurrenceProbability(t) <= 4850 /\ WorkloadProbability(t) <= 6800
<1>1. DeviationSize(t) \in Nat
  <2>1. CASE HasTrend(t)
    <3>1. t.total * WindowDays \in Nat \ {0}
      BY <2>1, PredictionsAssumption DEF HasTrend, IsTrend
    <3>2. One * Size(t.recent * t.days - t.total * WindowDays) \in Nat
      <4>1. t.recent * t.days - t.total * WindowDays \in Int
        BY PredictionsAssumption DEF IsTrend
      <4> QED
        BY <4>1 DEF Size, One
    <3> QED
      BY <2>1, <3>1, <3>2, Quotient DEF DeviationSize
  <2>2. CASE ~HasTrend(t)
    BY <2>2 DEF DeviationSize
  <2> QED
    BY <2>1, <2>2
<1>2. Least(DeviationSize(t), One) \div 10 \in Nat /\ Least(DeviationSize(t), One) \div 10 <= 1000
  <2>1. PICK a \in Nat : a = Least(DeviationSize(t), One)
    BY <1>1 DEF Least, One
  <2>2. a <= 10000
    BY <1>1, <2>1 DEF Least, One
  <2>3. a \div 10 \in Nat /\ a \div 10 <= 1000
    BY <2>2
  <2> QED
    BY <2>1, <2>3
<1> DEFINE slope == CASE t.direction = "increasing" ->
                           IF t.previous = 0 THEN 1500
                           ELSE Least((1500 * Most(t.recent - t.previous, 0)) \div t.previous, 1500)
                      [] t.direction = "decreasing" ->
                           - Least((1000 * Most(t.previous - t.recent, 0)) \div t.previous, 1000)
                      [] OTHER -> 0
<1>3. slope \in Int /\ 0 <= slope + 1000 /\ slope <= 1500
  <2>0. t.recent \in Nat /\ t.previous \in Nat
    BY DEF IsTrend
  <2>1. 1500 * Most(t.recent - t.previous, 0) \in Nat /\ 1000 * Most(t.previous - t.recent, 0) \in Nat
    BY <2>0 DEF Most
  <2>2. CASE t.direction = "increasing"
    <3>1. CASE t.previous = 0
      BY <2>2, <3>1
    <3>2. CASE t.previous # 0
      <4>1. (1500 * Most(t.recent - t.previous, 0)) \div t.previous \in Nat
        BY <2>0, <2>1, <3>2, Quotient
      <4>2. slope = Least((1500 * Most(t.recent - t.previous, 0)) \div t.previous, 1500)
        BY <2>2, <3>2
      <4> QED
        BY <4>1, <4>2 DEF Least
    <3> QED
      BY <3>1, <3>2
  <2>3. CASE t.direction = "decreasing"
    <3>0. t.previous \in Nat \ {0}
      BY <2>0, <2>3 DEF IsTrend
    <3>1. (1000 * Most(t.previous - t.recent, 0)) \div t.previous \in Nat
      BY <2>1, <3>0, Quotient
    <3>2. slope = - Least((1000 * Most(t.previous - t.recent, 0)) \div t.previous, 1000)
      BY <2>3
    <3> QED
      BY <3>1, <3>2 DEF Least
  <2>4. CASE t.direction \notin {"increasing", "decreasing"}
    BY <2>4
  <2> QED
    BY <2>2, <2>3, <2>4
<1>4. RecurrenceProbability(t) =
        2000 + 350 * Least(Occurred(t), 10) + (IF Recurs(t) THEN 1500 ELSE 0) + slope
          + Least(DeviationSize(t), One) \div 10
  BY DEF RecurrenceProbability
<1>5. Occurred(t) \in Nat /\ (~Recurs(t) => Occurred(t) = 1)
  BY DEF Occurred, PatternCount, Recurs, IsTrend
<1>6. Least(Occurred(t), 10) \in 0 .. 10 /\ (~Recurs(t) => Least(Occurred(t), 10) = 1)
  BY <1>5 DEF Least
<1> HIDE DEF slope
<1>7. /\ RecurrenceProbability(t) \in Nat /\ RecurrenceProbability(t) <= 9500
      /\ ~Recurs(t) => RecurrenceProbability(t) <= 4850
  BY <1>2, <1>3, <1>4, <1>6
<1> DEFINE rise == CASE t.direction = "increasing" -> 2000
                     [] t.direction = "decreasing" -> 500
                     [] OTHER -> 1000
           above == Most(2 * t.recent - t.previous, 0) * t.days > t.total * WindowDays
<1>8. rise \in 0 .. 2000
  OBVIOUS
<1>9. WorkloadProbability(t) =
        IF HasTrend(t)
        THEN 2000 + 300 * Least(Occurred(t), 10) + rise + (IF above THEN 1500 ELSE 0)
               + Least(DeviationSize(t), One) \div 10
        ELSE 2000
  BY DEF WorkloadProbability
<1> HIDE DEF rise, above
<1>10. /\ WorkloadProbability(t) \in Nat /\ WorkloadProbability(t) <= 9500
       /\ ~Recurs(t) => WorkloadProbability(t) <= 6800
  BY <1>2, <1>6, <1>8, <1>9
<1> QED
  BY <1>7, <1>10

\* Without a recurrence no priority is high, and no confidence.
LEMMA AlarmsNeedRecurrence ==
  ASSUME NEW t, IsTrend(t), NEW d, NEW e
  PROVE  /\ Prediction(t, d, e).priority \in {"high", "critical"} => Prediction(t, d, e).occurrences >= 2
         /\ Prediction(t, d, e).risk <= Prediction(t, d, e).likelihood
         /\ Prediction(t, d, e).explanation.confidenceLevel = "high"
              => Prediction(t, d, e).occurrences >= 2
<1>1. PICK p : p = PredictiveSituation(t, d, e)
  OBVIOUS
<1>2. /\ Prediction(t, d, e).priority = PriorityOf(p)
      /\ Prediction(t, d, e).risk = RiskProbability(t)
      /\ Prediction(t, d, e).likelihood = Likelihood(t)
      /\ Prediction(t, d, e).occurrences = PatternCount(t)
      /\ Prediction(t, d, e).explanation = Explanation(p)
  BY <1>1 DEF Prediction
<1>3. RiskProbability(t) <= Likelihood(t)
  BY RiskIs
<1>4. CASE Recurs(t)
  <2>1. PatternCount(t) >= 2
    BY <1>4 DEF Recurs, PatternCount, IsTrend
  <2> QED
    BY <1>2, <1>3, <2>1
<1>5. CASE ~Recurs(t)
  <2>1. Likelihood(t) = 0 /\ RiskProbability(t) = 0
    BY <1>5, LikelihoodIs, RiskIs
  <2>2. p.probability = (Likelihood(t) + RiskProbability(t) + RecurrenceProbability(t)
                           + WorkloadProbability(t)) \div 4
    BY <1>1 DEF PredictiveSituation
  <2>3. p.probability \in Int /\ p.probability < 4000
    <3>1. /\ RecurrenceProbability(t) \in Int /\ RecurrenceProbability(t) <= 4850
          /\ WorkloadProbability(t) \in Int /\ WorkloadProbability(t) <= 6800
      BY <1>5, ForecastsAre
    <3>2. PICK a \in Int : a = Likelihood(t) + RiskProbability(t) + RecurrenceProbability(t)
                                 + WorkloadProbability(t)
      BY <2>1, <3>1
    <3>3. a <= 11650
      BY <2>1, <3>1, <3>2
    <3> QED
      BY <2>2, <3>2, <3>3
  <2>4. p.severity = IF SeverityOf(RiskProbability(t)) \in {"high", "critical"}
                     THEN SeverityOf(RiskProbability(t)) ELSE SeverityOf(p.probability)
    BY <1>1, <2>2 DEF PredictiveSituation
  <2>5. SeverityOf(RiskProbability(t)) = "info" /\ SeverityOf(p.probability) = "info"
    BY <2>1, <2>3 DEF SeverityOf
  <2>6. p.severity = "info"
    BY <2>4, <2>5
  <2>7. PriorityOf(p) = "info"
    BY <2>3, <2>6 DEF PriorityOf
  <2>8. p.confidence = (2 * SignalConfidence(t) + RecurrenceConfidence(t)
                          + WorkloadConfidence(t)) \div 4
    BY <1>1 DEF PredictiveSituation
  <2>9. p.confidence \in Int /\ p.confidence < 7500
    <3>1. PICK a : a = SignalConfidence(t)
      OBVIOUS
    <3>2. PICK b : b = RecurrenceConfidence(t)
      OBVIOUS
    <3>3. PICK c : c = WorkloadConfidence(t)
      OBVIOUS
    <3>4. /\ a \in Nat /\ b \in Nat /\ c \in Nat
          /\ a <= 2500 /\ b <= 3950 /\ c <= 4950
      BY <1>5, <3>1, <3>2, <3>3, ConfidencesAre
    <3>5. PICK n : n = 2 * a + b + c
      OBVIOUS
    <3>6. n \in Nat /\ n <= 13900
      BY <3>4, <3>5
    <3>7. p.confidence = n \div 4
      BY <2>8, <3>1, <3>2, <3>3, <3>5
    <3> QED
      BY <3>6, <3>7
  <2>10. Explanation(p).confidenceLevel = Level(p.confidence, <<"low", "moderate", "high">>)
    BY DEF Explanation
  <2>11. Level(p.confidence, <<"low", "moderate", "high">>) \in {"low", "moderate"}
    BY <2>9 DEF Level
  <2> QED
    BY <1>2, <1>3, <2>7, <2>10, <2>11
<1> QED
  BY <1>4, <1>5

\* Of two situations of a scope only the end of the window may differ.
LEMMA ScopeIsAlike ==
  ASSUME NEW t, NEW d, NEW o, NEW e
  PROVE  [Prediction(t, d, e) EXCEPT !.situation.end = 0] = [Prediction(t, o, e) EXCEPT !.situation.end = 0]
<1>1. PICK p : p = PredictiveSituation(t, d, e)
  OBVIOUS
<1>2. PICK q : q = PredictiveSituation(t, o, e)
  OBVIOUS
<1>3. /\ p.probability = q.probability /\ p.confidence = q.confidence
      /\ p.severity = q.severity /\ p.evidence = q.evidence
  BY <1>1, <1>2 DEF PredictiveSituation
<1>4. [p EXCEPT !.end = 0] = [q EXCEPT !.end = 0]
  BY <1>1, <1>2 DEF PredictiveSituation
<1>5. PriorityOf(p) = PriorityOf(q)
  BY <1>3 DEF PriorityOf
<1>6. Explanation(p) = Explanation(q)
  <2>1. Factors(p) = Factors(q)
    BY <1>3 DEF Factors
  <2>2. EvidenceStrength(p) = EvidenceStrength(q)
    BY <1>3, <2>1 DEF EvidenceStrength
  <2> QED
    BY <1>3, <2>2 DEF Explanation
<1>7. Prediction(t, d, e) =
        [situation |-> p, priority |-> PriorityOf(p), explanation |-> Explanation(p),
         risk |-> RiskProbability(t), likelihood |-> Likelihood(t),
         occurrences |-> PatternCount(t), direction |-> t.direction]
  BY <1>1 DEF Prediction
<1>8. Prediction(t, o, e) =
        [situation |-> q, priority |-> PriorityOf(q), explanation |-> Explanation(q),
         risk |-> RiskProbability(t), likelihood |-> Likelihood(t),
         occurrences |-> PatternCount(t), direction |-> t.direction]
  BY <1>2 DEF Prediction
<1> QED
  BY <1>4, <1>5, <1>6, <1>7, <1>8

\* The last result is the answer about some history, that of the moment it was asked.
AnswerOf(h, asked) ==
  [c \in asked |-> Prediction(BaselineTrend(h, c[1]), c[2], Chosen(asked, c)[2])]

PredictionInv ==
  /\ PredictionTypeOK
  /\ predicted # NoPrediction =>
       \E h \in Histories, asked \in Askable : predicted = AnswerOf(h, asked)

LEMMA PredictionInitInv == PredictionInit => PredictionInv
  BY PredictionsAssumption DEF PredictionInit, PredictionInv, PredictionTypeOK

LEMMA PredictionInvStep == PredictionInv /\ [PredictionNext]_predictionVars => PredictionInv'
<1> SUFFICES ASSUME PredictionInv, [PredictionNext]_predictionVars PROVE PredictionInv'
  OBVIOUS
<1> USE DEF PredictionInv, PredictionTypeOK
<1>1. ASSUME NEW c \in Cells, NEW k \in Bursts, RecordSituations(c, k) PROVE PredictionInv'
  <2>1. k \in Nat /\ MaxBursts \in Nat
    BY PredictionsAssumption
  <2>2. pastSituations' \in [Cells -> Nat] /\ recordings' \in 0 .. MaxBursts
    BY <1>1, <2>1 DEF RecordSituations
  <2> QED
    BY <1>1, <2>2 DEF RecordSituations
<1>2. ASSUME NEW asked \in Askable, Predict(asked) PROVE PredictionInv'
  <2>1. UNCHANGED <<pastSituations, recordings>> /\ lastCall'.raised \in BOOLEAN
    BY <1>2 DEF Predict
  <2>2. predicted' \in {predicted, AnswerOf(pastSituations, asked)}
    <3>1. asked \subseteq Cells
      BY PredictionsAssumption
    <3>2. \A c \in asked : c[1] \in Scopes
      BY <3>1 DEF Cells
    <3>3. \A c \in asked : [s \in Scopes |-> BaselineTrend(pastSituations, s)][c[1]]
                             = BaselineTrend(pastSituations, c[1])
      BY <3>2
    <3>4. predicted' \in {predicted,
            [c \in asked |-> Prediction([s \in Scopes |-> BaselineTrend(pastSituations, s)][c[1]],
                                        c[2], Chosen(asked, c)[2])]}
      BY <1>2 DEF Predict
    <3> QED
      BY <3>3, <3>4 DEF AnswerOf
  <2>3. pastSituations \in Histories
    BY DEF Histories
  <2>4. DOMAIN AnswerOf(pastSituations, asked) = asked
    BY DEF AnswerOf
  <2> QED
    BY <2>1, <2>2, <2>3, <2>4
<1>3. CASE ClearPredictions
  BY <1>3 DEF ClearPredictions
<1>4. CASE UNCHANGED predictionVars
  BY <1>4 DEF predictionVars
<1> QED
  BY <1>1, <1>2, <1>3, <1>4 DEF PredictionNext

LEMMA PredictionInvImplies == PredictionInv => PredictionTypeOK /\ ScopesAgree /\ AlarmsAreBacked
<1> SUFFICES ASSUME PredictionInv, predicted # NoPrediction PROVE ScopesAgree /\ AlarmsAreBacked
  BY DEF PredictionInv, ScopesAgree, AlarmsAreBacked
<1>1. PICK h \in Histories, asked \in Askable : predicted = AnswerOf(h, asked)
  BY DEF PredictionInv
<1>2. DOMAIN predicted = asked /\ \A c \in asked : c[1] \in Scopes
  BY <1>1, PredictionsAssumption DEF AnswerOf, Cells
<1>3. \A c \in asked :
        predicted[c] = Prediction(BaselineTrend(h, c[1]), c[2], Chosen(asked, c)[2])
  BY <1>1 DEF AnswerOf
<1>4. ScopesAgree
  <2>1. ASSUME NEW c \in asked, NEW o \in asked, c[1] = o[1]
        PROVE  [predicted[c] EXCEPT !.situation.end = 0] = [predicted[o] EXCEPT !.situation.end = 0]
    <3>1. Chosen(asked, c) = Chosen(asked, o)
      BY <2>1 DEF Chosen
    <3>2. /\ predicted[c] = Prediction(BaselineTrend(h, c[1]), c[2], Chosen(asked, c)[2])
          /\ predicted[o] = Prediction(BaselineTrend(h, c[1]), o[2], Chosen(asked, c)[2])
      BY <1>3, <2>1, <3>1
    <3> QED
      BY <3>2, ScopeIsAlike
  <2> QED
    BY <1>2, <2>1 DEF ScopesAgree
<1>5. AlarmsAreBacked
  <2>1. ASSUME NEW c \in asked
        PROVE  /\ predicted[c].priority \in {"high", "critical"} => predicted[c].occurrences >= 2
               /\ predicted[c].risk <= predicted[c].likelihood
               /\ predicted[c].explanation.confidenceLevel = "high" => predicted[c].occurrences >= 2
    BY <1>2, <1>3, TrendIs, AlarmsNeedRecurrence
  <2> QED
    BY <1>2, <2>1 DEF AlarmsAreBacked
<1> QED
  BY <1>4, <1>5

\* More situations, no less sure.
LEMMA SurerStep == PredictionInv /\ [PredictionNext]_predictionVars => SurerWithMore
<1> SUFFICES ASSUME PredictionInv, [PredictionNext]_predictionVars, recordings' > recordings,
                    NEW s \in Scopes
             PROVE  /\ SignalConfidence(BaselineTrend(pastSituations', s))
                         >= SignalConfidence(BaselineTrend(pastSituations, s))
                    /\ RecurrenceConfidence(BaselineTrend(pastSituations', s))
                         >= RecurrenceConfidence(BaselineTrend(pastSituations, s))
                    /\ WorkloadConfidence(BaselineTrend(pastSituations', s))
                         >= WorkloadConfidence(BaselineTrend(pastSituations, s))
  BY DEF SurerWithMore
<1>1. recordings \in Nat /\ pastSituations \in Histories
  BY PredictionsAssumption DEF PredictionInv, PredictionTypeOK, Histories
<1>2. PICK c \in Cells, k \in Bursts : RecordSituations(c, k)
  BY <1>1 DEF PredictionNext, Predict, ClearPredictions, predictionVars
<1>3. PICK h : h = pastSituations'
  OBVIOUS
<1>4. k \in Nat
  BY PredictionsAssumption
<1>5. h = [pastSituations EXCEPT ![c] = @ + k]
  BY <1>2, <1>3 DEF RecordSituations
<1>6. h \in Histories /\ \A d \in AllDays : pastSituations[<<s, d>>] <= h[<<s, d>>]
  <2>1. h \in Histories
    BY <1>1, <1>4, <1>5 DEF Histories
  <2>2. ASSUME NEW d \in AllDays PROVE pastSituations[<<s, d>>] <= h[<<s, d>>]
    <3>1. <<s, d>> \in Cells
      BY DEF Cells, AllDays
    <3> QED
      BY <1>1, <1>4, <1>5, <3>1 DEF Histories
  <2> QED
    BY <2>1, <2>2
<1>7. BaselineTrend(pastSituations, s).total <= BaselineTrend(h, s).total
  <2>1. DaysOf(pastSituations, s) \subseteq DaysOf(h, s)
    <3>1. \A d \in AllDays : pastSituations[<<s, d>>] \in Nat /\ h[<<s, d>>] \in Nat
      BY <1>1, <1>6 DEF Histories, Cells, AllDays
    <3> QED
      BY <1>6, <3>1 DEF DaysOf
  <2>2. DaysOf(h, s) \in SUBSET AllDays /\ DaysOf(pastSituations, s) \in SUBSET DaysOf(h, s)
    BY <2>1 DEF DaysOf
  <2>3. OverDays(pastSituations, s, DaysOf(pastSituations, s)) <= OverDays(h, s, DaysOf(h, s))
    BY <1>1, <1>6, <2>2, OverDaysGrows
  <2>4. BaselineTrend(h, s).total \in Nat
    BY <1>6, TrendIs DEF IsTrend
  <2>5. CASE DaysOf(pastSituations, s) = {}
    BY <1>1, <2>4, <2>5, TrendIs
  <2>6. CASE DaysOf(pastSituations, s) # {}
    BY <1>1, <1>6, <2>1, <2>3, <2>6, TrendIs
  <2> QED
    BY <2>5, <2>6
<1>8. IsTrend(BaselineTrend(pastSituations, s)) /\ IsTrend(BaselineTrend(h, s))
  BY <1>1, <1>6, TrendIs
<1>9. PICK t : t = BaselineTrend(pastSituations, s)
  OBVIOUS
<1>10. PICK u : u = BaselineTrend(h, s)
  OBVIOUS
<1>11. /\ SignalConfidence(t) <= SignalConfidence(u)
       /\ RecurrenceConfidence(t) <= RecurrenceConfidence(u)
       /\ WorkloadConfidence(t) <= WorkloadConfidence(u)
  BY <1>7, <1>8, <1>9, <1>10, ConfidencesGrow
<1>12. \A a, b \in Nat : a <= b => b >= a
  OBVIOUS
<1>13. /\ SignalConfidence(t) \in Nat /\ RecurrenceConfidence(t) \in Nat
       /\ WorkloadConfidence(t) \in Nat
  BY <1>8, <1>9, ConfidencesAre
<1>14. /\ SignalConfidence(u) \in Nat /\ RecurrenceConfidence(u) \in Nat
       /\ WorkloadConfidence(u) \in Nat
  BY <1>8, <1>10, ConfidencesAre
<1> QED
  BY <1>3, <1>9, <1>10, <1>11, <1>12, <1>13, <1>14

\* The span of a trend is nothing where all situations of its scope came on one day.
LEMMA SpanIs ==
  ASSUME NEW h \in Histories, NEW s \in Scopes
  PROVE  /\ BaselineTrend(h, s).span \in Nat
         /\ DaysOf(h, s) # {} =>
              (BaselineTrend(h, s).span = 0 <=> Cardinality(DaysOf(h, s)) = 1)
<1> DEFINE D == DaysOf(h, s)
<1>1. CASE D = {}
  BY <1>1 DEF BaselineTrend, DaysOf, AllDays
<1>2. CASE D # {}
  <2>1. D \in SUBSET (0 .. HistoryDays) /\ HistoryDays \in Nat /\ D \in SUBSET Nat
    BY PredictionsAssumption DEF DaysOf, AllDays
  <2>2. BaselineTrend(h, s).span = Max(D) - Min(D)
    BY <1>2 DEF BaselineTrend, DaysOf, AllDays
  <2>3. \E d \in D : \A e \in D : d >= e
    BY <1>2, <2>1, LastOf
  <2>4. \E d \in D : \A e \in D : d <= e
    BY <1>2, <2>1, FirstOf
  <2> HIDE DEF D
  <2>5. Max(D) \in D /\ \A e \in D : Max(D) >= e
    BY <2>3, Zenon DEF Max
  <2>6. Min(D) \in D /\ \A e \in D : Min(D) <= e
    BY <2>4, Zenon DEF Min
  <2>7. PICK a \in D : a = Max(D)
    BY <2>5
  <2>8. PICK b \in D : b = Min(D)
    BY <2>6
  <2>9. a \in Nat /\ b \in Nat /\ a - b \in Nat
    BY <2>1, <2>5, <2>7
  <2>10. a - b = 0 => D = {a}
    <3>1. \A e \in D : e \in Nat /\ b <= e /\ a >= e
      BY <2>1, <2>5, <2>6, <2>7, <2>8
    <3>2. a - b = 0 => \A e \in D : e = a
      BY <2>9, <3>1
    <3> QED
      BY <3>2
  <2>11. Cardinality(D) = 1 => \E x : D = {x}
    <3>1. IsFiniteSet(D)
      BY <2>1, DaysAreFinite, FS_Subset DEF AllDays
    <3> QED
      BY <3>1, FS_Singleton
  <2>12. Cardinality({a}) = 1
    BY FS_Singleton
  <2> QED
    BY <2>2, <2>7, <2>8, <2>9, <2>10, <2>11, <2>12 DEF D
<1> QED
  BY <1>1, <1>2

\* The mean interval is nothing for a recurrence of one day, and for no other.
LEMMA IntervalIs ==
  ASSUME NEW t, IsTrend(t), t.span \in Nat
  PROVE  /\ ~ Recurs(t) => AverageInterval(t) = NoTicks
         /\ Recurs(t) => AverageInterval(t) \in Nat
         /\ AverageInterval(t) = 0 <=> t.total >= 2 /\ t.span = 0
<1>1. t.total \in Nat /\ (Recurs(t) <=> t.total >= 2)
  BY DEF IsTrend, Recurs, PatternCount
<1>2. CASE ~ Recurs(t)
  BY <1>1, <1>2 DEF AverageInterval, NoTicks
<1>3. CASE Recurs(t) /\ t.span = 0
  BY <1>1, <1>3 DEF AverageInterval
<1>4. CASE Recurs(t) /\ t.span # 0
  <2>1. Ticks * t.span \in Nat /\ t.total - 1 \in Nat \ {0}
    BY <1>1, <1>4 DEF Ticks
  <2>2. PICK n : n = (Ticks * t.span) \div (t.total - 1)
    OBVIOUS
  <2>3. n \in Nat
    BY <2>1, <2>2, Quotient
  <2>4. AverageInterval(t) = Most(n, 1)
    BY <1>4, <2>2 DEF AverageInterval
  <2> QED
    BY <1>1, <1>4, <2>3, <2>4 DEF Most
<1> QED
  BY <1>2, <1>3, <1>4

\* Of the situations of a scope a runtime is asked about, the one whose forecast is taken is one.
LEMMA ChosenIs ==
  ASSUME NEW asked \in SUBSET Cells, NEW c \in asked
  PROVE  Chosen(asked, c) \in asked
<1> DEFINE S == {b \in asked : b[1] = c[1]}
           T == {b[2] : b \in S}
           R == {IdRank[b] : b \in S}
<1>1. T \subseteq AllDays /\ IsFiniteSet(T)
  <2>1. T \subseteq AllDays
    BY DEF Cells, AllDays
  <2> QED
    BY <2>1, DaysAreFinite, FS_Subset
<1>2. IsFiniteSet(R)
  <2> DEFINE f == [d \in T |-> IdRank[<<c[1], d>>]]
  <2>1. \A b \in S : b = <<c[1], b[2]>>
    BY DEF Cells
  <2>2. f \in Surjection(T, R)
    <3>1. f \in [T -> R]
      BY <2>1
    <3>2. \A r \in R : \E d \in T : f[d] = r
      BY <2>1
    <3> QED
      BY <3>1, <3>2 DEF Surjection
  <2> HIDE DEF f, T, R
  <2> QED
    BY <1>1, <2>2, FS_Surjection
<1>3. R \in SUBSET Nat /\ R # {}
  <2>1. \A b \in S : IdRank[b] \in Nat
    BY PredictionsAssumption
  <2>2. c \in S
    OBVIOUS
  <2> QED
    BY <2>1, <2>2
<1>4. \E r \in R : \A o \in R : o <= r
  <2> HIDE DEF R
  <2>1. Max(R) \in R /\ \A o \in R : Max(R) >= o /\ Max(R) \in Nat /\ o \in Nat
    BY <1>2, <1>3, GreatestOf
  <2>2. \A o \in R : o <= Max(R)
    BY <2>1
  <2> QED
    BY <2>1, <2>2
<1>5. \E b \in asked : b[1] = c[1] /\ \A o \in asked : o[1] = c[1] => IdRank[o] <= IdRank[b]
  BY <1>4
<1> QED
  BY <1>5, Zenon DEF Chosen

\* A window of a trend does not end before it starts, and ends at no more than n.
Forward(w, n) == w.start \in Int /\ w.end \in 0 .. n /\ w.start <= w.end

LEMMA WindowIs ==
  ASSUME NEW c, NEW m, NEW w \in RecentWindow(c, m)
  PROVE  w = [start |-> c - m, end |-> c + m]
  BY DEF RecentWindow

LEMMA WindowsAreForward ==
  ASSUME NEW t, IsTrend(t), t.span \in Nat
  PROVE  \E n \in Nat : \A d \in AllDays :
           /\ \A w \in SignalWindow(t, d) : Forward(w, n)
           /\ \A w \in RecurrenceWindow(t, d) : Forward(w, n)
           /\ \A w \in WorkloadWindow(d) : Forward(w, n)
<1>1. PICK i : i = AverageInterval(t)
  OBVIOUS
<1>2. (~ Recurs(t) => i = -1) /\ (Recurs(t) => i \in Nat)
  BY <1>1, IntervalIs DEF NoTicks
<1>3. HistoryDays \in Nat /\ ForecastDays \in Nat
  BY PredictionsAssumption
<1>4. PICK k \in Nat : i <= k
  BY <1>2
<1> DEFINE n == 48 * HistoryDays + 48 * ForecastDays + 2 * k + 1
<1>5. n \in Nat
  BY <1>3
<1>6. ASSUME NEW d \in AllDays
      PROVE  /\ \A w \in SignalWindow(t, d) : Forward(w, n)
             /\ \A w \in RecurrenceWindow(t, d) : Forward(w, n)
             /\ \A w \in WorkloadWindow(d) : Forward(w, n)
  <2>1. d \in Nat /\ d <= HistoryDays
    BY <1>3 DEF AllDays
  <2>2. ASSUME NEW w \in SignalWindow(t, d) PROVE Forward(w, n)
    <3>1. i \in Nat
      BY <1>2, <2>2 DEF SignalWindow
    <3>2. PICK m : m = Most(i \div 4, 1)
      OBVIOUS
    <3>3. m \in Nat /\ m <= i + 1
      BY <3>1, <3>2 DEF Most
    <3>4. PICK c : c = 48 * d + i
      OBVIOUS
    <3>5. SignalWindow(t, d) = RecentWindow(c, m)
      BY <1>1, <2>2, <3>2, <3>4 DEF SignalWindow, Ticks
    <3>6. w = [start |-> c - m, end |-> c + m]
      BY <2>2, <3>5, WindowIs
    <3>7. w.start = c - m /\ w.end = c + m
      BY <3>6
    <3> QED
      BY <1>3, <1>4, <2>1, <3>1, <3>3, <3>4, <3>7 DEF Forward
  <2>3. ASSUME NEW w \in RecurrenceWindow(t, d) PROVE Forward(w, n)
    <3>1. i \in Nat
      BY <1>1, <1>2, <2>3 DEF RecurrenceWindow
    <3>2. PICK m : m = i \div 4
      OBVIOUS
    <3>3. m \in Nat /\ m <= i
      BY <3>1, <3>2
    <3>4. PICK c : c = 48 * d + i
      OBVIOUS
    <3>5. RecurrenceWindow(t, d) = RecentWindow(c, m)
      BY <1>1, <2>3, <3>2, <3>4 DEF RecurrenceWindow, Ticks
    <3>6. w = [start |-> c - m, end |-> c + m]
      BY <2>3, <3>5, WindowIs
    <3>7. w.start = c - m /\ w.end = c + m
      BY <3>6
    <3> QED
      BY <1>3, <1>4, <2>1, <3>1, <3>3, <3>4, <3>7 DEF Forward
  <2>4. ASSUME NEW w \in WorkloadWindow(d) PROVE Forward(w, n)
    <3>1. w = [start |-> 48 * d, end |-> 48 * (d + ForecastDays)]
      BY <2>4 DEF WorkloadWindow, Ticks
    <3> QED
      BY <1>3, <1>4, <2>1, <3>1 DEF Forward
  <2> QED
    BY <2>2, <2>3, <2>4
<1> HIDE DEF n
<1> QED
  BY <1>5, <1>6

\* What a class takes for a probability, a confidence or a strength.
IsScore(n) == n \in Nat /\ n <= 10000

\* The four together: a probability and a confidence, over a window that does not end too soon.
LEMMA SituationIs ==
  ASSUME NEW t, IsTrend(t), t.span \in Nat, NEW d \in AllDays, NEW e \in AllDays,
         NEW p, p = PredictiveSituation(t, d, e)
  PROVE  /\ IsScore(p.probability) /\ IsScore(p.confidence)
         /\ p.evidence \in Nat /\ ~ (p.end < p.start)
<1>1. p.evidence \in Nat
  <2>1. Occurred(t) \in Nat
    BY DEF Occurred, PatternCount, Recurs, IsTrend
  <2> QED
    BY <2>1 DEF PredictiveSituation
<1>2. IsScore(p.probability)
  <2>1. PICK a : a = Likelihood(t)
    OBVIOUS
  <2>2. PICK b : b = RiskProbability(t)
    OBVIOUS
  <2>3. PICK c : c = RecurrenceProbability(t)
    OBVIOUS
  <2>4. PICK f : f = WorkloadProbability(t)
    OBVIOUS
  <2>5. /\ IsScore(a) /\ IsScore(b)
        /\ IsScore(c) /\ IsScore(f)
    <3>1. a \in Nat /\ a <= 9150
      BY <2>1, LikelihoodIs
    <3>2. b \in Nat /\ b <= a
      BY <2>1, <2>2, RiskIs
    <3>3. c \in Nat /\ c <= 9500 /\ f \in Nat /\ f <= 9500
      BY <2>3, <2>4, ForecastsAre
    <3> QED
      BY <3>1, <3>2, <3>3 DEF IsScore
  <2>6. PICK n : n = a + b + c + f
    OBVIOUS
  <2>7. n \in Nat /\ n <= 40000
    BY <2>5, <2>6 DEF IsScore
  <2>8. p.probability = n \div 4
    BY <2>1, <2>2, <2>3, <2>4, <2>6 DEF PredictiveSituation
  <2> QED
    BY <2>7, <2>8 DEF IsScore
<1>3. IsScore(p.confidence)
  <2>1. PICK a : a = SignalConfidence(t)
    OBVIOUS
  <2>2. PICK b : b = RecurrenceConfidence(t)
    OBVIOUS
  <2>3. PICK c : c = WorkloadConfidence(t)
    OBVIOUS
  <2>4. IsScore(a) /\ IsScore(b) /\ IsScore(c)
    BY <2>1, <2>2, <2>3, ConfidencesAre DEF IsScore
  <2>5. PICK n : n = 2 * a + b + c
    OBVIOUS
  <2>6. n \in Nat /\ n <= 40000
    BY <2>4, <2>5 DEF IsScore
  <2>7. p.confidence = n \div 4
    BY <2>1, <2>2, <2>3, <2>5 DEF PredictiveSituation
  <2> QED
    BY <2>6, <2>7 DEF IsScore
<1>4. ~ (p.end < p.start)
  <2> DEFINE first == IF SignalWindow(t, e) # {} THEN SignalWindow(t, e) ELSE WorkloadWindow(e)
             windows == UNION {SignalWindow(t, e), RecurrenceWindow(t, e), WorkloadWindow(e),
                               SignalWindow(t, d)}
             ends == {w.end : w \in windows}
  <2>1. p.start = (CHOOSE w \in first : TRUE).start /\ p.end = Max(ends)
    BY DEF PredictiveSituation
  <2>2. first # {} /\ first \subseteq windows
    BY DEF WorkloadWindow
  <2>3. PICK n \in Nat : \A w \in windows : Forward(w, n)
    <3>1. PICK n \in Nat : \A x \in AllDays :
            /\ \A w \in SignalWindow(t, x) : Forward(w, n)
            /\ \A w \in RecurrenceWindow(t, x) : Forward(w, n)
            /\ \A w \in WorkloadWindow(x) : Forward(w, n)
      BY WindowsAreForward
    <3> QED
      BY <3>1
  <2> HIDE DEF first, windows
  <2>4. PICK w : w = CHOOSE x \in first : TRUE
    OBVIOUS
  <2>5. w \in first
    BY <2>2, <2>4, Zenon
  <2>6. Forward(w, n) /\ w.end \in ends
    BY <2>2, <2>3, <2>5
  <2>7. ends \in SUBSET (0 .. n) /\ ends # {}
    BY <2>3, <2>6 DEF Forward
  <2> HIDE DEF ends
  <2>8. \E a \in ends : \A b \in ends : b <= a
    BY <2>3, <2>7, LastOf
  <2>9. \E a \in ends : \A b \in ends : a >= b
    BY <2>7, <2>8
  <2>10. Max(ends) \in ends /\ \A b \in ends : Max(ends) >= b
    BY <2>9, Zenon DEF Max
  <2>11. PICK last \in ends : last = Max(ends)
    BY <2>10
  <2>12. last \in Nat
    BY <2>3, <2>7, <2>11
  <2>13. last >= w.end
    BY <2>6, <2>10, <2>11
  <2> QED
    BY <2>1, <2>4, <2>6, <2>11, <2>12, <2>13 DEF Forward
<1> QED
  BY <1>1, <1>2, <1>3, <1>4

\* The evidence of an explanation is at most one, which all six factors make it.
LEMMA StrengthIs ==
  ASSUME NEW p, p.evidence \in Nat
  PROVE  IsScore(EvidenceStrength(p))
<1> DEFINE all == {"probability", "confidence", "historical", "risk", "recurrence", "workload"}
<1>1. IsFiniteSet(all) /\ Cardinality(all) <= 6
  <2> DEFINE a == {"probability"}
             b == a \union {"confidence"}
             c == b \union {"historical"}
             d == c \union {"risk"}
             f == d \union {"recurrence"}
             g == f \union {"workload"}
  <2>1. all = g
    OBVIOUS
  <2>2. IsFiniteSet(a) /\ Cardinality(a) = 1
    BY FS_Singleton
  <2> HIDE DEF all, a, b, c, d, f, g
  <2>3. IsFiniteSet(a) /\ Cardinality(a) \in 0 .. 1
    BY <2>2
  <2>4. IsFiniteSet(b) /\ Cardinality(b) \in 0 .. 2
    BY <2>3, FS_AddElement DEF b
  <2>5. IsFiniteSet(c) /\ Cardinality(c) \in 0 .. 3
    BY <2>4, FS_AddElement DEF c
  <2>6. IsFiniteSet(d) /\ Cardinality(d) \in 0 .. 4
    BY <2>5, FS_AddElement DEF d
  <2>7. IsFiniteSet(f) /\ Cardinality(f) \in 0 .. 5
    BY <2>6, FS_AddElement DEF f
  <2>8. IsFiniteSet(g) /\ Cardinality(g) \in 0 .. 6
    BY <2>7, FS_AddElement DEF g
  <2> QED
    BY <2>1, <2>8
<1>2. Factors(p) \subseteq all
  BY DEF Factors
<1> HIDE DEF all
<1>3. IsFiniteSet(Factors(p)) /\ Cardinality(Factors(p)) <= Cardinality(all)
  BY <1>1, <1>2, FS_Subset
<1>4. Cardinality(Factors(p)) \in Nat /\ Cardinality(all) \in Nat
  BY <1>1, <1>3, FS_CardinalityType
<1>5. PICK n : n = Cardinality(Factors(p))
  OBVIOUS
<1>6. n \in 0 .. 6
  BY <1>1, <1>3, <1>4, <1>5
<1>7. PICK m : m = (2500 * n) \div 6
  OBVIOUS
<1>8. m \in Nat /\ m <= 2500
  BY <1>6, <1>7
<1>9. PICK k : k = Least(p.evidence, 5)
  OBVIOUS
<1>10. k \in 0 .. 5
  BY <1>9 DEF Least
<1>11. EvidenceStrength(p) = 3500 + m + 2000 + 400 * k
  BY <1>5, <1>7, <1>9 DEF EvidenceStrength
<1> QED
  BY <1>8, <1>10, <1>11 DEF IsScore

\* Only a mean interval of nothing makes an object refuse what the analysis derives.
LEMMA RefusedIs ==
  ASSUME NEW t, IsTrend(t), t.span \in Nat, NEW d \in AllDays, NEW e \in AllDays,
         NEW p, p = PredictiveSituation(t, d, e)
  PROVE  Refused(t, p) <=> t.total >= 2 /\ t.span = 0
<1>1. /\ IsScore(p.probability) /\ IsScore(p.confidence)
      /\ p.evidence \in Nat /\ ~ (p.end < p.start)
  BY SituationIs
<1>2. IsScore(EvidenceStrength(p))
  BY <1>1, StrengthIs
<1>3. /\ IsScore(RecurrenceProbability(t)) /\ IsScore(WorkloadProbability(t))
      /\ IsScore(RecurrenceConfidence(t)) /\ IsScore(WorkloadConfidence(t))
  <2>1. \A n \in Nat : n <= 9500 => IsScore(n)
    BY DEF IsScore
  <2>2. \A n \in Nat : n <= 9000 => IsScore(n)
    BY DEF IsScore
  <2> QED
    BY <2>1, <2>2, ConfidencesAre, ForecastsAre
<1>4. \A n : IsScore(n) => Fraction(n)
  BY DEF IsScore, Fraction, One
<1>5. Refused(t, p) <=> AverageInterval(t) = 0
  BY <1>1, <1>2, <1>3, <1>4 DEF Refused
<1> QED
  BY <1>5, IntervalIs

\* An analysis raises exactly where the situations of a scope all came at one instant.
LEMMA OnlyInstantsStep == PredictionInv /\ [PredictionNext]_predictionVars => OnlyInstantsFail
<1> SUFFICES ASSUME PredictionInv, [PredictionNext]_predictionVars, lastCall' # lastCall
             PROVE  lastCall'.raised <=> \E c \in lastCall'.asked :
                      /\ BaselineTrend(pastSituations, c[1]).total >= 2
                      /\ Cardinality({d \in 0 .. HistoryDays : pastSituations[<<c[1], d>>] > 0}) = 1
  BY DEF OnlyInstantsFail
<1>1. PICK asked \in Askable : Predict(asked)
  BY DEF PredictionNext, RecordSituations, ClearPredictions, predictionVars
<1>2. PICK h : h = pastSituations
  OBVIOUS
<1>3. h \in Histories
  BY <1>2 DEF PredictionInv, PredictionTypeOK, Histories
<1>4. asked \in SUBSET Cells
  BY PredictionsAssumption
<1>5. \A c \in asked : c[1] \in Scopes /\ c[2] \in AllDays
  BY <1>4 DEF Cells, AllDays
<1> DEFINE Trend(c) == BaselineTrend(h, c[1])
           Answer(c) == PredictiveSituation(Trend(c), c[2], Chosen(asked, c)[2])
<1>6. lastCall' = [asked |-> asked, raised |-> \E c \in asked : Refused(Trend(c), Answer(c))]
  <2> DEFINE trends == [s \in Scopes |-> BaselineTrend(h, s)]
             answer == [c \in asked |-> Prediction(trends[c[1]], c[2], Chosen(asked, c)[2])]
  <2>1. lastCall' = [asked |-> asked,
                     raised |-> \E c \in asked : Refused(trends[c[1]], answer[c].situation)]
    BY <1>1, <1>2 DEF Predict
  <2>2. ASSUME NEW c \in asked
        PROVE  trends[c[1]] = Trend(c) /\ answer[c].situation = Answer(c)
    <3>1. trends[c[1]] = Trend(c)
      BY <1>5
    <3>2. answer[c] = Prediction(Trend(c), c[2], Chosen(asked, c)[2])
      BY <3>1
    <3>3. Prediction(Trend(c), c[2], Chosen(asked, c)[2]).situation = Answer(c)
      BY DEF Prediction
    <3> QED
      BY <3>1, <3>2, <3>3
  <2> HIDE DEF trends, answer, Trend, Answer
  <2> QED
    BY <2>1, <2>2
<1>7. ASSUME NEW c \in asked
      PROVE  Refused(Trend(c), Answer(c))
               <=> Trend(c).total >= 2 /\ Cardinality(DaysOf(h, c[1])) = 1
  <2>1. /\ IsTrend(Trend(c)) /\ Trend(c).span \in Nat
        /\ DaysOf(h, c[1]) # {} => (Trend(c).span = 0 <=> Cardinality(DaysOf(h, c[1])) = 1)
    BY <1>3, <1>5, TrendIs, SpanIs
  <2>2. DaysOf(h, c[1]) = {} => Trend(c).total = 0
    BY <1>3, <1>5, TrendIs
  <2>3. Chosen(asked, c)[2] \in AllDays
    BY <1>4, <1>5, ChosenIs
  <2>4. PICK t : t = Trend(c)
    OBVIOUS
  <2>5. PICK p : p = Answer(c)
    OBVIOUS
  <2>6. PICK e \in AllDays : e = Chosen(asked, c)[2]
    BY <2>3
  <2>7. p = PredictiveSituation(t, c[2], e) /\ c[2] \in AllDays
    BY <1>5, <2>4, <2>5, <2>6
  <2> HIDE DEF Trend, Answer
  <2>8. Refused(t, p) <=> t.total >= 2 /\ t.span = 0
    BY <2>1, <2>4, <2>7, RefusedIs
  <2> QED
    BY <2>1, <2>2, <2>4, <2>5, <2>8
<1>8. \A c \in asked : DaysOf(h, c[1]) = {d \in 0 .. HistoryDays : h[<<c[1], d>>] > 0}
  BY DEF DaysOf, AllDays
<1>9. lastCall'.asked = asked /\ (lastCall'.raised <=> \E c \in asked : Refused(Trend(c), Answer(c)))
  BY <1>6
<1> QED
  BY <1>2, <1>7, <1>8, <1>9

-----------------------------------------------------------------------------
(* Background intelligence: what a context keeps of what was observed.       *)

\* Observations as such, whatever a caller presents.
Moments == [id : Nat, at : Nat]

LEMMA BeforeIs ==
  ASSUME NEW x \in Moments, NEW y \in Moments, NEW z \in Moments
  PROVE  /\ ~Before(x, x) /\ (Before(x, y) /\ Before(y, z) => Before(x, z))
         /\ x # y => Before(x, y) \/ Before(y, x)
<1>1. /\ x.id \in Nat /\ y.id \in Nat /\ z.id \in Nat
      /\ x.at \in Nat /\ y.at \in Nat /\ z.at \in Nat
      /\ x.id = y.id /\ x.at = y.at => x = y
  BY DEF Moments
<1> QED
  BY <1>1 DEF Before

LaterIn(o, S) == {p \in S : Before(o, p)}

\* The last of finitely many observations: the one with the fewest after it.
LEMMA LastObservation ==
  ASSUME NEW S \in SUBSET Moments, IsFiniteSet(S), S # {}
  PROVE  \E o \in S : LaterIn(o, S) = {}
<1>1. \A o \in S : /\ IsFiniteSet(LaterIn(o, S)) /\ Cardinality(LaterIn(o, S)) \in Nat
                   /\ LaterIn(o, S) \in SUBSET S
  <2>1. \A o \in S : LaterIn(o, S) \in SUBSET S
    BY DEF LaterIn
  <2> QED
    BY <2>1, FS_Subset, FS_CardinalityType
<1> DEFINE counts == {n \in Nat : \E o \in S : n = Cardinality(LaterIn(o, S))}
<1>2. counts \in SUBSET Nat /\ counts # {}
  BY <1>1
<1>3. PICK n \in counts : \A m \in counts : n <= m
  BY <1>2, FirstOf
<1>4. PICK o \in S : n = Cardinality(LaterIn(o, S))
  BY <1>3
<1>5. ASSUME NEW p \in LaterIn(o, S) PROVE FALSE
  <2>1. p \in S /\ Before(o, p)
    BY <1>5 DEF LaterIn
  <2>2. LaterIn(p, S) \subseteq LaterIn(o, S) /\ p \notin LaterIn(p, S)
    <3>1. ~Before(p, p) /\ \A q \in S : Before(p, q) => Before(o, q)
      BY <2>1, BeforeIs
    <3> QED
      BY <3>1 DEF LaterIn
  <2>3. LaterIn(p, S) \in SUBSET (LaterIn(o, S) \ {p})
    BY <2>2
  <2>4. /\ IsFiniteSet(LaterIn(o, S) \ {p})
        /\ Cardinality(LaterIn(o, S) \ {p}) = Cardinality(LaterIn(o, S)) - 1
    BY <1>1, <1>5, FS_RemoveElement
  <2>5. Cardinality(LaterIn(p, S)) <= Cardinality(LaterIn(o, S) \ {p})
    BY <2>3, <2>4, FS_Subset
  <2>6. Cardinality(LaterIn(p, S)) \in counts
    BY <1>1, <2>1
  <2> QED
    BY <1>1, <1>3, <1>4, <2>1, <2>4, <2>5, <2>6
<1> QED
  BY <1>5

\* Forgetting before or after one more observation arrives leaves the same.
LEMMA KeepLatestOnce ==
  ASSUME NEW A \in SUBSET Moments, IsFiniteSet(A), NEW x \in Moments
  PROVE  KeepLatest(KeepLatest(A) \cup {x}) = KeepLatest(A \cup {x})
<1> DEFINE K == KeepLatest(A)
           B == A \cup {x}
           C == K \cup {x}
<1>1. K \subseteq A /\ C \subseteq B /\ IsFiniteSet(B) /\ IsFiniteSet(C)
  <2>1. K \subseteq A
    BY DEF KeepLatest
  <2>2. IsFiniteSet(K) /\ IsFiniteSet({x})
    BY <2>1, FS_Subset, FS_Singleton
  <2>3. IsFiniteSet(A \cup {x}) /\ IsFiniteSet(K \cup {x})
    BY <2>2, FS_Union
  <2> QED
    BY <2>1, <2>3
<1>2. \A S \in SUBSET B, o \in B : /\ IsFiniteSet(LaterIn(o, S)) /\ Cardinality(LaterIn(o, S)) \in Nat
                                   /\ LaterIn(o, S) \in SUBSET B
  <2>1. \A S \in SUBSET B, o \in B : LaterIn(o, S) \in SUBSET B
    BY DEF LaterIn
  <2> QED
    BY <1>1, <2>1, FS_Subset, FS_CardinalityType
<1>3. \A S : KeepLatest(S) = {o \in S : Cardinality(LaterIn(o, S)) < MaxObservations}
  BY DEF KeepLatest, LaterIn
<1>4. MaxObservations \in Nat
  BY BackgroundAssumption
<1>5. \A o \in B, S \in SUBSET B : \A T \in SUBSET S :
        Cardinality(LaterIn(o, T)) <= Cardinality(LaterIn(o, S))
  <2>1. \A o \in B, S \in SUBSET B : \A T \in SUBSET S :
          /\ LaterIn(o, T) \in SUBSET LaterIn(o, S) /\ IsFiniteSet(LaterIn(o, S))
    BY <1>2 DEF LaterIn
  <2> QED
    BY <2>1, FS_Subset
<1>6. ASSUME NEW o \in KeepLatest(B) PROVE o \in KeepLatest(C)
  <2>1. o \in B /\ Cardinality(LaterIn(o, B)) < MaxObservations
    BY <1>3
  <2>2. o \in C
    <3>1. CASE o = x
      BY <3>1
    <3>2. CASE o # x
      <4>1. o \in A
        BY <2>1, <3>2
      <4>2. Cardinality(LaterIn(o, A)) <= Cardinality(LaterIn(o, B))
        BY <1>5, <2>1
      <4>3. Cardinality(LaterIn(o, A)) \in Nat /\ Cardinality(LaterIn(o, B)) \in Nat
        BY <1>2, <2>1
      <4>4. Cardinality(LaterIn(o, A)) < MaxObservations
        BY <1>4, <2>1, <4>2, <4>3
      <4>5. o \in K
        BY <1>3, <4>1, <4>4
      <4> QED
        BY <4>5
    <3> QED
      BY <3>1, <3>2
  <2>3. Cardinality(LaterIn(o, C)) <= Cardinality(LaterIn(o, B))
    BY <1>1, <1>5, <2>1
  <2>4. Cardinality(LaterIn(o, C)) \in Nat /\ Cardinality(LaterIn(o, B)) \in Nat
    BY <1>1, <1>2, <2>1
  <2>5. Cardinality(LaterIn(o, C)) < MaxObservations
    BY <1>4, <2>1, <2>3, <2>4
  <2> QED
    BY <1>3, <2>2, <2>5
<1>7. ASSUME NEW o \in KeepLatest(C) PROVE o \in KeepLatest(B)
  <2>1. o \in C /\ o \in B /\ Cardinality(LaterIn(o, C)) < MaxObservations
    BY <1>1, <1>3
  <2>2. CASE LaterIn(o, A) \subseteq K
    <3>1. LaterIn(o, B) = LaterIn(o, C)
      BY <1>1, <2>2 DEF LaterIn
    <3> QED
      BY <1>3, <2>1, <3>1
  <2>3. CASE ~(LaterIn(o, A) \subseteq K)
    <3>1. A \ K \in SUBSET Moments /\ IsFiniteSet(A \ K) /\ A \ K # {}
      <4>1. A \ K \in SUBSET A /\ A \ K # {}
        BY <2>3 DEF LaterIn
      <4> QED
        BY <4>1, FS_Subset
    <3>2. PICK p \in A \ K : LaterIn(p, A \ K) = {}
      BY <3>1, LastObservation
    <3>3. Cardinality(LaterIn(p, A)) >= MaxObservations
      <4>1. Cardinality(LaterIn(p, A)) \in Nat /\ ~(Cardinality(LaterIn(p, A)) < MaxObservations)
        BY <1>2, <1>3, <3>2
      <4> QED
        BY <1>4, <4>1
    <3>4. o = p \/ Before(o, p)
      <4>1. PICK q \in A : Before(o, q) /\ q \notin K
        BY <2>3 DEF LaterIn
      <4>2. ~Before(p, q)
        BY <3>2, <4>1 DEF LaterIn
      <4>3. o \in Moments /\ p \in Moments /\ q \in Moments
        BY <2>1, <3>2, <4>1
      <4> QED
        BY <4>1, <4>2, <4>3, BeforeIs
    <3>5. LaterIn(p, A) \subseteq LaterIn(o, C)
      <4> SUFFICES ASSUME NEW q \in A, Before(p, q) PROVE q \in K /\ Before(o, q)
        BY DEF LaterIn
      <4>1. q \in K
        BY <3>2 DEF LaterIn
      <4>2. o \in Moments /\ p \in Moments /\ q \in Moments
        BY <2>1, <3>2
      <4>3. Before(o, q)
        BY <3>4, <4>2, BeforeIs
      <4> QED
        BY <4>1, <4>3
    <3>6. Cardinality(LaterIn(p, A)) <= Cardinality(LaterIn(o, C))
      BY <1>1, <1>2, <2>1, <3>5, FS_Subset
    <3>7. Cardinality(LaterIn(p, A)) \in Nat /\ Cardinality(LaterIn(o, C)) \in Nat
      BY <1>1, <1>2, <2>1, <3>2
    <3> QED
      BY <1>4, <2>1, <3>3, <3>6, <3>7
  <2> QED
    BY <2>2, <2>3
<1> QED
  BY <1>6, <1>7

\* The observations a batch brings, and what a context becomes with some of them.
Stamped(given, now) == {[id |-> i, at |-> now] : i \in given}

AddStep(g, bucket, given, now) ==
  IF given = {} THEN bucket
  ELSE KeepLatest(g[given \ {Max(given)}] \cup {[id |-> Max(given), at |-> now]})
AreAdded(g, bucket, ids, now) == g = [given \in SUBSET ids |-> AddStep(g, bucket, given, now)]

\* A context that holds the latest of S holds the latest of S and the batch afterwards.
LEMMA AccumulateIs ==
  ASSUME NEW es \in SUBSET PresentedEvents, IsFiniteSet(es), NEW now \in Nat,
         NEW S \in SUBSET Moments, IsFiniteSet(S)
  PROVE  Accumulate(KeepLatest(S), es, now) = KeepLatest(S \cup Stamped({e.id : e \in es}, now))
<1> DEFINE ids == {e.id : e \in es}
           bucket == KeepLatest(S)
<1>1. ids \in SUBSET Nat /\ IsFiniteSet(ids)
  <2>1. ids \in SUBSET Nat
    BY BackgroundAssumption
  <2> DEFINE f == [e \in es |-> e.id]
  <2>2. f \in Surjection(es, ids)
    BY DEF Surjection
  <2> HIDE DEF f, ids
  <2>3. IsFiniteSet(ids)
    BY <2>2, FS_Surjection
  <2> QED
    BY <2>1, <2>3
<1>2. Accumulate(bucket, es, now) = (CHOOSE g : AreAdded(g, bucket, ids, now))[ids]
  BY DEF Accumulate, AreAdded, AddStep
<1> HIDE DEF ids
<1> DEFINE h == [given \in SUBSET ids |-> KeepLatest(S \cup Stamped(given, now))]
<1>3. ASSUME NEW given \in SUBSET ids
      PROVE  IsFiniteSet(given) /\ IsFiniteSet(S \cup Stamped(given, now))
             /\ S \cup Stamped(given, now) \in SUBSET Moments
  <2>1. IsFiniteSet(given)
    BY <1>1, FS_Subset
  <2> DEFINE f == [i \in given |-> [id |-> i, at |-> now]]
  <2>2. f \in Surjection(given, Stamped(given, now))
    BY DEF Surjection, Stamped
  <2> HIDE DEF f
  <2>3. IsFiniteSet(Stamped(given, now))
    BY <2>1, <2>2, FS_Surjection
  <2>4. Stamped(given, now) \in SUBSET Moments
    BY <1>1 DEF Stamped, Moments
  <2> QED
    BY <2>1, <2>3, <2>4, FS_Union
<1>4. ASSUME NEW given \in SUBSET ids PROVE h[given] = AddStep(h, bucket, given, now)
  <2>1. CASE given = {}
    <3>1. Stamped(given, now) = {}
      BY <2>1 DEF Stamped
    <3> QED
      BY <2>1, <3>1 DEF AddStep
  <2>2. CASE given # {}
    <3>1. PICK i : i = Max(given)
      OBVIOUS
    <3>2. i \in given
      BY <1>1, <1>3, <2>2, <3>1, GreatestOf
    <3>3. PICK rest : rest = given \ {i}
      OBVIOUS
    <3>4. rest \in SUBSET ids /\ Stamped(given, now) = Stamped(rest, now) \cup {[id |-> i, at |-> now]}
      BY <3>2, <3>3 DEF Stamped
    <3>5. [id |-> i, at |-> now] \in Moments
      BY <1>1, <3>2 DEF Moments
    <3>6. PICK A : A = S \cup Stamped(rest, now)
      OBVIOUS
    <3>7. KeepLatest(KeepLatest(A) \cup {[id |-> i, at |-> now]})
            = KeepLatest(A \cup {[id |-> i, at |-> now]})
      BY <1>3, <3>4, <3>5, <3>6, KeepLatestOnce
    <3>8. A \cup {[id |-> i, at |-> now]} = S \cup Stamped(given, now)
      BY <3>4, <3>6
    <3>9. h[rest] = KeepLatest(A)
      BY <3>4, <3>6
    <3>10. h[given] = KeepLatest(h[rest] \cup {[id |-> i, at |-> now]})
      BY <3>7, <3>8, <3>9
    <3> HIDE DEF h
    <3> QED
      BY <2>2, <3>1, <3>3, <3>10 DEF AddStep
  <2> QED
    BY <2>1, <2>2
<1>5. h = [given \in SUBSET ids |-> h[given]]
  OBVIOUS
<1> HIDE DEF h
<1>6. AreAdded(h, bucket, ids, now)
  BY <1>4, <1>5 DEF AreAdded
<1>7. PICK g : g = CHOOSE f : AreAdded(f, bucket, ids, now)
  OBVIOUS
<1>8. AreAdded(g, bucket, ids, now)
  BY <1>6, <1>7, Zenon
<1>9. ASSUME NEW given \in SUBSET ids, g[given] # h[given] PROVE FALSE
  <2> DEFINE bad == {t \in SUBSET ids : g[t] # h[t]}
             sizes == {n \in Nat : \E t \in bad : n = Cardinality(t)}
  <2>1. \A t \in bad : IsFiniteSet(t) /\ Cardinality(t) \in Nat
    BY <1>3, FS_CardinalityType
  <2>2. sizes \in SUBSET Nat /\ sizes # {}
    BY <1>9, <2>1
  <2>3. PICK n \in sizes : \A m \in sizes : n <= m
    <3> HIDE DEF sizes
    <3> QED
      BY <2>2, FirstOf
  <2>4. PICK t \in bad : n = Cardinality(t)
    BY <2>3
  <2>5. g[t] = AddStep(g, bucket, t, now) /\ h[t] = AddStep(h, bucket, t, now)
    BY <1>6, <1>8 DEF AreAdded
  <2>6. t # {}
    BY <2>4, <2>5 DEF AddStep
  <2>7. PICK i : i = Max(t)
    OBVIOUS
  <2>8. i \in t
    BY <1>1, <2>1, <2>6, <2>7, GreatestOf
  <2>9. PICK rest : rest = t \ {i}
    OBVIOUS
  <2>10. rest \in SUBSET ids /\ Cardinality(rest) = n - 1 /\ Cardinality(rest) \in Nat
    <3>1. Cardinality(t \ {i}) = Cardinality(t) - 1 /\ IsFiniteSet(t \ {i})
      BY <2>1, <2>8, FS_RemoveElement
    <3>2. Cardinality(t \ {i}) \in Nat
      BY <3>1, FS_CardinalityType
    <3> QED
      BY <2>4, <2>9, <3>1, <3>2
  <2>11. g[rest] = h[rest]
    <3> SUFFICES ASSUME rest \in bad PROVE FALSE
      BY <2>10
    <3>1. Cardinality(rest) \in sizes
      BY <2>10
    <3> HIDE DEF sizes, bad
    <3> QED
      BY <2>2, <2>3, <2>10, <3>1
  <2>12. g[t] = h[t]
    BY <2>5, <2>6, <2>7, <2>9, <2>11 DEF AddStep
  <2> QED
    BY <2>4, <2>12
<1>10. g[ids] = h[ids]
  BY <1>9
<1>11. h[ids] = KeepLatest(S \cup Stamped(ids, now))
  BY DEF h
<1> QED
  BY <1>2, <1>7, <1>10, <1>11 DEF ids


\* Observations that differ in their ids, and all of whom a caller can have presented.
OnceEach(S) == \A o, p \in S : o.id = p.id => o = p

LEMMA IdsCount ==
  ASSUME NEW S \in SUBSET Moments, IsFiniteSet(S), OnceEach(S)
  PROVE  Cardinality({o.id : o \in S}) = Cardinality(S) /\ Cardinality(S) \in Nat
<1> DEFINE ids == {o.id : o \in S}
           f == [o \in S |-> o.id]
<1>1. f \in Bijection(S, ids)
  BY DEF OnceEach, Bijection, Injection, IsInjective, Surjection
<1> HIDE DEF f, ids
<1>2. Cardinality(ids) = Cardinality(S)
  BY <1>1, FS_Bijection DEF ExistsBijection
<1> QED
  BY <1>2, FS_CardinalityType DEF ids

\* What is found of a context: at most one pattern, and of what it counts.
IsFoundIn(p, key, os) ==
  /\ p.context = key /\ p.ids = {o.id : o \in os}
  /\ p.count = Cardinality(os) /\ p.count >= 2
  /\ p.pattern \in {"critical_repetition", "escalation", "repeated_event"}
  /\ p.pattern = "critical_repetition" => key[2] \in CriticalTypes
  /\ key[2] \in CriticalTypes /\ p.count >= CriticalThreshold => p.pattern = "critical_repetition"

LEMMA PatternsAre ==
  ASSUME NEW key, NEW os, Cardinality(os) \in Nat
  PROVE  /\ \A p \in PatternsOf(key, os) : IsFoundIn(p, key, os)
         /\ \A p, q \in PatternsOf(key, os) : p = q
<1>1. PICK n \in Nat : n = Cardinality(os)
  OBVIOUS
<1>2. PICK c : c = CriticalCount(key, os)
  OBVIOUS
<1>3. PICK e : e = EscalationCount(key, os)
  OBVIOUS
<1>4. c \in {0, n} /\ e \in {0, n}
  BY <1>1, <1>2, <1>3 DEF CriticalCount, EscalationCount
<1>5. (c # 0 => key[2] \in CriticalTypes) /\ (key[2] \in CriticalTypes => c = n)
  BY <1>1, <1>2 DEF CriticalCount, ConditionSeverity
<1>6. CriticalThreshold \in Nat \ {0, 1} /\ EscalationThreshold \in Nat \ {0, 1}
      /\ RepetitionThreshold \in Nat \ {0, 1}
  BY BackgroundAssumption
<1> DEFINE Found(kind, count) ==
      {[context |-> key, pattern |-> kind, count |-> count, ids |-> {o.id : o \in os}]}
<1>7. CASE c >= CriticalThreshold
  <2>1. c = n /\ n >= 2 /\ key[2] \in CriticalTypes
    BY <1>1, <1>4, <1>5, <1>6, <1>7
  <2>2. PatternsOf(key, os) = Found("critical_repetition", n)
    BY <1>2, <1>4, <1>6, <1>7, <2>1 DEF PatternsOf
  <2> QED
    BY <1>1, <2>1, <2>2 DEF IsFoundIn
<1>8. CASE c < CriticalThreshold /\ e >= EscalationThreshold
  <2>1. e = n /\ n >= 2
    BY <1>1, <1>4, <1>6, <1>8
  <2>2. ~(c >= CriticalThreshold) /\ ~(e < EscalationThreshold)
    BY <1>1, <1>4, <1>6, <1>8
  <2>3. PatternsOf(key, os) = Found("escalation", n)
    BY <1>2, <1>3, <1>8, <2>1, <2>2 DEF PatternsOf
  <2>4. ~(key[2] \in CriticalTypes /\ n >= CriticalThreshold)
    BY <1>5, <2>2
  <2> QED
    BY <1>1, <2>1, <2>3, <2>4 DEF IsFoundIn
<1>9. CASE c < CriticalThreshold /\ e < EscalationThreshold /\ n >= RepetitionThreshold
  <2>1. ~(c >= CriticalThreshold) /\ ~(e >= EscalationThreshold) /\ n >= 2
    BY <1>1, <1>4, <1>6, <1>9
  <2>2. PatternsOf(key, os) = Found("repeated_event", n)
    BY <1>1, <1>2, <1>3, <1>9, <2>1 DEF PatternsOf
  <2>3. ~(key[2] \in CriticalTypes /\ n >= CriticalThreshold)
    BY <1>5, <2>1
  <2> QED
    BY <1>1, <2>1, <2>2, <2>3 DEF IsFoundIn
<1>10. CASE ~(c >= CriticalThreshold) /\ ~(c < CriticalThreshold /\ e >= EscalationThreshold)
            /\ ~(c < CriticalThreshold /\ e < EscalationThreshold /\ n >= RepetitionThreshold)
  <2>1. PatternsOf(key, os) = {}
    BY <1>1, <1>2, <1>3, <1>10 DEF PatternsOf
  <2> QED
    BY <2>1
<1> QED
  BY <1>7, <1>8, <1>9, <1>10

\* A recommendation says of a pattern what the pattern warrants.
IsEarned(r, os) ==
  /\ r.ids \subseteq {o.id : o \in os}
  /\ r.count = Cardinality(r.ids) /\ r.count >= 2
  /\ r.type = "escalate_to_human" =>
       /\ r.context[2] \in CriticalTypes /\ r.count >= UrgentThreshold
  /\ r.context[2] \in CriticalTypes => r.type # "review" \/ r.count < CriticalThreshold

LEMMA RecommendationIs ==
  ASSUME NEW S \in SUBSET Moments, IsFiniteSet(S), OnceEach(S), NEW key,
         NEW p \in PatternsOf(key, KeepLatest(S))
  PROVE  Recommendation(p).context = key /\ IsEarned(Recommendation(p), S)
<1>1. PICK os : os = KeepLatest(S)
  OBVIOUS
<1>2. os \in SUBSET S /\ OnceEach(os)
  BY <1>1 DEF KeepLatest, OnceEach
<1>3. Cardinality({o.id : o \in os}) = Cardinality(os) /\ Cardinality(os) \in Nat
  BY <1>2, IdsCount, FS_Subset
<1>4. IsFoundIn(p, key, os)
  BY <1>1, <1>3, PatternsAre
<1>5. PICK r : r = Recommendation(p)
  OBVIOUS
<1>6. /\ r.context = key /\ r.ids = {o.id : o \in os}
      /\ r.count = p.count /\ r.count = Cardinality(r.ids) /\ r.count >= 2
  BY <1>3, <1>4, <1>5 DEF IsFoundIn, Recommendation
<1>7. r.type = RecommendationType(p)
  BY <1>5 DEF Recommendation
<1>8. PatternPriority(p) = "urgent" => p.pattern = "critical_repetition" /\ p.count >= UrgentThreshold
  BY <1>4 DEF PatternPriority, IsFoundIn
<1>9. p.pattern = "critical_repetition" => PatternRisk(p) = "critical"
  BY DEF PatternRisk
<1>10. r.type = "escalate_to_human" => PatternPriority(p) = "urgent"
  BY <1>7 DEF RecommendationType
<1>11. PatternRisk(p) = "critical" => r.type # "review"
  BY <1>7 DEF RecommendationType
<1>12. r.ids \subseteq {o.id : o \in S}
  BY <1>2, <1>6
<1>13. r.count \in Nat /\ CriticalThreshold \in Nat
  BY <1>3, <1>6, BackgroundAssumption
<1>14. key[2] \in CriticalTypes => r.type # "review" \/ r.count < CriticalThreshold
  BY <1>4, <1>6, <1>9, <1>11, <1>13 DEF IsFoundIn
<1>15. r.type = "escalate_to_human" => key[2] \in CriticalTypes /\ r.count >= UrgentThreshold
  BY <1>4, <1>6, <1>8, <1>10 DEF IsFoundIn
<1> QED
  BY <1>5, <1>6, <1>12, <1>14, <1>15 DEF IsEarned

-----------------------------------------------------------------------------
(* Background intelligence: an event is observed once between resets, a      *)
(* context that was reported has been seen, and a seen one is not looked at  *)
(* again.                                                                    *)

BackgroundInv ==
  /\ BackgroundTypeOK /\ StagesAgree /\ ContextsHoldLatest
  /\ observed \in [Keys -> SUBSET Observations]
  /\ \A key \in Keys : IsFiniteSet(observed[key]) /\ OnceEach(observed[key])
  /\ \A r \in recommendations :
       r.context \in Keys /\ r.context \in seenKeys /\ IsEarned(r, observed[r.context])
  /\ ContextsAreReportedOnce

LEMMA NothingIsKept == KeepLatest({}) = {}
  BY DEF KeepLatest

LEMMA ObservationsAreMoments == Observations \in SUBSET Moments
<1>1. Ids \in SUBSET Nat /\ CycleTimes \in SUBSET Nat
  BY BackgroundAssumption DEF Ids, CycleTimes
<1> QED
  BY <1>1 DEF Observations, Moments

\* Of what has been observed nothing remains.
LEMMA ForgottenIsSound ==
  ASSUME processed' = [stage \in EarlyStages |-> {}], contexts' = [key \in Keys |-> {}],
         seenKeys' = {}, reportedKeys' = {}, observed' = [key \in Keys |-> {}],
         recommendations' = {}, watching' \in BOOLEAN
  PROVE  BackgroundInv'
<1>1. BackgroundTypeOK'
  BY DEF BackgroundTypeOK
<1>2. StagesAgree'
  BY DEF StagesAgree, EarlyStages
<1>3. ContextsHoldLatest'
  BY NothingIsKept DEF ContextsHoldLatest, KeepLatest
<1>4. \A key \in Keys : IsFiniteSet(observed'[key]) /\ OnceEach(observed'[key])
  BY FS_EmptySet DEF OnceEach
<1> QED
  BY <1>1, <1>2, <1>3, <1>4 DEF BackgroundInv, ContextsAreReportedOnce

LEMMA BackgroundInitInv == BackgroundInit => BackgroundInv
<1> SUFFICES ASSUME BackgroundInit PROVE BackgroundInv
  OBVIOUS
<1> USE DEF BackgroundInit
<1>1. BackgroundTypeOK
  BY DEF BackgroundTypeOK
<1>2. StagesAgree
  BY DEF StagesAgree, EarlyStages
<1>3. ContextsHoldLatest
  BY NothingIsKept DEF ContextsHoldLatest
<1>4. \A key \in Keys : IsFiniteSet(observed[key]) /\ OnceEach(observed[key])
  BY FS_EmptySet DEF OnceEach
<1> QED
  BY <1>1, <1>2, <1>3, <1>4 DEF BackgroundInv, ContextsAreReportedOnce

\* What a cycle takes, of one key, and what its context then is.
TakenOf(taken, key) == {e \in taken : ContextKey(e) = key}
Arriving(taken, key, now) == Stamped({e.id : e \in TakenOf(taken, key)}, now)

LEMMA CycleObserves ==
  ASSUME BackgroundInv, NEW batch \in Batches, NEW now \in CycleTimes,
         NEW key \in Keys
  PROVE  LET news == observed[key] \cup Arriving(ReachesContext(batch), key, now)
         IN /\ news \in SUBSET Observations /\ IsFiniteSet(news) /\ OnceEach(news)
            /\ Accumulate(contexts[key], TakenOf(ReachesContext(batch), key), now) = KeepLatest(news)
<1> DEFINE S == observed[key]
<1>1. PICK es : es = TakenOf(ReachesContext(batch), key)
  OBVIOUS
<1>2. es \in SUBSET PresentedEvents /\ (\A e \in es : e.id \notin processed["context"])
  BY <1>1 DEF TakenOf, ReachesContext, Batches, kSubset
<1>3. IsFiniteSet(es)
  BY <1>2, BackgroundAssumption, FS_Subset
<1>4. S \in SUBSET Observations /\ IsFiniteSet(S) /\ OnceEach(S) /\ contexts[key] = KeepLatest(S)
  BY DEF BackgroundInv, ContextsHoldLatest
<1>5. now \in Nat
  BY BackgroundAssumption DEF CycleTimes
<1>6. Accumulate(contexts[key], es, now) = KeepLatest(S \cup Stamped({e.id : e \in es}, now))
  BY <1>2, <1>3, <1>4, <1>5, ObservationsAreMoments, AccumulateIs
<1>7. PICK new : new = Stamped({e.id : e \in es}, now)
  OBVIOUS
<1>8. new \in SUBSET Observations
  BY <1>2, <1>7 DEF Stamped, Observations, Ids
<1>9. IsFiniteSet(new)
  <2> DEFINE f == [e \in es |-> [id |-> e.id, at |-> now]]
  <2>1. f \in Surjection(es, new)
    BY <1>7 DEF Surjection, Stamped
  <2> HIDE DEF f
  <2> QED
    BY <1>3, <2>1, FS_Surjection
<1>10. \A o \in S : o.id \in processed["context"]
  BY DEF BackgroundInv, StagesAgree
<1>11. \A o \in new : o.id \notin processed["context"] /\ o = [id |-> o.id, at |-> now]
  BY <1>2, <1>7 DEF Stamped
<1>12. OnceEach(S \cup new)
  BY <1>4, <1>10, <1>11 DEF OnceEach
<1>13. IsFiniteSet(S \cup new)
  BY <1>4, <1>9, FS_Union
<1>14. new = Arriving(ReachesContext(batch), key, now)
  BY <1>1, <1>7 DEF Arriving
<1> QED
  BY <1>1, <1>4, <1>6, <1>7, <1>8, <1>12, <1>13, <1>14

\* What is earned stays earned as more is observed.
LEMMA EarnedStays ==
  ASSUME NEW r, NEW S, NEW T, IsEarned(r, S), S \subseteq T
  PROVE  IsEarned(r, T)
  BY DEF IsEarned

LEMMA BackgroundInvStep == BackgroundInv /\ [BackgroundNext]_backgroundVars => BackgroundInv'
<1> SUFFICES ASSUME BackgroundInv, [BackgroundNext]_backgroundVars PROVE BackgroundInv'
  OBVIOUS
<1>1. ASSUME UNCHANGED <<processed, contexts, seenKeys, reportedKeys, observed, recommendations>>,
             watching' \in BOOLEAN
      PROVE  BackgroundInv'
  <2>1. BackgroundTypeOK' /\ StagesAgree'
    BY <1>1 DEF BackgroundInv, BackgroundTypeOK, StagesAgree
  <2>2. ContextsHoldLatest'
    BY <1>1 DEF BackgroundInv, ContextsHoldLatest, KeepLatest
  <2>3. ContextsAreReportedOnce'
    BY <1>1 DEF BackgroundInv, ContextsAreReportedOnce
  <2>4. \A r \in recommendations' :
          r.context \in Keys /\ r.context \in seenKeys' /\ IsEarned(r, observed'[r.context])
    BY <1>1 DEF BackgroundInv
  <2>5. /\ observed' \in [Keys -> SUBSET Observations]
        /\ \A key \in Keys : IsFiniteSet(observed'[key]) /\ OnceEach(observed'[key])
    BY <1>1 DEF BackgroundInv
  <2> QED
    BY <2>1, <2>2, <2>3, <2>4, <2>5 DEF BackgroundInv
<1>2. CASE ForgetEverything
  BY <1>2, ForgottenIsSound DEF ForgetEverything, BackgroundInv, BackgroundTypeOK
<1>3. ASSUME NEW batch \in Batches, NEW now \in CycleTimes, Process(batch, now)
      PROVE  BackgroundInv'
  <2>1. PICK taken : taken = ReachesContext(batch)
    OBVIOUS
  <2>2. /\ batch \in SUBSET PresentedEvents /\ taken \in SUBSET batch
        /\ \A e \in batch : e.id \in Ids /\ ContextKey(e) \in Keys
    BY <2>1 DEF ReachesContext, Batches, kSubset, Ids, Keys
  <2> DEFINE New(key) == Accumulate(contexts[key], TakenOf(taken, key), now)
             filled == {key \in Keys : New(key) # {}}
             patterns == UNION {PatternsOf(key, New(key)) : key \in filled \cap Unseen}
             fresh == {p \in patterns : ReportKey(p) \notin reportedKeys}
  <2>3. /\ watching /\ watching' = watching
        /\ processed' = [stage \in EarlyStages |-> processed[stage] \cup
             (IF stage = "context" THEN {e.id : e \in taken} ELSE {e.id : e \in batch})]
        /\ contexts' = [key \in Keys |-> New(key)]
        /\ seenKeys' = seenKeys \cup filled
        /\ reportedKeys' = reportedKeys \cup {ReportKey(p) : p \in fresh}
        /\ recommendations' = recommendations \cup {Recommendation(p) : p \in fresh}
    BY <1>3, <2>1 DEF Process, TakenOf, MarkSeen
  <2>4. observed' = [key \in Keys |-> observed[key] \cup Arriving(taken, key, now)]
    BY <1>3, <2>1 DEF Process, Arriving, Stamped, TakenOf
  <2>5. \A key \in Keys :
          /\ observed'[key] = observed[key] \cup Arriving(taken, key, now)
          /\ observed'[key] \in SUBSET Observations
          /\ IsFiniteSet(observed'[key]) /\ OnceEach(observed'[key])
          /\ New(key) = KeepLatest(observed'[key]) /\ contexts'[key] = New(key)
          /\ observed'[key] \in SUBSET Moments
    BY <2>1, <2>3, <2>4, CycleObserves, ObservationsAreMoments
  <2>6. observed' \in [Keys -> SUBSET Observations]
    BY <2>4, <2>5
  <2>7. contexts' \in [Keys -> SUBSET Observations]
    <3>1. \A key \in Keys : New(key) \in SUBSET Observations
      BY <2>5 DEF KeepLatest
    <3> HIDE DEF New
    <3> QED
      BY <2>3, <3>1
  <2>8. ContextsHoldLatest'
    <3>1. \A key \in Keys : contexts'[key] = KeepLatest(observed'[key])
      BY <2>5
    <3> QED
      BY <3>1 DEF ContextsHoldLatest, KeepLatest
  <2>9. ASSUME NEW p \in fresh
        PROVE  \E key \in filled \cap Unseen :
                 /\ p \in PatternsOf(key, KeepLatest(observed'[key]))
                 /\ Recommendation(p).context = key
                 /\ IsEarned(Recommendation(p), observed'[key])
                 /\ ReportKey(p)[1] = key
    <3>1. PICK key \in filled \cap Unseen : p \in PatternsOf(key, New(key))
      BY <2>9
    <3>2. key \in Keys /\ p \in PatternsOf(key, KeepLatest(observed'[key]))
      BY <2>5, <3>1
    <3>3. Recommendation(p).context = key /\ IsEarned(Recommendation(p), observed'[key])
      BY <2>5, <3>2, RecommendationIs
    <3>4. ReportKey(p)[1] = Recommendation(p).context
      BY DEF ReportKey, Recommendation
    <3> HIDE DEF filled
    <3> QED
      BY <3>1, <3>2, <3>3, <3>4
  <2>10. filled \subseteq Keys
    OBVIOUS
  <2> HIDE DEF New, filled, patterns
  <2>11. \A r \in recommendations' :
           \/ r \in recommendations
           \/ \E p \in fresh : r = Recommendation(p)
    BY <2>3
  <2>12. \A r \in recommendations' :
           r.context \in Keys /\ r.context \in seenKeys' /\ IsEarned(r, observed'[r.context])
    <3> SUFFICES ASSUME NEW r \in recommendations'
                 PROVE  r.context \in Keys /\ r.context \in seenKeys'
                        /\ IsEarned(r, observed'[r.context])
      OBVIOUS
    <3>1. CASE r \in recommendations
      <4>1. r.context \in Keys /\ r.context \in seenKeys /\ IsEarned(r, observed[r.context])
        BY <3>1 DEF BackgroundInv
      <4>2. observed[r.context] \subseteq observed'[r.context]
        BY <2>5, <4>1
      <4> QED
        BY <2>3, <4>1, <4>2, EarnedStays
    <3>2. ASSUME NEW p \in fresh, r = Recommendation(p)
          PROVE  r.context \in Keys /\ r.context \in seenKeys'
                 /\ IsEarned(r, observed'[r.context])
      BY <2>3, <2>9, <2>10, <3>2
    <3> QED
      BY <2>11, <3>1, <3>2
  <2>13. ContextsAreReportedOnce'
    <3> SUFFICES ASSUME NEW r \in recommendations', NEW s \in recommendations',
                        r.context = s.context
                 PROVE  r = s
      BY DEF ContextsAreReportedOnce
    <3>1. \A t \in recommendations : t.context \in seenKeys
      BY DEF BackgroundInv
    <3>2. \A p \in fresh : Recommendation(p).context \notin seenKeys
      BY <2>9 DEF Unseen
    <3>3. CASE r \in recommendations /\ s \in recommendations
      BY <3>3 DEF BackgroundInv, ContextsAreReportedOnce
    <3>4. ASSUME NEW p \in fresh, NEW q \in fresh,
                 r = Recommendation(p), s = Recommendation(q)
          PROVE  r = s
      <4>1. PICK key \in filled \cap Unseen :
              p \in PatternsOf(key, KeepLatest(observed'[key])) /\ r.context = key
        BY <2>9, <3>4
      <4>2. q \in PatternsOf(key, KeepLatest(observed'[key]))
        BY <2>9, <3>4, <4>1
      <4>3. Cardinality(KeepLatest(observed'[key])) \in Nat
        <5>1. key \in Keys /\ KeepLatest(observed'[key]) \in SUBSET observed'[key]
          BY <2>10, <4>1 DEF KeepLatest
        <5> QED
          BY <2>5, <5>1, FS_Subset, FS_CardinalityType
      <4>4. p = q
        BY <4>1, <4>2, <4>3, PatternsAre
      <4> QED
        BY <3>4, <4>4
    <3> QED
      BY <2>11, <3>1, <3>2, <3>3, <3>4
  <2>14. StagesAgree'
    <3>1. processed \in [EarlyStages -> SUBSET Ids] /\ StagesAgree
      BY DEF BackgroundInv, BackgroundTypeOK
    <3>2. /\ processed'["monitor"] = processed["monitor"] \cup {e.id : e \in batch}
          /\ processed'["trigger"] = processed["trigger"] \cup {e.id : e \in batch}
          /\ processed'["condition"] = processed["condition"] \cup {e.id : e \in batch}
          /\ processed'["context"] = processed["context"] \cup {e.id : e \in taken}
      BY <2>3 DEF EarlyStages
    <3>3. ASSUME NEW x \in processed'["context"]
          PROVE  \E key \in Keys : \E o \in observed'[key] : o.id = x
      <4>1. CASE x \in processed["context"]
        <5>1. PICK key \in Keys : \E o \in observed[key] : o.id = x
          BY <3>1, <4>1 DEF StagesAgree
        <5> QED
          BY <2>5, <5>1
      <4>2. ASSUME NEW e \in taken, x = e.id
            PROVE  \E key \in Keys : \E o \in observed'[key] : o.id = x
        <5>1. PICK key \in Keys : key = ContextKey(e)
          BY <2>2
        <5>2. e \in TakenOf(taken, key)
          BY <5>1 DEF TakenOf
        <5>3. [id |-> e.id, at |-> now] \in Arriving(taken, key, now)
          BY <5>2 DEF Arriving, Stamped
        <5> QED
          BY <2>5, <4>2, <5>3
      <4> QED
        BY <3>2, <4>1, <4>2
    <3>4. ASSUME NEW key \in Keys, NEW o \in observed'[key]
          PROVE  o.id \in processed'["context"]
      <4>1. CASE o \in observed[key]
        BY <3>1, <3>2, <4>1 DEF StagesAgree
      <4>2. CASE o \in Arriving(taken, key, now)
        <5>1. PICK e \in TakenOf(taken, key) : o.id = e.id
          BY <4>2 DEF Arriving, Stamped
        <5> QED
          BY <3>2, <5>1 DEF TakenOf
      <4> QED
        BY <2>5, <4>1, <4>2
    <3>5. processed'["context"] = UNION {{o.id : o \in observed'[key]} : key \in Keys}
      BY <3>3, <3>4
    <3>6. processed'["context"] \subseteq processed'["monitor"]
      BY <2>2, <3>1, <3>2 DEF StagesAgree
    <3> QED
      BY <3>1, <3>2, <3>5, <3>6 DEF StagesAgree
  <2>15. BackgroundTypeOK'
    <3>1. /\ processed \in [EarlyStages -> SUBSET Ids] /\ watching \in BOOLEAN
          /\ seenKeys \subseteq Keys /\ {r[1] : r \in reportedKeys} \subseteq Keys
      BY DEF BackgroundInv, BackgroundTypeOK
    <3>2. processed' \in [EarlyStages -> SUBSET Ids]
      <4>1. {e.id : e \in taken} \in SUBSET Ids /\ {e.id : e \in batch} \in SUBSET Ids
        BY <2>2
      <4> QED
        BY <2>3, <3>1, <4>1
    <3>3. seenKeys' \subseteq Keys /\ {r.context : r \in recommendations'} \subseteq Keys
      BY <2>3, <2>10, <2>12, <3>1
    <3>4. \A p \in fresh : ReportKey(p)[1] \in Keys
      BY <2>9, <2>10
    <3>5. {r[1] : r \in reportedKeys'} \subseteq Keys
      <4> HIDE DEF fresh
      <4> QED
        BY <2>3, <3>1, <3>4
    <3> QED
      BY <2>3, <2>7, <3>1, <3>2, <3>3, <3>5 DEF BackgroundTypeOK
  <2> QED
    BY <2>5, <2>6, <2>8, <2>12, <2>13, <2>14, <2>15 DEF BackgroundInv
<1>4. CASE UNCHANGED backgroundVars
  BY <1>1, <1>4 DEF backgroundVars, BackgroundInv, BackgroundTypeOK
<1> QED
  BY <1>1, <1>2, <1>3, <1>4 DEF BackgroundNext, StartWatching, StopWatching

LEMMA BackgroundInvImplies ==
  BackgroundInv => /\ BackgroundTypeOK /\ ContextsHoldLatest /\ StagesAgree
                   /\ ContextsAreReportedOnce /\ RecommendationsAreEarned
  BY DEF BackgroundInv, RecommendationsAreEarned, IsEarned

-----------------------------------------------------------------------------
(* Workforce: the walk through the events of an employee.                    *)

Sessions == [from : Instants, to : Instants]
Walks == [open : Instants \cup {NotOpen}, closed : Seq(Sessions)]
NoWalk == [open |-> NotOpen, closed |-> <<>>]

\* One event met at an instant: another employee's, or of another instant, changes nothing.
Passes(w, event, employee, t) ==
  IF event.employee = employee /\ event.at = t THEN Happens(w, event) ELSE w
EventStep(employee, t) == [p \in Walks \X AttendanceEvents |-> Passes(p[1], p[2], employee, t)]

LEMMA HappensIsWalk ==
  ASSUME NEW w \in Walks, NEW e \in AttendanceEvents
  PROVE  Happens(w, e) \in Walks
<1>1. w.open \in Instants \cup {NotOpen} /\ w.closed \in Seq(Sessions)
      /\ w = [open |-> w.open, closed |-> w.closed] /\ e.at \in Instants
  BY DEF Walks, AttendanceEvents
<1>2. FirstCheckIn(w, e) \in Walks
  BY <1>1 DEF FirstCheckIn, Walks
<1>3. CheckOut(w, e) \in Walks
  <2>1. CASE w.open = NotOpen \/ e.at <= w.open
    BY <1>1, <2>1 DEF CheckOut, Walks
  <2>2. CASE ~(w.open = NotOpen \/ e.at <= w.open)
    <3>1. [from |-> w.open, to |-> e.at] \in Sessions
      BY <1>1, <2>2 DEF Sessions
    <3>2. Append(w.closed, [from |-> w.open, to |-> e.at]) \in Seq(Sessions)
      BY <1>1, <3>1
    <3> QED
      BY <2>2, <3>2 DEF CheckOut, Walks
  <2> QED
    BY <2>1, <2>2
<1> QED
  BY <1>2, <1>3 DEF Happens

LEMMA EventStepIs ==
  ASSUME NEW employee, NEW t
  PROVE  EventStep(employee, t) \in [Walks \X AttendanceEvents -> Walks]
  BY HappensIsWalk DEF EventStep, Passes

LEMMA NoWalkIsWalk == NoWalk \in Walks
  BY DEF NoWalk, Walks

\* The states of a walk at one instant.
LEMMA AtInstantRuns ==
  ASSUME NEW list \in Seq(AttendanceEvents), NEW employee, NEW walk \in Walks, NEW t
  PROVE  \E r : /\ IsRun(r, Walks, EventStep(employee, t), walk, list, Len(list))
                /\ AtInstant(list, employee, walk, t) = r[Len(list)]
<1> DEFINE m == Len(list)
           step == EventStep(employee, t)
           P(g) == g = [u \in SUBSET (1 .. m) |->
                          IF u = {} THEN walk
                          ELSE Passes(g[u \ {Max(u)}], list[Max(u)], employee, t)]
<1>1. m \in Nat /\ DOMAIN list = 1 .. m /\ (\A i \in 1 .. m : list[i] \in AttendanceEvents)
  OBVIOUS
<1>2. AtInstant(list, employee, walk, t) = (CHOOSE g : P(g))[1 .. m]
  BY <1>1 DEF AtInstant, FoldLeft, MapThenFoldSet, Passes
<1>3. step \in [Walks \X AttendanceEvents -> Walks]
  BY EventStepIs
<1>4. \A w \in Walks, e \in AttendanceEvents : step[<<w, e>>] = Passes(w, e, employee, t)
  BY DEF EventStep
<1> HIDE DEF m, step
<1>13. CanFold(Walks, AttendanceEvents, step, walk, list, m)
  BY <1>1, <1>3 DEF CanFold
<1>5. PICK f : IsFold(f, Walks, step, walk, list, m)
  BY <1>13, FoldExists
<1>6. \A u \in SUBSET (1 .. m) : u # {} => /\ u \ {Max(u)} \in SUBSET (1 .. m)
                                           /\ list[Max(u)] \in AttendanceEvents
  BY <1>1, GreatestPlace
<1>7. P(f)
  <2>1. \A u \in SUBSET (1 .. m) : u # {} =>
          step[<<f[u \ {Max(u)}], list[Max(u)]>>] = Passes(f[u \ {Max(u)}], list[Max(u)], employee, t)
    BY <1>4, <1>5, <1>6 DEF IsFold
  <2> QED
    BY <1>5, <2>1 DEF IsFold, FoldStep
<1>8. PICK g : g = CHOOSE h : P(h)
  OBVIOUS
<1>9. P(g)
  <2> HIDE DEF P
  <2> QED
    BY <1>7, <1>8, Zenon
<1>10. Folds(g, step, Walks, walk, list, m)
  BY <1>4, <1>6, <1>9 DEF Folds
<1>11. PICK r : IsRun(r, Walks, step, walk, list, m) /\ r[m] = g[1 .. m]
  BY <1>10, <1>13, FoldRuns
<1>12. AtInstant(list, employee, walk, t) = r[m]
  BY <1>2, <1>8, <1>11
<1> HIDE DEF P
<1> QED
  BY <1>11, <1>12 DEF m, step

LEMMA AtInstantIsWalk ==
  ASSUME NEW list \in Seq(AttendanceEvents), NEW employee, NEW walk \in Walks, NEW t
  PROVE  AtInstant(list, employee, walk, t) \in Walks
<1>1. Len(list) \in 0 .. Len(list)
  OBVIOUS
<1> QED
  BY <1>1, AtInstantRuns DEF IsRun

\* The states of a walk through the instants.
InstantStep(list, employee) == [p \in Walks \X Instants |-> AtInstant(list, employee, p[1], p[2])]
LastInstantOfAll == Cardinality(Instants)
InstantsInOrder == [t \in Instants |-> t]

LEMMA InstantsAre ==
  /\ LastInstantOfAll \in Nat /\ Instants = 1 .. LastInstantOfAll /\ NotOpen \notin Instants
  /\ Instants \in SUBSET Nat
<1>1. Cardinality(Instants) \in Nat
  BY WorkforceAssumption, FS_CardinalityType
<1>2. PICK n \in Nat : n = LastInstantOfAll
  BY <1>1 DEF LastInstantOfAll
<1>3. Instants = 1 .. n
  BY <1>2, WorkforceAssumption DEF LastInstantOfAll
<1>4. 1 .. n \in SUBSET Nat
  OBVIOUS
<1> QED
  BY <1>2, <1>3, <1>4, WorkforceAssumption

LEMMA WalkRuns ==
  ASSUME NEW list \in Seq(AttendanceEvents), NEW employee
  PROVE  \E r : /\ IsRun(r, Walks, InstantStep(list, employee), NoWalk, InstantsInOrder,
                         LastInstantOfAll)
                /\ Walk(list, employee) = r[LastInstantOfAll]
<1> DEFINE m == LastInstantOfAll
           step == InstantStep(list, employee)
           P(g) == g = [u \in SUBSET (1 .. m) |->
                          IF u = {} THEN NoWalk
                          ELSE AtInstant(list, employee, g[u \ {Max(u)}], InstantsInOrder[Max(u)])]
<1>1. /\ m \in Nat /\ DOMAIN InstantsInOrder = 1 .. m /\ Instants = 1 .. m
      /\ \A i \in 1 .. m : InstantsInOrder[i] = i
  BY InstantsAre DEF InstantsInOrder
<1>2. Walk(list, employee) = (CHOOSE g : P(g))[1 .. m]
  BY <1>1 DEF Walk, FoldLeft, MapThenFoldSet, NoWalk, InstantsInOrder
<1>3. step \in [Walks \X Instants -> Walks]
  BY AtInstantIsWalk DEF InstantStep
<1>4. \A w \in Walks, t \in Instants : step[<<w, t>>] = AtInstant(list, employee, w, t)
  BY DEF InstantStep
<1> HIDE DEF m, step
<1>13. CanFold(Walks, Instants, step, NoWalk, InstantsInOrder, m)
  BY <1>1, <1>3, NoWalkIsWalk DEF CanFold
<1>5. PICK f : IsFold(f, Walks, step, NoWalk, InstantsInOrder, m)
  BY <1>13, FoldExists
<1>6. \A u \in SUBSET (1 .. m) : u # {} => /\ u \ {Max(u)} \in SUBSET (1 .. m)
                                           /\ InstantsInOrder[Max(u)] \in Instants
  BY <1>1, GreatestPlace
<1>7. P(f)
  <2>1. \A u \in SUBSET (1 .. m) : u # {} =>
          step[<<f[u \ {Max(u)}], InstantsInOrder[Max(u)]>>]
            = AtInstant(list, employee, f[u \ {Max(u)}], InstantsInOrder[Max(u)])
    BY <1>4, <1>5, <1>6 DEF IsFold
  <2> QED
    BY <1>5, <2>1 DEF IsFold, FoldStep
<1>8. PICK g : g = CHOOSE h : P(h)
  OBVIOUS
<1>9. P(g)
  <2> HIDE DEF P
  <2> QED
    BY <1>7, <1>8, Zenon
<1>10. Folds(g, step, Walks, NoWalk, InstantsInOrder, m)
  BY <1>4, <1>6, <1>9 DEF Folds
<1>11. PICK r : IsRun(r, Walks, step, NoWalk, InstantsInOrder, m) /\ r[m] = g[1 .. m]
  BY <1>10, <1>13, FoldRuns
<1>12. Walk(list, employee) = r[m]
  BY <1>2, <1>8, <1>11
<1> HIDE DEF P
<1> QED
  BY <1>11, <1>12 DEF m, step

\* The sessions found up to an instant are disjoint and seen, and so is the one that is open.
Seen(list, employee, type, t) == [employee |-> employee, type |-> type, at |-> t] \in Range(list)
IsSound(w, list, employee, now) ==
  /\ \A k \in DOMAIN w.closed :
       /\ w.closed[k].from < w.closed[k].to /\ w.closed[k].to <= now
       /\ Seen(list, employee, "check_in", w.closed[k].from)
       /\ Seen(list, employee, "check_out", w.closed[k].to)
       /\ k > 1 => w.closed[k - 1].to <= w.closed[k].from
  /\ w.open # NotOpen => /\ Seen(list, employee, "check_in", w.open) /\ w.open <= now
                         /\ \A k \in DOMAIN w.closed : w.closed[k].to <= w.open

LEMMA HappensIsSound ==
  ASSUME NEW list \in Seq(AttendanceEvents), NEW employee, NEW w \in Walks,
         NEW e \in Range(list), e.employee = employee, IsSound(w, list, employee, e.at)
  PROVE  IsSound(Happens(w, e), list, employee, e.at)
<1>1. Instants \in SUBSET Nat /\ NotOpen \notin Instants
  BY InstantsAre
<1>2. e \in AttendanceEvents /\ e.at \in Instants /\ e.type \in {"check_in", "check_out"}
      /\ e = [employee |-> e.employee, type |-> e.type, at |-> e.at]
  <2>1. PICK i \in DOMAIN list : e = list[i]
    BY DEF Range
  <2>2. e \in AttendanceEvents
    BY <2>1
  <2> QED
    BY <2>2 DEF AttendanceEvents
<1>3. w.open \in Instants \cup {NotOpen} /\ w.closed \in Seq(Sessions)
      /\ w = [open |-> w.open, closed |-> w.closed]
  BY DEF Walks
<1>4. CASE e.type = "check_in"
  <2>1. Seen(list, employee, "check_in", e.at)
    BY <1>2, <1>4 DEF Seen
  <2>2. CASE w.open = NotOpen
    <3>1. Happens(w, e).open = e.at /\ Happens(w, e).closed = w.closed
      BY <1>3, <1>4, <2>2 DEF Happens, FirstCheckIn
    <3>2. e.at <= e.at
      BY <1>1, <1>2
    <3> QED
      BY <2>1, <3>1, <3>2 DEF IsSound
  <2>3. CASE w.open # NotOpen
    BY <1>4, <2>3 DEF Happens, FirstCheckIn
  <2> QED
    BY <2>2, <2>3
<1>5. CASE e.type = "check_out"
  <2>1. Seen(list, employee, "check_out", e.at)
    BY <1>2, <1>5 DEF Seen
  <2>2. CASE w.open = NotOpen \/ e.at <= w.open
    <3>1. Happens(w, e).open = NotOpen /\ Happens(w, e).closed = w.closed
      BY <1>3, <1>5, <2>2 DEF Happens, CheckOut
    <3> QED
      BY <3>1 DEF IsSound
  <2>3. CASE ~(w.open = NotOpen \/ e.at <= w.open)
    <3>1. w.open \in Nat /\ e.at \in Nat /\ w.open < e.at
      BY <1>1, <1>2, <1>3, <2>3
    <3>2. PICK s : s = [from |-> w.open, to |-> e.at]
      OBVIOUS
    <3>3. s \in Sessions
      BY <1>2, <1>3, <2>3, <3>2 DEF Sessions
    <3>4. PICK c : c = w.closed
      OBVIOUS
    <3>5. PICK d : d = Append(c, s)
      OBVIOUS
    <3>6. Happens(w, e).open = NotOpen /\ Happens(w, e).closed = d
      BY <1>3, <1>5, <2>3, <3>2, <3>4, <3>5 DEF Happens, CheckOut
    <3>7. /\ Len(c) \in Nat /\ DOMAIN c = 1 .. Len(c) /\ DOMAIN d = 1 .. Len(c) + 1
          /\ d[Len(c) + 1] = s /\ \A k \in DOMAIN c : d[k] = c[k]
      BY <1>3, <3>3, <3>4, <3>5
    <3>8. \A k \in DOMAIN d : k \in DOMAIN c \/ k = Len(c) + 1
      BY <3>7
    <3>9. ASSUME NEW k \in DOMAIN d
          PROVE  /\ d[k].from < d[k].to /\ d[k].to <= e.at
                 /\ Seen(list, employee, "check_in", d[k].from)
                 /\ Seen(list, employee, "check_out", d[k].to)
                 /\ k > 1 => d[k - 1].to <= d[k].from
      <4>1. CASE k \in DOMAIN c
        <5>1. k > 1 => k - 1 \in DOMAIN c
          BY <3>7, <4>1
        <5> QED
          BY <3>4, <3>7, <4>1, <5>1 DEF IsSound
      <4>2. CASE k = Len(c) + 1
        <5>1. k > 1 => k - 1 \in DOMAIN c
          BY <3>7, <4>2
        <5>2. d[k].from = w.open /\ d[k].to = e.at /\ Seen(list, employee, "check_in", w.open)
          BY <2>3, <3>2, <3>7, <4>2 DEF IsSound
        <5>3. k > 1 => d[k - 1].to <= w.open
          BY <2>3, <3>4, <3>7, <5>1 DEF IsSound
        <5>4. e.at <= e.at
          BY <3>1
        <5> QED
          BY <2>1, <3>1, <5>2, <5>3, <5>4
      <4> QED
        BY <3>8, <4>1, <4>2
    <3> QED
      BY <3>6, <3>9 DEF IsSound
  <2> QED
    BY <2>2, <2>3
<1> QED
  BY <1>2, <1>4, <1>5

LEMMA AtInstantIsSound ==
  ASSUME NEW list \in Seq(AttendanceEvents), NEW employee, NEW walk \in Walks, NEW t,
         IsSound(walk, list, employee, t)
  PROVE  IsSound(AtInstant(list, employee, walk, t), list, employee, t)
<1> DEFINE m == Len(list)
<1>1. PICK r : /\ IsRun(r, Walks, EventStep(employee, t), walk, list, m)
               /\ AtInstant(list, employee, walk, t) = r[m]
  BY AtInstantRuns
<1> DEFINE N == {n \in Nat : n <= m => IsSound(r[n], list, employee, t)}
<1>2. 0 \in N
  BY <1>1 DEF IsRun
<1>3. ASSUME NEW n \in N PROVE n + 1 \in N
  <2> SUFFICES ASSUME n + 1 <= m PROVE IsSound(r[n + 1], list, employee, t)
    OBVIOUS
  <2>1. /\ n \in Nat /\ n < m /\ n \in 0 .. m /\ n + 1 \in 1 .. m
        /\ IsSound(r[n], list, employee, t)
    OBVIOUS
  <2>2. PICK e : e = list[n + 1]
    OBVIOUS
  <2>3. e \in AttendanceEvents /\ e \in Range(list) /\ r[n] \in Walks
    BY <1>1, <2>1, <2>2 DEF Range, IsRun
  <2>4. r[n + 1] = Passes(r[n], e, employee, t)
    BY <1>1, <2>1, <2>2, <2>3 DEF IsRun, Follows, EventStep
  <2>5. CASE e.employee = employee /\ e.at = t
    <3>1. IsSound(Happens(r[n], e), list, employee, t)
      BY <2>1, <2>3, <2>5, HappensIsSound
    <3> QED
      BY <2>4, <2>5, <3>1 DEF Passes
  <2>6. CASE ~(e.employee = employee /\ e.at = t)
    BY <2>1, <2>4, <2>6 DEF Passes
  <2> QED
    BY <2>5, <2>6
<1>4. N = Nat
  <2> HIDE DEF N
  <2>1. N \in SUBSET Nat
    BY DEF N
  <2> QED
    BY <1>2, <1>3, <2>1, Induction
<1>5. m \in N
  BY <1>4
<1> QED
  BY <1>1, <1>5

LEMMA WalkIsSound ==
  ASSUME NEW list \in Seq(AttendanceEvents), NEW employee
  PROVE  Walk(list, employee) \in Walks
         /\ IsSound(Walk(list, employee), list, employee, LastInstantOfAll)
<1> DEFINE m == LastInstantOfAll
<1>1. PICK r : /\ IsRun(r, Walks, InstantStep(list, employee), NoWalk, InstantsInOrder, m)
               /\ Walk(list, employee) = r[m]
  BY WalkRuns
<1>2. m \in Nat /\ Instants = 1 .. m /\ m \in 0 .. m
  BY InstantsAre
<1> HIDE DEF m
<1> DEFINE N == {n \in Nat : n <= m => IsSound(r[n], list, employee, n)}
<1>3. 0 \in N
  <2>1. r[0] = NoWalk
    BY <1>1 DEF IsRun
  <2>2. IsSound(NoWalk, list, employee, 0)
    BY DEF IsSound, NoWalk
  <2> QED
    BY <2>1, <2>2
<1>4. ASSUME NEW n \in N PROVE n + 1 \in N
  <2> SUFFICES ASSUME n + 1 <= m PROVE IsSound(r[n + 1], list, employee, n + 1)
    OBVIOUS
  <2>1. /\ n \in Nat /\ n < m /\ n \in 0 .. m /\ n + 1 \in Instants
        /\ IsSound(r[n], list, employee, n)
    BY <1>2
  <2>2. r[n] \in Walks
    BY <1>1, <2>1 DEF IsRun
  <2>3. r[n + 1] = AtInstant(list, employee, r[n], n + 1)
    BY <1>1, <2>1, <2>2 DEF IsRun, Follows, InstantStep, InstantsInOrder
  <2>4. IsSound(r[n], list, employee, n + 1)
    <3>1. r[n].closed \in Seq(Sessions) /\ r[n].open \in Instants \cup {NotOpen}
      BY <2>2 DEF Walks
    <3>2. \A t \in Instants : t <= n => t <= n + 1
      BY <1>2, <2>1
    <3>3. \A k \in DOMAIN r[n].closed : r[n].closed[k].to \in Instants
      <4>1. PICK c \in Seq(Sessions) : c = r[n].closed
        BY <3>1
      <4>2. \A k \in DOMAIN c : c[k] \in Sessions
        OBVIOUS
      <4> QED
        BY <4>1, <4>2 DEF Sessions
    <3>4. r[n].open # NotOpen => r[n].open \in Instants
      BY <3>1
    <3> QED
      BY <2>1, <3>2, <3>3, <3>4 DEF IsSound
  <2> QED
    BY <2>2, <2>3, <2>4, AtInstantIsSound
<1>5. N = Nat
  <2> HIDE DEF N
  <2>1. N \in SUBSET Nat
    BY DEF N
  <2> QED
    BY <1>3, <1>4, <2>1, Induction
<1>6. m \in N
  BY <1>2, <1>5
<1>7. r[m] \in Walks /\ IsSound(r[m], list, employee, m)
  BY <1>1, <1>2, <1>6 DEF IsRun
<1> QED
  BY <1>1, <1>7 DEF m

LEMMA SessionsAlwaysDisjoint ==
  ASSUME attendance \in Seq(AttendanceEvents)
  PROVE  SessionsAreDisjoint
<1> SUFFICES ASSUME NEW e \in Employees
             PROVE  LET walk == Walk(attendance, e)
                        Met(type, t) == [employee |-> e, type |-> type, at |-> t] \in Range(attendance)
                    IN /\ \A k \in DOMAIN walk.closed :
                            /\ walk.closed[k].from < walk.closed[k].to
                            /\ Met("check_in", walk.closed[k].from)
                            /\ Met("check_out", walk.closed[k].to)
                            /\ k > 1 => walk.closed[k - 1].to <= walk.closed[k].from
                       /\ walk.open # NotOpen =>
                            /\ Met("check_in", walk.open)
                            /\ \A k \in DOMAIN walk.closed : walk.closed[k].to <= walk.open
  BY DEF SessionsAreDisjoint
<1>1. IsSound(Walk(attendance, e), attendance, e, LastInstantOfAll)
  BY WalkIsSound
<1> QED
  BY <1>1 DEF IsSound, Seen

-----------------------------------------------------------------------------
(* Workforce: one more event, later than the others, adds to the sessions.   *)

LEMMA AtInstantOfAppend ==
  ASSUME NEW list \in Seq(AttendanceEvents), NEW e \in AttendanceEvents, NEW employee,
         NEW walk \in Walks, NEW t
  PROVE  AtInstant(Append(list, e), employee, walk, t)
           = Passes(AtInstant(list, employee, walk, t), e, employee, t)
<1> DEFINE m == Len(list)
           longer == Append(list, e)
           step == EventStep(employee, t)
<1>1. /\ longer \in Seq(AttendanceEvents) /\ Len(longer) = m + 1 /\ m \in Nat
      /\ longer[m + 1] = e /\ \A i \in 1 .. m : longer[i] = list[i]
  OBVIOUS
<1>2. PICK r : IsRun(r, Walks, step, walk, list, m) /\ AtInstant(list, employee, walk, t) = r[m]
  BY AtInstantRuns
<1> HIDE DEF longer
<1>3. PICK q : /\ IsRun(q, Walks, step, walk, longer, m + 1)
               /\ AtInstant(longer, employee, walk, t) = q[m + 1]
  BY <1>1, AtInstantRuns
<1> HIDE DEF step, m
<1>4. Follows(r, step, list, m) /\ Follows(q, step, longer, m) /\ r[0] = q[0]
  BY <1>1, <1>2, <1>3 DEF IsRun, Follows
<1>5. r[m] = q[m]
  BY <1>1, <1>4, RunsAgree
<1>6. q[m + 1] = step[<<q[m], e>>] /\ q[m] \in Walks
  BY <1>1, <1>3 DEF IsRun, Follows
<1>7. q[m + 1] = Passes(q[m], e, employee, t)
  BY <1>6 DEF step, EventStep
<1> QED
  BY <1>2, <1>3, <1>5, <1>7 DEF longer

\* Where an employee has no event, nothing happens.
LEMMA AtInstantIdle ==
  ASSUME NEW list \in Seq(AttendanceEvents), NEW employee, NEW walk \in Walks, NEW t,
         \A i \in 1 .. Len(list) : list[i].employee = employee => list[i].at # t
  PROVE  AtInstant(list, employee, walk, t) = walk
<1> DEFINE m == Len(list)
<1>1. PICK r : /\ IsRun(r, Walks, EventStep(employee, t), walk, list, m)
               /\ AtInstant(list, employee, walk, t) = r[m]
  BY AtInstantRuns
<1> DEFINE N == {n \in Nat : n <= m => r[n] = walk}
<1>2. 0 \in N
  BY <1>1 DEF IsRun
<1>3. ASSUME NEW n \in N PROVE n + 1 \in N
  <2> SUFFICES ASSUME n + 1 <= m PROVE r[n + 1] = walk
    OBVIOUS
  <2>4. n \in Nat /\ (n <= m => r[n] = walk)
    BY <1>3
  <2>5. m \in Nat
    OBVIOUS
  <2>6. n < m /\ n <= m /\ n + 1 \in 1 .. m
    <3> HIDE DEF N, m
    <3> QED
      BY <2>4, <2>5
  <2>1. n \in Nat /\ n < m /\ n + 1 \in 1 .. m /\ r[n] = walk
    BY <2>4, <2>6
  <2>3. list[n + 1] \in AttendanceEvents
    BY <2>1
  <2>2. r[n + 1] = Passes(walk, list[n + 1], employee, t)
    BY <1>1, <2>1, <2>3 DEF IsRun, Follows, EventStep
  <2> QED
    BY <2>1, <2>2 DEF Passes
<1>4. N = Nat
  <2> HIDE DEF N
  <2>1. N \in SUBSET Nat
    BY DEF N
  <2> QED
    BY <1>2, <1>3, <2>1, Induction
<1>5. m \in N
  BY <1>4
<1> QED
  BY <1>1, <1>5

LEMMA WalkOfAppend ==
  ASSUME NEW list \in Seq(AttendanceEvents), NEW e \in AttendanceEvents, NEW employee,
         \A i \in 1 .. Len(list) : list[i].employee = employee => list[i].at < e.at
  PROVE  Walk(Append(list, e), employee)
           = IF e.employee = employee THEN Happens(Walk(list, employee), e) ELSE Walk(list, employee)
<1> DEFINE m == LastInstantOfAll
           Then(w) == IF e.employee = employee THEN Happens(w, e) ELSE w
<1>10. Append(list, e) \in Seq(AttendanceEvents)
  OBVIOUS
<1>1. PICK longer : longer = Append(list, e) /\ longer \in Seq(AttendanceEvents)
  BY <1>10
<1>2. m \in Nat /\ Instants = 1 .. m /\ e.at \in Instants
  BY InstantsAre DEF AttendanceEvents
<1>3. PICK r : /\ IsRun(r, Walks, InstantStep(list, employee), NoWalk, InstantsInOrder, m)
               /\ Walk(list, employee) = r[m]
  BY WalkRuns
<1>4. PICK q : /\ IsRun(q, Walks, InstantStep(longer, employee), NoWalk, InstantsInOrder, m)
               /\ Walk(longer, employee) = q[m]
  BY <1>1, WalkRuns
<1> HIDE DEF m
<1> DEFINE N == {n \in Nat : n <= m => q[n] = IF n < e.at THEN r[n] ELSE Then(r[n])}
<1>5. 0 \in N
  BY <1>2, <1>3, <1>4 DEF IsRun
<1>6. ASSUME NEW n \in N PROVE n + 1 \in N
  <2> SUFFICES ASSUME n + 1 <= m
               PROVE  q[n + 1] = IF n + 1 < e.at THEN r[n + 1] ELSE Then(r[n + 1])
    OBVIOUS
  <2>1. /\ n \in Nat /\ n < m /\ n \in 0 .. m /\ n + 1 \in Instants
        /\ q[n] = IF n < e.at THEN r[n] ELSE Then(r[n])
    BY <1>2
  <2>2. r[n] \in Walks /\ q[n] \in Walks
    BY <1>3, <1>4, <2>1 DEF IsRun
  <2>3. r[n + 1] = AtInstant(list, employee, r[n], n + 1)
    BY <1>3, <2>1, <2>2 DEF IsRun, Follows, InstantStep, InstantsInOrder
  <2>4. q[n + 1] = AtInstant(longer, employee, q[n], n + 1)
    BY <1>4, <2>1, <2>2 DEF IsRun, Follows, InstantStep, InstantsInOrder
  <2>5. q[n + 1] = Passes(AtInstant(list, employee, q[n], n + 1), e, employee, n + 1)
    BY <1>1, <2>2, <2>4, AtInstantOfAppend
  <2>6. e.at \in Nat
    BY <1>2
  <2>7. CASE n + 1 < e.at
    <3>1. q[n] = r[n]
      BY <2>1, <2>6, <2>7
    <3> QED
      BY <2>3, <2>5, <2>6, <2>7, <3>1 DEF Passes
  <2>8. CASE n + 1 = e.at
    <3>1. q[n] = r[n]
      BY <2>1, <2>6, <2>8
    <3> QED
      BY <2>3, <2>5, <2>6, <2>8, <3>1 DEF Passes
  <2>9. CASE n + 1 > e.at
    <3>1. q[n] = Then(r[n])
      BY <2>1, <2>6, <2>9
    <3>2. \A i \in 1 .. Len(list) : list[i].employee = employee => list[i].at # n + 1
      <4> SUFFICES ASSUME NEW i \in 1 .. Len(list), list[i].employee = employee
                   PROVE  list[i].at # n + 1
        OBVIOUS
      <4>1. list[i].at \in Instants /\ list[i].at < e.at
        <5>1. list[i] \in AttendanceEvents
          OBVIOUS
        <5> QED
          BY <5>1 DEF AttendanceEvents
      <4> QED
        BY <1>2, <2>1, <2>6, <2>9, <4>1
    <3>3. AtInstant(list, employee, q[n], n + 1) = q[n] /\ r[n + 1] = r[n]
      BY <2>2, <2>3, <3>2, AtInstantIdle
    <3>4. q[n + 1] = q[n]
      BY <2>5, <2>6, <2>9, <3>3 DEF Passes
    <3>5. ~(n + 1 < e.at)
      BY <2>1, <2>6, <2>9
    <3> QED
      BY <3>1, <3>3, <3>4, <3>5
  <2> QED
    BY <2>1, <2>6, <2>7, <2>8, <2>9
<1>7. N = Nat
  <2> HIDE DEF N
  <2>1. N \in SUBSET Nat
    BY DEF N
  <2> QED
    BY <1>5, <1>6, <2>1, Induction
<1>8. m \in N /\ ~(m < e.at)
  BY <1>2, <1>7
<1>9. q[m] = Then(r[m])
  BY <1>2, <1>8
<1> QED
  BY <1>1, <1>3, <1>4, <1>9

WorkforceInv ==
  /\ attendance \in Seq(AttendanceEvents)
  /\ roster \in Seq([employee : Employees, department : Departments])

LEMMA SessionsStep == WorkforceInv /\ [WorkforceNext]_workforceVars => ClosedSessionsStand
<1> SUFFICES ASSUME WorkforceInv, [WorkforceNext]_workforceVars, NEW employee \in Employees,
                    attendance' # attendance,
                    \A t \in {t \in Instants : \E k \in DOMAIN attendance :
                                attendance[k].employee = employee /\ attendance[k].at = t} :
                      Last(attendance').at > t
             PROVE  IsPrefix(Walk(attendance, employee).closed, Walk(attendance', employee).closed)
  BY DEF ClosedSessionsStand
<1>1. PICK e \in AttendanceEvents : attendance' = Append(attendance, e)
  BY DEF WorkforceNext, Attend, List, workforceVars
<1>2. PICK list \in Seq(AttendanceEvents) : list = attendance
  BY DEF WorkforceInv
<1>3. PICK longer : longer = attendance'
  OBVIOUS
<1>4. longer = Append(list, e) /\ Last(longer) = e
  BY <1>1, <1>2, <1>3 DEF Last
<1>5. \A i \in 1 .. Len(list) : list[i].employee = employee => list[i].at < e.at
  <2> SUFFICES ASSUME NEW i \in 1 .. Len(list), list[i].employee = employee
               PROVE  list[i].at < e.at
    OBVIOUS
  <2>1. i \in DOMAIN list /\ list[i].at \in Instants /\ e.at \in Instants
    <3>1. i \in DOMAIN list /\ list[i] \in AttendanceEvents
      OBVIOUS
    <3> QED
      BY <3>1 DEF AttendanceEvents
  <2>2. e.at > list[i].at
    BY <1>2, <1>3, <1>4, <2>1
  <2>3. list[i].at \in Nat /\ e.at \in Nat
    BY <2>1, InstantsAre
  <2> QED
    BY <2>2, <2>3
<1>6. PICK w \in Walks : w = Walk(list, employee)
  BY WalkIsSound
<1>7. PICK z : z = Walk(longer, employee)
  OBVIOUS
<1>8. z = IF e.employee = employee THEN Happens(w, e) ELSE w
  BY <1>4, <1>5, <1>6, <1>7, WalkOfAppend
<1>9. w.closed \in Seq(Sessions) /\ w.open \in Instants \cup {NotOpen}
      /\ w = [open |-> w.open, closed |-> w.closed]
  BY DEF Walks
<1>10. z.closed = w.closed
       \/ \E s \in Sessions : z.closed = Append(w.closed, s)
  <2>1. e.at \in Instants
    BY DEF AttendanceEvents
  <2>2. CASE e.employee # employee
    BY <1>8, <2>2
  <2>3. CASE z = FirstCheckIn(w, e)
    BY <1>9, <2>3 DEF FirstCheckIn
  <2>4. CASE z = CheckOut(w, e)
    <3>1. CASE w.open = NotOpen \/ e.at <= w.open
      BY <1>9, <2>4, <3>1 DEF CheckOut
    <3>2. CASE ~(w.open = NotOpen \/ e.at <= w.open)
      <4>1. [from |-> w.open, to |-> e.at] \in Sessions
        BY <1>9, <2>1, <3>2 DEF Sessions
      <4>2. z.closed = Append(w.closed, [from |-> w.open, to |-> e.at])
        BY <2>4, <3>2 DEF CheckOut
      <4> QED
        BY <4>1, <4>2
    <3> QED
      BY <3>1, <3>2
  <2> QED
    BY <1>8, <2>2, <2>3, <2>4 DEF Happens
<1>11. IsPrefix(w.closed, z.closed)
  <2>1. PICK c \in Seq(Sessions) : c = w.closed
    BY <1>9
  <2>2. PICK d : d = z.closed
    OBVIOUS
  <2>3. d \in Seq(Sessions) /\ Len(c) <= Len(d) /\ \A k \in 1 .. Len(c) : c[k] = d[k]
    <3>1. CASE d = c
      BY <3>1
    <3>2. ASSUME NEW s \in Sessions, d = Append(c, s)
          PROVE  d \in Seq(Sessions) /\ Len(c) <= Len(d) /\ \A k \in 1 .. Len(c) : c[k] = d[k]
      BY <3>2
    <3> QED
      BY <1>10, <2>1, <2>2, <3>1, <3>2
  <2>4. SubSeq(c, 1, Len(c)) = SubSeq(d, 1, Len(c))
    BY <2>1, <2>3
  <2>5. IsPrefix(c, d)
    BY <2>3, <2>4 DEF IsPrefix
  <2> QED
    BY <2>1, <2>2, <2>5
<1> QED
  BY <1>2, <1>3, <1>6, <1>7, <1>11

-----------------------------------------------------------------------------
(* Workforce: hours, scores and the departments they are averaged over.      *)

Shifts == {s \in Sessions : s.from < s.to}

LEMMA HoursAre ==
  ASSUME NEW s \in Shifts
  PROVE  Hours(s) \in Nat /\ Overtime(s) \in Nat
<1>1. s.from \in Nat /\ s.to \in Nat /\ s.from < s.to
  <2>1. s.from \in Instants /\ s.to \in Instants /\ s.from < s.to
    BY DEF Shifts, Sessions
  <2> QED
    BY <2>1, InstantsAre
<1>2. PICK n \in Nat : n = s.to - s.from
  BY <1>1
<1>3. n * HoursPerInstant \in Nat
  BY WorkforceAssumption
<1>4. Hours(s) \in Nat
  BY <1>2, <1>3 DEF Hours
<1>5. PICK h \in Nat : h = Hours(s)
  BY <1>4
<1>6. Overtime(s) \in Nat
  BY <1>5 DEF Overtime
<1> QED
  BY <1>4, <1>6

HoursStep == [p \in Nat \X Shifts |-> p[1] + Hours(p[2])]
OvertimeStep == [p \in Nat \X Shifts |-> p[1] + Overtime(p[2])]

LEMMA TotalsAre ==
  ASSUME NEW sessions \in Seq(Shifts)
  PROVE  TotalHours(sessions) \in Nat /\ OvertimeHours(sessions) \in Nat
<1> DEFINE m == Len(sessions)
           P(g) == g = [u \in SUBSET (1 .. m) |->
                          IF u = {} THEN 0 ELSE g[u \ {Max(u)}] + Hours(sessions[Max(u)])]
           Q(g) == g = [u \in SUBSET (1 .. m) |->
                          IF u = {} THEN 0 ELSE g[u \ {Max(u)}] + Overtime(sessions[Max(u)])]
<1>1. m \in Nat /\ DOMAIN sessions = 1 .. m /\ \A i \in 1 .. m : sessions[i] \in Shifts
  OBVIOUS
<1>2. TotalHours(sessions) = (CHOOSE g : P(g))[1 .. m]
  BY <1>1 DEF TotalHours, FoldLeft, MapThenFoldSet
<1>3. OvertimeHours(sessions) = (CHOOSE g : Q(g))[1 .. m]
  BY <1>1 DEF OvertimeHours, FoldLeft, MapThenFoldSet
<1>4. /\ HoursStep \in [Nat \X Shifts -> Nat] /\ OvertimeStep \in [Nat \X Shifts -> Nat]
      /\ \A n \in Nat, s \in Shifts : /\ HoursStep[<<n, s>>] = n + Hours(s)
                                      /\ OvertimeStep[<<n, s>>] = n + Overtime(s)
  <2>1. \A n \in Nat, s \in Shifts : n + Hours(s) \in Nat /\ n + Overtime(s) \in Nat
    BY HoursAre
  <2> QED
    BY <2>1 DEF HoursStep, OvertimeStep
<1> HIDE DEF m
<1>5. CanFold(Nat, Shifts, HoursStep, 0, sessions, m) /\ CanFold(Nat, Shifts, OvertimeStep, 0, sessions, m)
  BY <1>1, <1>4 DEF CanFold
<1>6. \A u \in SUBSET (1 .. m) : u # {} => /\ u \ {Max(u)} \in SUBSET (1 .. m)
                                           /\ sessions[Max(u)] \in Shifts
  BY <1>1, GreatestPlace
<1>7. PICK f : IsFold(f, Nat, HoursStep, 0, sessions, m)
  BY <1>5, FoldExists
<1>8. PICK h : IsFold(h, Nat, OvertimeStep, 0, sessions, m)
  BY <1>5, FoldExists
<1>9. P(f)
  <2>1. \A u \in SUBSET (1 .. m) : u # {} =>
          HoursStep[<<f[u \ {Max(u)}], sessions[Max(u)]>>] = f[u \ {Max(u)}] + Hours(sessions[Max(u)])
    BY <1>4, <1>6, <1>7 DEF IsFold
  <2> QED
    BY <1>7, <2>1 DEF IsFold, FoldStep
<1>10. Q(h)
  <2>1. \A u \in SUBSET (1 .. m) : u # {} =>
          OvertimeStep[<<h[u \ {Max(u)}], sessions[Max(u)]>>]
            = h[u \ {Max(u)}] + Overtime(sessions[Max(u)])
    BY <1>4, <1>6, <1>8 DEF IsFold
  <2> QED
    BY <1>8, <2>1 DEF IsFold, FoldStep
<1>11. PICK g : g = CHOOSE z : P(z)
  OBVIOUS
<1>12. PICK k : k = CHOOSE z : Q(z)
  OBVIOUS
<1>13. P(g) /\ Q(k)
  <2> HIDE DEF P, Q
  <2>1. P(g)
    BY <1>9, <1>11, Zenon
  <2>2. Q(k)
    BY <1>10, <1>12, Zenon
  <2> QED
    BY <2>1, <2>2
<1>14. Folds(g, HoursStep, Nat, 0, sessions, m)
  <2>1. g = [u \in SUBSET (1 .. m) |->
               IF u = {} THEN 0 ELSE g[u \ {Max(u)}] + Hours(sessions[Max(u)])]
    BY <1>13
  <2> HIDE DEF P, Q
  <2> QED
    BY <1>4, <1>6, <2>1 DEF Folds
<1>15. Folds(k, OvertimeStep, Nat, 0, sessions, m)
  <2>1. k = [u \in SUBSET (1 .. m) |->
               IF u = {} THEN 0 ELSE k[u \ {Max(u)}] + Overtime(sessions[Max(u)])]
    BY <1>13
  <2> HIDE DEF P, Q
  <2> QED
    BY <1>4, <1>6, <2>1 DEF Folds
<1>16. PICK r : IsRun(r, Nat, HoursStep, 0, sessions, m) /\ r[m] = g[1 .. m]
  BY <1>5, <1>14, FoldRuns
<1>17. PICK q : IsRun(q, Nat, OvertimeStep, 0, sessions, m) /\ q[m] = k[1 .. m]
  BY <1>5, <1>15, FoldRuns
<1>18. r[m] \in Nat /\ q[m] \in Nat
  BY <1>1, <1>16, <1>17 DEF IsRun
<1>19. TotalHours(sessions) = r[m] /\ OvertimeHours(sessions) = q[m]
  BY <1>2, <1>3, <1>11, <1>12, <1>16, <1>17
<1> QED
  BY <1>18, <1>19

LEMMA SmallerOf ==
  ASSUME NEW a \in Nat, NEW b \in Nat
  PROVE  Min({a, b}) \in Nat
<1>1. \E x \in {a, b} : \A y \in {a, b} : x <= y
  OBVIOUS
<1>2. Min({a, b}) \in {a, b}
  BY <1>1, Zenon DEF Min
<1> QED
  BY <1>2

\* A score is a whole number of hundredths.
LEMMA ScoresAre ==
  ASSUME NEW list \in Seq(AttendanceEvents), NEW e \in Employees
  PROVE  ScoreOf(list, e) \in Nat
<1>1. PICK w \in Walks : w = Walk(list, e) /\ IsSound(w, list, e, LastInstantOfAll)
  BY WalkIsSound
<1>2. w.closed \in Seq(Shifts)
  <2>1. PICK c \in Seq(Sessions) : c = w.closed
    BY DEF Walks
  <2>2. \A k \in 1 .. Len(c) : c[k] \in Shifts
    <3>1. \A k \in 1 .. Len(c) : c[k] \in Sessions /\ k \in DOMAIN c
      OBVIOUS
    <3> QED
      BY <1>1, <2>1, <3>1 DEF IsSound, Shifts
  <2> QED
    BY <2>1, <2>2
<1>3. PICK h \in Nat : h = TotalHours(w.closed)
  BY <1>2, TotalsAre
<1>4. PICK o \in Nat : o = OvertimeHours(w.closed)
  BY <1>2, TotalsAre
<1>5. PICK p \in Nat : p = Pressure[e]
  <2>1. PICK p \in 0 .. 100 : p = Pressure[e]
    BY WorkforceAssumption
  <2>2. p \in Nat
    OBVIOUS
  <2> QED
    BY <2>1, <2>2
<1>6. ScoreOf(list, e) = WorkloadScore(h, o, p)
  BY <1>1, <1>3, <1>4, <1>5 DEF ScoreOf
<1>7. PICK a \in Nat : a = Min({4375 * h, 52500})
  BY SmallerOf
<1>8. PICK b \in Nat : b = Min({6250 * o, 25000})
  BY SmallerOf
<1>9. PICK d \in Nat : d = ((a + b + 200 * p) + 500) \div 1000
  <2>1. (a + b + 200 * p) + 500 \in Nat
    OBVIOUS
  <2> QED
    BY <2>1
<1>10. WorkloadScore(h, o, p) = Min({d, 100})
  BY <1>7, <1>8, <1>9 DEF WorkloadScore
<1> QED
  BY <1>6, <1>10, SmallerOf

\* A rounded average of scores below 70 is below 70.
LEMMA RoundedBelow ==
  ASSUME NEW n \in Nat, n # 0, NEW sum \in Nat, sum <= 69 * n
  PROVE  ~((2 * sum + n) \div (2 * n) >= 70)
<1>1. PICK a \in Nat : a = 2 * sum + n
  OBVIOUS
<1>2. PICK b \in Nat : b = 2 * n
  OBVIOUS
<1>3. b > 0 /\ a < 70 * b
  BY <1>1, <1>2
<1>4. PICK q \in Int : q = a \div b
  BY <1>3
<1>5. b * q <= a
  BY <1>3, <1>4
<1>6. ASSUME q >= 70 PROVE FALSE
  <2>1. PICK k \in Nat : q = 70 + k
    <3>1. q - 70 \in Nat /\ q = 70 + (q - 70)
      BY <1>6
    <3> QED
      BY <3>1
  <2>2. b * q = 70 * b + b * k /\ b * k \in Nat
    BY <2>1
  <2>3. PICK p \in Nat : p = b * k
    BY <2>2
  <2> QED
    BY <1>3, <1>5, <2>2, <2>3
<1> QED
  BY <1>1, <1>2, <1>4, <1>6

RosterEntries == [employee : Employees, department : Departments]

LEMMA ListedAre ==
  ASSUME WorkforceInv
  PROVE  /\ Listed \in SUBSET Employees /\ IsFiniteSet(Listed)
         /\ \A e \in Listed : DepartmentOf(e) \in Departments
<1>1. PICK list : list = roster /\ list \in Seq(RosterEntries)
  BY DEF WorkforceInv, RosterEntries
<1>2. Len(list) \in Nat /\ DOMAIN list = 1 .. Len(list) /\ \A k \in DOMAIN list : list[k] \in RosterEntries
  BY <1>1
<1>3. Listed = {list[k].employee : k \in DOMAIN list}
  BY <1>1 DEF Listed, Range
<1>4. IsFiniteSet(Listed)
  <2> DEFINE f == [k \in 1 .. Len(list) |-> list[k].employee]
  <2>1. f \in Surjection(1 .. Len(list), Listed)
    BY <1>2, <1>3 DEF Surjection
  <2> HIDE DEF f
  <2>2. IsFiniteSet(1 .. Len(list))
    BY <1>2, FS_Interval
  <2> QED
    BY <2>1, <2>2, FS_Surjection
<1>5. ASSUME NEW e \in Listed PROVE DepartmentOf(e) \in Departments
  <2> DEFINE places == {k \in DOMAIN list : list[k].employee = e}
  <2>1. places # {} /\ places \in SUBSET (1 .. Len(list))
    BY <1>2, <1>3
  <2> HIDE DEF places
  <2>2. Max(places) \in places
    BY <1>2, <2>1, GreatestPlace
  <2>3. PICK k \in 1 .. Len(list) : k = Max(places)
    BY <2>1, <2>2
  <2>4. DepartmentOf(e) = list[k].department
    BY <1>1, <2>3 DEF DepartmentOf, places
  <2> QED
    BY <1>2, <2>3, <2>4 DEF RosterEntries
<1> QED
  BY <1>2, <1>3, <1>4, <1>5 DEF RosterEntries

LEMMA SizesAddUp ==
  ASSUME WorkforceInv
  PROVE  MapThenSumSet(LAMBDA d : Cardinality(Members(d)), Departments) = Cardinality(Listed)
<1> DEFINE M == [d \in Departments |-> Members(d)]
           w == [d \in Departments |-> Cardinality(M[d])]
           P(g) == g = [t \in SUBSET Departments |->
                          IF t = {} THEN 0
                          ELSE Cardinality(Members(Picked(t))) + g[t \ {Picked(t)}]]
<1>1. MapThenSumSet(LAMBDA d : Cardinality(Members(d)), Departments) = (CHOOSE g : P(g))[Departments]
  BY DEF MapThenSumSet, MapThenFoldSet, Picked
<1>2. IsFiniteSet(Departments)
  BY WorkforceAssumption
<1>3. \A t \in SUBSET Departments : t # {} => Picked(t) \in Departments
  <2> SUFFICES ASSUME NEW t \in SUBSET Departments, t # {} PROVE Picked(t) \in Departments
    OBVIOUS
  <2>1. PICK d \in t : TRUE
    OBVIOUS
  <2>2. Picked(t) \in t
    BY <2>1, Zenon DEF Picked
  <2> QED
    BY <2>2
<1>4. \A d \in Departments : w[d] = Cardinality(Members(d))
  OBVIOUS
<1>5. ASSUME NEW g PROVE P(g) <=> IsSum(g, w, Departments)
  <2> HIDE DEF w
  <2>1. ASSUME NEW t \in SUBSET Departments
        PROVE  SumStep(g, w, t) = IF t = {} THEN 0
                                  ELSE Cardinality(Members(Picked(t))) + g[t \ {Picked(t)}]
    BY <1>3, <1>4 DEF SumStep
  <2> QED
    BY <2>1 DEF IsSum
<1>6. PICK h : IsSum(h, w, Departments)
  BY <1>2, SumExists
<1>7. PICK g : g = CHOOSE z : P(z)
  OBVIOUS
<1>8. P(g)
  <2>1. P(h)
    BY <1>5, <1>6
  <2> HIDE DEF P
  <2> QED
    BY <1>7, <2>1, Zenon
<1>9. IsSum(g, w, Departments)
  BY <1>5, <1>8
<1>10. \A d \in Departments : M[d] \in SUBSET Listed
  BY DEF Members
<1>11. \A d \in Departments : IsFiniteSet(M[d])
  BY <1>10, ListedAre, FS_Subset
<1>12. \A d, e \in Departments : d # e => M[d] \cap M[e] = {}
  BY DEF Members
<1>13. UNION {M[d] : d \in Departments} = Listed
  BY <1>10, ListedAre DEF Members
<1> HIDE DEF M, P
<1>14. g[Departments] = Cardinality(UNION {M[d] : d \in Departments})
  BY <1>2, <1>9, <1>11, <1>12, SumOfSizes DEF w
<1> QED
  BY <1>1, <1>7, <1>13, <1>14

\* A department none of whose members is at 70 is not at high risk.
LEMMA AverageIsBacked ==
  ASSUME WorkforceInv, NEW d \in Departments, Members(d) \cap RiskEmployees = {}
  PROVE  RiskLevel(AverageScore(d)) # "high"
<1> DEFINE members == Members(d)
           score == [e \in members |-> ScoreOf(attendance, e)]
           P(g) == g = [t \in SUBSET members |->
                          IF t = {} THEN 0
                          ELSE ScoreOf(attendance, Picked(t)) + g[t \ {Picked(t)}]]
<1>1. PICK sum : sum = MapThenSumSet(LAMBDA e : ScoreOf(attendance, e), members)
  OBVIOUS
<1>2. sum = (CHOOSE g : P(g))[members]
  BY <1>1 DEF MapThenSumSet, MapThenFoldSet, Picked
<1>3. AverageScore(d) = IF members = {} THEN 0
                        ELSE (2 * sum + Cardinality(members)) \div (2 * Cardinality(members))
  BY <1>1 DEF AverageScore
<1>4. members \in SUBSET Listed /\ IsFiniteSet(members)
  <2>1. members \in SUBSET Listed
    BY DEF Members
  <2> QED
    BY <2>1, ListedAre, FS_Subset
<1>5. \A e \in members : score[e] \in Nat /\ score[e] <= 69 /\ score[e] = ScoreOf(attendance, e)
  <2> SUFFICES ASSUME NEW e \in members PROVE ScoreOf(attendance, e) \in Nat /\ ScoreOf(attendance, e) <= 69
    OBVIOUS
  <2>1. e \in Listed /\ e \in Employees
    BY <1>4, ListedAre
  <2>2. PICK s \in Nat : s = ScoreOf(attendance, e)
    BY <2>1, ScoresAre DEF WorkforceInv
  <2>3. ~(s >= 70)
    BY <2>1, <2>2 DEF RiskEmployees
  <2> QED
    BY <2>2, <2>3
<1> HIDE DEF members, score
<1>6. \A t \in SUBSET members : t # {} => Picked(t) \in members
  <2> SUFFICES ASSUME NEW t \in SUBSET members, t # {} PROVE Picked(t) \in members
    OBVIOUS
  <2>1. PICK e \in t : TRUE
    OBVIOUS
  <2>2. Picked(t) \in t
    BY <2>1, Zenon DEF Picked
  <2> QED
    BY <2>2
<1>7. ASSUME NEW g PROVE P(g) <=> IsSum(g, score, members)
  <2>1. ASSUME NEW t \in SUBSET members
        PROVE  SumStep(g, score, t) = IF t = {} THEN 0
                                      ELSE ScoreOf(attendance, Picked(t)) + g[t \ {Picked(t)}]
    BY <1>5, <1>6 DEF SumStep
  <2> QED
    BY <2>1 DEF IsSum
<1>8. PICK h : IsSum(h, score, members)
  BY <1>4, SumExists
<1>9. PICK g : g = CHOOSE z : P(z)
  OBVIOUS
<1>10. P(g)
  <2>1. P(h)
    BY <1>7, <1>8
  <2> HIDE DEF P
  <2> QED
    BY <1>9, <2>1, Zenon
<1>11. IsSum(g, score, members)
  BY <1>7, <1>10
<1> HIDE DEF P
<1>12. g[members] \in Nat /\ g[members] <= 69 * Cardinality(members)
  BY <1>4, <1>5, <1>11, SumAtMost
<1>13. Cardinality(members) \in Nat /\ (Cardinality(members) = 0 <=> members = {})
  BY <1>4, FS_CardinalityType, FS_EmptySet
<1>14. PICK a : a = AverageScore(d)
  OBVIOUS
<1>15. ~(a >= 70)
  <2>1. CASE members = {}
    BY <1>3, <1>14, <2>1
  <2>2. CASE members # {}
    <3>1. ~((2 * sum + Cardinality(members)) \div (2 * Cardinality(members)) >= 70)
      BY <1>2, <1>9, <1>12, <1>13, <2>2, RoundedBelow
    <3> QED
      BY <1>3, <1>14, <2>2, <3>1
  <2> QED
    BY <2>1, <2>2
<1> QED
  BY <1>14, <1>15 DEF RiskLevel

LEMMA WorkforceInvStep == WorkforceInv /\ [WorkforceNext]_workforceVars => WorkforceInv'
<1> SUFFICES ASSUME WorkforceInv, [WorkforceNext]_workforceVars PROVE WorkforceInv'
  OBVIOUS
<1>1. ASSUME NEW e \in AttendanceEvents, Attend(e) PROVE WorkforceInv'
  BY <1>1 DEF WorkforceInv, Attend
<1>2. ASSUME NEW e \in Employees, NEW d \in Departments, List(e, d) PROVE WorkforceInv'
  BY <1>2 DEF WorkforceInv, List
<1>3. CASE UNCHANGED workforceVars
  BY <1>3 DEF WorkforceInv, workforceVars
<1> QED
  BY <1>1, <1>2, <1>3 DEF WorkforceNext

LEMMA WorkforceInitInv == WorkforceInit => WorkforceInv
  BY DEF WorkforceInit, WorkforceInv

LEMMA WorkforceInvImplies ==
  WorkforceInv => WorkforceTypeOK /\ SessionsAreDisjoint /\ AlertsHaveReasons
<1> SUFFICES ASSUME WorkforceInv PROVE WorkforceTypeOK /\ SessionsAreDisjoint /\ AlertsHaveReasons
  OBVIOUS
<1>1. WorkforceTypeOK
  <2>1. PICK a \in Seq(AttendanceEvents) : a = attendance
    BY DEF WorkforceInv
  <2> DEFINE D == [employee : Employees, department : Departments]
  <2>0. roster \in Seq(D)
    BY DEF WorkforceInv
  <2> HIDE DEF D
  <2>2. PICK r \in Seq(D) : r = roster
    BY <2>0
  <2>3. \A k \in DOMAIN a : a[k] \in AttendanceEvents
    OBVIOUS
  <2>4. \A k \in DOMAIN r : r[k] \in D
    OBVIOUS
  <2>5. Range(attendance) \subseteq AttendanceEvents /\ Range(roster) \subseteq D
    BY <2>1, <2>2, <2>3, <2>4 DEF Range
  <2> QED
    BY <2>5 DEF WorkforceTypeOK, D
<1>2. SessionsAreDisjoint
  BY SessionsAlwaysDisjoint DEF WorkforceInv
<1>3. AlertsHaveReasons
  BY SizesAddUp, AverageIsBacked DEF AlertsHaveReasons, RiskDepartments
<1> QED
  BY <1>1, <1>2, <1>3

-----------------------------------------------------------------------------
(* The attendance devices: the candidates met so far, one for each device.   *)

AnyDevice == [transport : {"serial", "windows_device"}, name : Names \cup {NoName}, key : Ports]

LEMMA SameIs ==
  ASSUME NEW c \in AnyDevice, NEW d \in AnyDevice, NEW e \in AnyDevice
  PROVE  /\ SameDevice(c, c) /\ (SameDevice(c, d) => SameDevice(d, c))
         /\ SameDevice(c, d) /\ SameDevice(d, e) => SameDevice(c, e)
  BY DEF SameDevice

\* Every device met is a candidate, no two candidates are one device.
Has(u, c) == \E k \in 1 .. Len(u) : SameDevice(u[k], c)
Apart(u) == \A i, j \in 1 .. Len(u) : SameDevice(u[i], u[j]) => i = j
AllSerial(u) == \A i \in 1 .. Len(u) : u[i].transport = "serial"
\* Candidates stay in their places, and those with a serial port as they are.
Keeps(u, v) ==
  /\ Len(u) <= Len(v)
  /\ \A i \in 1 .. Len(u) : /\ SameDevice(v[i], u[i])
                            /\ u[i].transport = "serial" => v[i] = u[i]
\* Nothing beyond the first n candidates has a serial port.
SerialWithin(u, n) == \A i \in 1 .. Len(u) : u[i].transport = "serial" => i <= n

Takes(u, c, v) ==
  /\ v \in Seq(AnyDevice) /\ Has(v, c) /\ Keeps(u, v)
  /\ Apart(u) => Apart(v)
  /\ AllSerial(u) /\ c.transport = "serial" => AllSerial(v)
  /\ \A n \in Nat : SerialWithin(u, n) /\ c.transport = "windows_device" => SerialWithin(v, n)

LEMMA TakeReplaces ==
  ASSUME NEW u \in Seq(AnyDevice), NEW c \in AnyDevice, NEW j \in 1 .. Len(u), SameDevice(u[j], c),
         u[j].transport = "windows_device", c.transport = "serial"
  PROVE  Takes(u, c, [u EXCEPT ![j] = c])
<1>1. PICK v : v = [u EXCEPT ![j] = c]
  OBVIOUS
<1>2. Len(u) \in Nat /\ (\A i \in 1 .. Len(u) : u[i] \in AnyDevice)
  OBVIOUS
<1>3. v \in Seq(AnyDevice) /\ Len(v) = Len(u) /\ v[j] = c /\ (\A i \in 1 .. Len(u) : i # j => v[i] = u[i])
  BY <1>1
<1>4. \A i \in 1 .. Len(u) : SameDevice(v[i], u[i]) /\ SameDevice(u[i], v[i])
  <2>1. ASSUME NEW i \in 1 .. Len(u) PROVE SameDevice(v[i], u[i]) /\ SameDevice(u[i], v[i])
    <3>1. CASE i = j
      BY <1>2, <1>3, <3>1, SameIs
    <3>2. CASE i # j
      BY <1>2, <1>3, <3>2, SameIs
    <3> QED
      BY <3>1, <3>2
  <2> QED
    BY <2>1
<1>5. Keeps(u, v)
  <2>1. \A i \in 1 .. Len(u) : u[i].transport = "serial" => v[i] = u[i]
    BY <1>3
  <2> QED
    BY <1>2, <1>3, <1>4, <2>1 DEF Keeps
<1>6. Has(v, c)
  BY <1>3, SameIs DEF Has
<1>7. ASSUME Apart(u) PROVE Apart(v)
  <2>1. ASSUME NEW i \in 1 .. Len(u), NEW k \in 1 .. Len(u), SameDevice(v[i], v[k]) PROVE i = k
    <3>1. v[i] \in AnyDevice /\ v[k] \in AnyDevice /\ u[i] \in AnyDevice /\ u[k] \in AnyDevice
      BY <1>2, <1>3
    <3>2. SameDevice(u[i], v[k])
      BY <1>4, <2>1, <3>1, SameIs
    <3>3. SameDevice(u[i], u[k])
      BY <1>4, <3>1, <3>2, SameIs
    <3> QED
      BY <1>7, <3>3 DEF Apart
  <2> QED
    BY <1>3, <2>1 DEF Apart
<1>8. AllSerial(u) => AllSerial(v)
  BY <1>3 DEF AllSerial
<1>9. c.transport # "windows_device"
  OBVIOUS
<1> QED
  BY <1>1, <1>3, <1>5, <1>6, <1>7, <1>8, <1>9 DEF Takes

LEMMA TakeAppends ==
  ASSUME NEW u \in Seq(AnyDevice), NEW c \in AnyDevice, ~ Has(u, c)
  PROVE  Takes(u, c, Append(u, c))
<1>1. PICK v : v = Append(u, c)
  OBVIOUS
<1>2. PICK m \in Nat : m = Len(u)
  OBVIOUS
<1>3. /\ v \in Seq(AnyDevice) /\ Len(v) = m + 1 /\ v[m + 1] = c
      /\ \A i \in 1 .. m : v[i] = u[i] /\ u[i] \in AnyDevice
  BY <1>1, <1>2
<1>4. \A i \in 1 .. m + 1 : i \in 1 .. m \/ i = m + 1
  OBVIOUS
<1>5. Keeps(u, v)
  <2>1. \A i \in 1 .. m : SameDevice(v[i], u[i])
    BY <1>3, SameIs
  <2>2. m <= m + 1
    OBVIOUS
  <2> QED
    BY <1>2, <1>3, <2>1, <2>2 DEF Keeps
<1>6. Has(v, c)
  <2>1. m + 1 \in 1 .. Len(v)
    BY <1>3
  <2> QED
    BY <1>3, <2>1, SameIs DEF Has
<1>7. ASSUME Apart(u) PROVE Apart(v)
  <2>1. ASSUME NEW i \in 1 .. m + 1, NEW k \in 1 .. m + 1, SameDevice(v[i], v[k]) PROVE i = k
    <3>1. CASE i \in 1 .. m /\ k \in 1 .. m
      BY <1>2, <1>3, <1>7, <2>1, <3>1 DEF Apart
    <3>2. CASE i \in 1 .. m /\ k = m + 1
      BY <1>2, <1>3, <2>1, <3>2 DEF Has
    <3>3. CASE i = m + 1 /\ k \in 1 .. m
      BY <1>2, <1>3, <2>1, <3>3, SameIs DEF Has
    <3>4. CASE i = m + 1 /\ k = m + 1
      BY <3>4
    <3> QED
      BY <1>4, <3>1, <3>2, <3>3, <3>4
  <2> QED
    BY <1>3, <2>1 DEF Apart
<1>8. ASSUME AllSerial(u), c.transport = "serial" PROVE AllSerial(v)
  BY <1>2, <1>3, <1>4, <1>8 DEF AllSerial
<1>9. ASSUME NEW n \in Nat, SerialWithin(u, n), c.transport = "windows_device"
      PROVE  SerialWithin(v, n)
  BY <1>2, <1>3, <1>4, <1>9 DEF SerialWithin
<1> QED
  BY <1>1, <1>3, <1>5, <1>6, <1>7, <1>8, <1>9 DEF Takes

LEMMA TakeIs ==
  ASSUME NEW u \in Seq(AnyDevice), NEW c \in AnyDevice
  PROVE  Takes(u, c, TakeCandidate(u, c))
<1>1. DOMAIN u = 1 .. Len(u)
  OBVIOUS
<1>2. CASE Has(u, c)
  <2>1. \E k \in DOMAIN u : SameDevice(u[k], c)
    BY <1>1, <1>2 DEF Has
  <2>2. PICK j : j = CHOOSE i \in DOMAIN u : SameDevice(u[i], c)
    OBVIOUS
  <2>3. j \in DOMAIN u /\ SameDevice(u[j], c)
    BY <2>1, <2>2, Zenon
  <2>4. TakeCandidate(u, c) = PreferSerial(u, j, c)
    BY <2>1, <2>2, Zenon DEF TakeCandidate
  <2>5. CASE u[j].transport = "windows_device" /\ c.transport = "serial" /\ c.name # NoName
    <3>1. TakeCandidate(u, c) = [u EXCEPT ![j] = c]
      BY <2>4, <2>5 DEF PreferSerial
    <3> QED
      BY <1>1, <2>3, <2>5, <3>1, TakeReplaces
  <2>6. CASE ~(u[j].transport = "windows_device" /\ c.transport = "serial" /\ c.name # NoName)
    <3>1. TakeCandidate(u, c) = u
      BY <2>4, <2>6 DEF PreferSerial
    <3>2. \A i \in 1 .. Len(u) : u[i] \in AnyDevice
      OBVIOUS
    <3>3. Keeps(u, u)
      BY <3>2, SameIs DEF Keeps
    <3> QED
      BY <1>2, <3>1, <3>3 DEF Takes
  <2> QED
    BY <2>5, <2>6
<1>3. CASE ~ Has(u, c)
  <2>1. ~ \E k \in DOMAIN u : SameDevice(u[k], c)
    BY <1>1, <1>3 DEF Has
  <2>2. TakeCandidate(u, c) = Append(u, c)
    BY <2>1 DEF TakeCandidate
  <2> QED
    BY <1>3, <2>2, TakeAppends
<1> QED
  BY <1>2, <1>3

\* The candidates of a list are reached one device at a time.
Found(list) == FoldLeft(TakeCandidate, <<>>, list)
CandidateStep == [p \in Seq(AnyDevice) \X AnyDevice |-> TakeCandidate(p[1], p[2])]

LEMMA FoundRuns ==
  ASSUME NEW list \in Seq(AnyDevice)
  PROVE  \E r : /\ IsRun(r, Seq(AnyDevice), CandidateStep, <<>>, list, Len(list))
                /\ Found(list) = r[Len(list)]
<1> DEFINE m == Len(list)
           P(g) == g = [u \in SUBSET (1 .. m) |->
                          IF u = {} THEN <<>>
                          ELSE TakeCandidate(g[u \ {Max(u)}], list[Max(u)])]
<1>1. m \in Nat /\ DOMAIN list = 1 .. m /\ (\A i \in 1 .. m : list[i] \in AnyDevice)
  OBVIOUS
<1>2. Found(list) = (CHOOSE g : P(g))[1 .. m]
  BY <1>1 DEF Found, FoldLeft, MapThenFoldSet
<1>3. CandidateStep \in [Seq(AnyDevice) \X AnyDevice -> Seq(AnyDevice)]
  BY TakeIs DEF CandidateStep, Takes
<1>4. \A u \in Seq(AnyDevice), c \in AnyDevice : CandidateStep[<<u, c>>] = TakeCandidate(u, c)
  BY DEF CandidateStep
<1> HIDE DEF m
<1>5. CanFold(Seq(AnyDevice), AnyDevice, CandidateStep, <<>>, list, m)
  <2>1. <<>> \in Seq(AnyDevice)
    OBVIOUS
  <2> QED
    BY <1>1, <1>3, <2>1 DEF CanFold
<1>6. PICK f : IsFold(f, Seq(AnyDevice), CandidateStep, <<>>, list, m)
  BY <1>5, FoldExists
<1>7. \A u \in SUBSET (1 .. m) : u # {} => /\ u \ {Max(u)} \in SUBSET (1 .. m)
                                           /\ list[Max(u)] \in AnyDevice
  BY <1>1, GreatestPlace
<1>8. P(f)
  <2>1. \A u \in SUBSET (1 .. m) : u # {} =>
          CandidateStep[<<f[u \ {Max(u)}], list[Max(u)]>>] = TakeCandidate(f[u \ {Max(u)}], list[Max(u)])
    BY <1>4, <1>6, <1>7 DEF IsFold
  <2> QED
    BY <1>6, <2>1 DEF IsFold, FoldStep
<1>9. PICK g : g = CHOOSE h : P(h)
  OBVIOUS
<1>10. P(g)
  <2> HIDE DEF P
  <2> QED
    BY <1>8, <1>9, Zenon
<1>11. Folds(g, CandidateStep, Seq(AnyDevice), <<>>, list, m)
  BY <1>4, <1>7, <1>10 DEF Folds
<1>12. PICK r : IsRun(r, Seq(AnyDevice), CandidateStep, <<>>, list, m) /\ r[m] = g[1 .. m]
  BY <1>5, <1>11, FoldRuns
<1>13. Found(list) = r[m]
  BY <1>2, <1>9, <1>12
<1> HIDE DEF P
<1> QED
  BY <1>12, <1>13 DEF m

\* What has been found once the first n devices of a list are met.
LEMMA KeepsIs ==
  ASSUME NEW u \in Seq(AnyDevice), NEW v \in Seq(AnyDevice), NEW w \in Seq(AnyDevice)
  PROVE  /\ Keeps(u, u)
         /\ Keeps(u, v) /\ Keeps(v, w) => Keeps(u, w)
         /\ \A c \in AnyDevice : Has(u, c) /\ Keeps(u, v) => Has(v, c)
<1>1. /\ \A i \in 1 .. Len(u) : u[i] \in AnyDevice
      /\ \A i \in 1 .. Len(v) : v[i] \in AnyDevice
      /\ \A i \in 1 .. Len(w) : w[i] \in AnyDevice
      /\ Len(u) \in Nat /\ Len(v) \in Nat /\ Len(w) \in Nat
  OBVIOUS
<1>2. Keeps(u, u)
  BY <1>1, SameIs DEF Keeps
<1>3. ASSUME Keeps(u, v), NEW i \in 1 .. Len(u)
      PROVE  /\ i \in 1 .. Len(v) /\ SameDevice(v[i], u[i])
             /\ (u[i].transport = "serial" => v[i] = u[i])
  BY <1>1, <1>3 DEF Keeps
<1>4. ASSUME Keeps(u, v), Keeps(v, w) PROVE Keeps(u, w)
  <2>1. ASSUME NEW i \in 1 .. Len(u)
        PROVE  SameDevice(w[i], u[i]) /\ (u[i].transport = "serial" => w[i] = u[i])
    <3>1. /\ i \in 1 .. Len(v) /\ SameDevice(v[i], u[i])
          /\ (u[i].transport = "serial" => v[i] = u[i])
      BY <1>3, <1>4
    <3>2. /\ i \in 1 .. Len(w) /\ SameDevice(w[i], v[i])
          /\ (v[i].transport = "serial" => w[i] = v[i])
      BY <1>1, <1>4, <3>1 DEF Keeps
    <3>3. SameDevice(w[i], u[i])
      BY <1>1, <3>1, <3>2, SameIs
    <3> QED
      BY <3>1, <3>2, <3>3
  <2>2. Len(u) <= Len(w)
    BY <1>1, <1>4 DEF Keeps
  <2> QED
    BY <2>1, <2>2 DEF Keeps
<1>5. ASSUME NEW c \in AnyDevice, Has(u, c), Keeps(u, v) PROVE Has(v, c)
  <2>1. PICK i \in 1 .. Len(u) : SameDevice(u[i], c)
    BY <1>5 DEF Has
  <2>2. i \in 1 .. Len(v) /\ SameDevice(v[i], u[i])
    BY <1>3, <1>5
  <2>3. SameDevice(v[i], c)
    BY <1>1, <2>1, <2>2, SameIs
  <2> QED
    BY <2>2, <2>3 DEF Has
<1> QED
  BY <1>2, <1>4, <1>5

\* One more device of a run.
LEMMA RunTakes ==
  ASSUME NEW list \in Seq(AnyDevice), NEW r, NEW m, m = Len(list),
         IsRun(r, Seq(AnyDevice), CandidateStep, <<>>, list, m), NEW n \in Nat, n < m
  PROVE  /\ r[n] \in Seq(AnyDevice) /\ r[n + 1] \in Seq(AnyDevice) /\ list[n + 1] \in AnyDevice
         /\ r[n + 1] = TakeCandidate(r[n], list[n + 1]) /\ Takes(r[n], list[n + 1], r[n + 1])
<1>1. n \in 0 .. m /\ n + 1 \in 0 .. m /\ n + 1 \in 1 .. Len(list)
  OBVIOUS
<1>2. r[n] \in Seq(AnyDevice) /\ r[n + 1] \in Seq(AnyDevice) /\ list[n + 1] \in AnyDevice
  BY <1>1 DEF IsRun
<1>3. r[n + 1] = CandidateStep[<<r[n], list[n + 1]>>]
  BY DEF IsRun, Follows
<1>4. r[n + 1] = TakeCandidate(r[n], list[n + 1])
  BY <1>2, <1>3 DEF CandidateStep
<1> QED
  BY <1>2, <1>4, TakeIs

\* Whatever the list: no device twice, and none missing.
LEMMA FoundIsSound ==
  ASSUME NEW list \in Seq(AnyDevice)
  PROVE  /\ Found(list) \in Seq(AnyDevice) /\ Apart(Found(list))
         /\ \A i \in 1 .. Len(list) : Has(Found(list), list[i])
<1>1. PICK m \in Nat : m = Len(list)
  OBVIOUS
<1>2. PICK r : /\ IsRun(r, Seq(AnyDevice), CandidateStep, <<>>, list, m) /\ Found(list) = r[m]
  BY <1>1, FoundRuns
<1> DEFINE Sound(n) == Apart(r[n]) /\ \A i \in 1 .. n : Has(r[n], list[i])
           N == {n \in Nat : n <= m => Sound(n)}
<1>3. 0 \in N
  BY <1>2 DEF IsRun, Apart
<1>4. ASSUME NEW n \in N PROVE n + 1 \in N
  <2> SUFFICES ASSUME n + 1 <= m PROVE Sound(n + 1)
    OBVIOUS
  <2>1. n \in Nat /\ n < m /\ Sound(n)
    OBVIOUS
  <2>2. /\ r[n] \in Seq(AnyDevice) /\ r[n + 1] \in Seq(AnyDevice)
        /\ Takes(r[n], list[n + 1], r[n + 1])
    BY <1>1, <1>2, <2>1, RunTakes
  <2>3. Apart(r[n + 1]) /\ Has(r[n + 1], list[n + 1]) /\ Keeps(r[n], r[n + 1])
    BY <2>1, <2>2 DEF Takes
  <2>4. ASSUME NEW i \in 1 .. n + 1 PROVE Has(r[n + 1], list[i])
    <3>1. CASE i = n + 1
      BY <2>3, <3>1
    <3>2. CASE i # n + 1
      <4>1. i \in 1 .. n /\ i \in 1 .. Len(list)
        BY <1>1, <2>1, <3>2
      <4>2. list[i] \in AnyDevice /\ Has(r[n], list[i])
        BY <2>1, <4>1
      <4> QED
        BY <2>2, <2>3, <4>2, KeepsIs
    <3> QED
      BY <3>1, <3>2
  <2> QED
    BY <2>3, <2>4
<1>5. N = Nat
  <2> HIDE DEF N
  <2>1. N \in SUBSET Nat
    BY DEF N
  <2> QED
    BY <1>3, <1>4, <2>1, Induction
<1>6. Sound(m)
  BY <1>5
<1>7. m \in 0 .. m
  OBVIOUS
<1>8. r[m] \in Seq(AnyDevice)
  BY <1>2, <1>7 DEF IsRun
<1> QED
  BY <1>1, <1>2, <1>6, <1>8

\* Serial ports alone leave candidates with a serial port alone.
LEMMA SerialAreSerial ==
  ASSUME NEW list \in Seq(AnyDevice), \A i \in 1 .. Len(list) : list[i].transport = "serial"
  PROVE  AllSerial(Found(list))
<1>1. PICK m \in Nat : m = Len(list)
  OBVIOUS
<1>2. PICK r : /\ IsRun(r, Seq(AnyDevice), CandidateStep, <<>>, list, m) /\ Found(list) = r[m]
  BY <1>1, FoundRuns
<1> DEFINE N == {n \in Nat : n <= m => AllSerial(r[n])}
<1>3. 0 \in N
  BY <1>2 DEF IsRun, AllSerial
<1>4. ASSUME NEW n \in N PROVE n + 1 \in N
  <2> SUFFICES ASSUME n + 1 <= m PROVE AllSerial(r[n + 1])
    OBVIOUS
  <2>1. n \in Nat /\ n < m /\ AllSerial(r[n]) /\ list[n + 1].transport = "serial"
    BY <1>1
  <2>2. Takes(r[n], list[n + 1], r[n + 1])
    BY <1>1, <1>2, <2>1, RunTakes
  <2> QED
    BY <2>1, <2>2 DEF Takes
<1>5. N = Nat
  <2> HIDE DEF N
  <2>1. N \in SUBSET Nat
    BY DEF N
  <2> QED
    BY <1>3, <1>4, <2>1, Induction
<1> QED
  BY <1>2, <1>5

\* What Windows sees after the serial ports moves no candidate, and brings none with a port.
LEMMA WindowsKeep ==
  ASSUME NEW serial \in Seq(AnyDevice), NEW windows \in Seq(AnyDevice),
         \A i \in 1 .. Len(windows) : windows[i].transport = "windows_device"
  PROVE  /\ Keeps(Found(serial), Classify(serial, windows))
         /\ SerialWithin(Classify(serial, windows), Len(Found(serial)))
<1>1. PICK s \in Nat : s = Len(serial)
  OBVIOUS
<1>2. PICK m \in Nat : m = Len(serial) + Len(windows)
  OBVIOUS
<1>16. serial \o windows \in Seq(AnyDevice)
  OBVIOUS
<1>3. PICK list \in Seq(AnyDevice) : list = serial \o windows
  BY <1>16
<1>4. /\ m = Len(list) /\ s <= m /\ \A i \in 1 .. s : list[i] = serial[i]
      /\ \A i \in 1 .. m : i > s => list[i].transport = "windows_device"
  BY <1>1, <1>2, <1>3
<1>5. PICK q : /\ IsRun(q, Seq(AnyDevice), CandidateStep, <<>>, serial, s) /\ Found(serial) = q[s]
  BY <1>1, FoundRuns
<1>6. PICK r : /\ IsRun(r, Seq(AnyDevice), CandidateStep, <<>>, list, m) /\ Found(list) = r[m]
  BY <1>4, FoundRuns
<1>7. Classify(serial, windows) = r[m]
  BY <1>3, <1>6 DEF Classify, Observed, Found
<1>8. r[s] = q[s]
  <2>1. Follows(r, CandidateStep, list, s)
    <3>1. Follows(r, CandidateStep, list, m)
      BY <1>6 DEF IsRun
    <3> QED
      BY <1>4, <3>1, FollowsLess
  <2>2. Follows(q, CandidateStep, serial, s) /\ q[0] = r[0]
    BY <1>5, <1>6 DEF IsRun
  <2> QED
    BY <1>4, <2>1, <2>2, RunsAgree
<1>9. s \in 0 .. m /\ m \in 0 .. m
  BY <1>4
<1>10. PICK u \in Seq(AnyDevice) : u = r[s]
  BY <1>6, <1>9 DEF IsRun
<1> DEFINE Sound(n) == Keeps(u, r[n]) /\ SerialWithin(r[n], Len(u))
           N == {n \in Nat : s + n <= m => Sound(s + n)}
<1>11. 0 \in N
  <2>1. Keeps(u, u) /\ SerialWithin(u, Len(u))
    BY KeepsIs DEF SerialWithin
  <2> QED
    BY <1>10, <2>1
<1>12. ASSUME NEW n \in N PROVE n + 1 \in N
  <2> SUFFICES ASSUME s + (n + 1) <= m PROVE Sound(s + (n + 1))
    OBVIOUS
  <2>1. PICK k \in Nat : k = s + n
    OBVIOUS
  <2>2. k < m /\ s + (n + 1) = k + 1 /\ Sound(k) /\ k + 1 > s /\ k + 1 \in 1 .. m
    BY <2>1
  <2>3. list[k + 1].transport = "windows_device"
    BY <1>4, <2>2
  <2>4. /\ r[k] \in Seq(AnyDevice) /\ r[k + 1] \in Seq(AnyDevice)
        /\ Takes(r[k], list[k + 1], r[k + 1])
    BY <1>4, <1>6, <2>2, RunTakes
  <2>5. Keeps(r[k], r[k + 1]) /\ SerialWithin(r[k + 1], Len(u))
    BY <2>2, <2>3, <2>4 DEF Takes
  <2>6. Keeps(u, r[k + 1])
    BY <2>2, <2>4, <2>5, KeepsIs
  <2> QED
    BY <2>2, <2>5, <2>6
<1>13. N = Nat
  <2> HIDE DEF N
  <2>1. N \in SUBSET Nat
    BY DEF N
  <2> QED
    BY <1>11, <1>12, <2>1, Induction
<1>14. PICK n \in Nat : s + n = m
  <2>1. m - s \in Nat /\ s + (m - s) = m
    BY <1>4
  <2> QED
    BY <2>1
<1>15. Sound(m)
  <2> HIDE DEF Sound
  <2>1. n \in N
    BY <1>13
  <2>2. s + n <= m
    BY <1>14
  <2>3. Sound(s + n)
    BY <2>1, <2>2
  <2> QED
    BY <1>14, <2>3
<1> QED
  BY <1>5, <1>7, <1>8, <1>10, <1>15

\* One more device at the end is taken last.
LEMMA FoundOfAppend ==
  ASSUME NEW list \in Seq(AnyDevice), NEW c \in AnyDevice
  PROVE  Found(Append(list, c)) = TakeCandidate(Found(list), c)
<1>1. PICK m \in Nat : m = Len(list)
  OBVIOUS
<1>8. Append(list, c) \in Seq(AnyDevice)
  OBVIOUS
<1>2. PICK longer \in Seq(AnyDevice) : longer = Append(list, c)
  BY <1>8
<1>3. m + 1 = Len(longer) /\ longer[m + 1] = c /\ \A i \in 1 .. m : longer[i] = list[i]
  BY <1>1, <1>2
<1>4. PICK q : /\ IsRun(q, Seq(AnyDevice), CandidateStep, <<>>, list, m) /\ Found(list) = q[m]
  BY <1>1, FoundRuns
<1>5. PICK r : /\ IsRun(r, Seq(AnyDevice), CandidateStep, <<>>, longer, m + 1)
               /\ Found(longer) = r[m + 1]
  BY <1>3, FoundRuns
<1>6. r[m] = q[m]
  <2>1. Follows(r, CandidateStep, longer, m)
    <3>1. Follows(r, CandidateStep, longer, m + 1)
      BY <1>5 DEF IsRun
    <3>2. m + 1 \in Nat /\ m <= m + 1
      OBVIOUS
    <3> QED
      BY <3>1, <3>2, FollowsLess
  <2>2. Follows(q, CandidateStep, list, m) /\ q[0] = r[0]
    BY <1>4, <1>5 DEF IsRun
  <2> QED
    BY <1>3, <2>1, <2>2, RunsAgree
<1>7. r[m + 1] = TakeCandidate(r[m], longer[m + 1])
  <2>1. m < m + 1
    OBVIOUS
  <2> QED
    BY <1>3, <1>5, <2>1, RunTakes
<1> QED
  BY <1>2, <1>3, <1>4, <1>5, <1>6, <1>7

-----------------------------------------------------------------------------
(* The attendance devices: what is reported makes a list of devices.         *)

DeviceInv ==
  /\ serialPorts \in Seq(Candidates("serial"))
  /\ windowsDevices \in Seq(Candidates("windows_device"))
  /\ adapterState \in AdapterStates

LEMMA CandidatesAre ==
  ASSUME NEW transport \in {"serial", "windows_device"}, NEW list \in Seq(Candidates(transport))
  PROVE  list \in Seq(AnyDevice) /\ \A i \in 1 .. Len(list) : list[i].transport = transport
<1> DEFINE C == Candidates(transport)
<1>1. \A c \in C : c \in AnyDevice /\ c.transport = transport
  BY DEF Candidates, AnyDevice
<1> HIDE DEF C
<1>2. list \in Seq(C)
  BY DEF C
<1>3. \A i \in 1 .. Len(list) : list[i] \in C
  BY <1>2
<1>4. \A i \in 1 .. Len(list) : list[i] \in AnyDevice
  BY <1>1, <1>3
<1>5. list \in Seq(AnyDevice)
  BY <1>2, <1>4
<1> QED
  BY <1>1, <1>3, <1>5

LEMMA DeviceInitInv == DeviceInit => DeviceInv
  BY DEF DeviceInit, DeviceInv, AdapterStates

LEMMA DeviceInvStep == DeviceInv /\ [DeviceNext]_deviceVars => DeviceInv'
<1> SUFFICES ASSUME DeviceInv, [DeviceNext]_deviceVars PROVE DeviceInv'
  OBVIOUS
<1> DEFINE S == Candidates("serial")
           W == Candidates("windows_device")
<1>1. serialPorts \in Seq(S) /\ windowsDevices \in Seq(W)
  BY DEF DeviceInv
<1>2. ASSUME NEW d \in S, PlugSerial(d) PROVE DeviceInv'
  <2> HIDE DEF S, W
  <2>1. serialPorts' \in Seq(S)
    BY <1>1, <1>2 DEF PlugSerial
  <2> QED
    BY <1>1, <1>2, <2>1 DEF DeviceInv, PlugSerial, S, W
<1>3. ASSUME NEW d \in W, SeeWindowsDevice(d) PROVE DeviceInv'
  <2> HIDE DEF S, W
  <2>1. windowsDevices' \in Seq(W)
    BY <1>1, <1>3 DEF SeeWindowsDevice
  <2> QED
    BY <1>1, <1>3, <2>1 DEF DeviceInv, SeeWindowsDevice, S, W
<1>4. CASE ActivateAdapter
  <2>1. adapterState' \in AdapterStates
    BY <1>4 DEF DeviceInv, ActivateAdapter, Outcomes, AdapterStates
  <2> QED
    BY <1>4, <2>1 DEF DeviceInv, ActivateAdapter
<1>5. CASE DeactivateAdapter
  BY <1>5 DEF DeviceInv, DeactivateAdapter, AdapterStates
<1>6. CASE UNCHANGED deviceVars
  BY <1>6 DEF DeviceInv, deviceVars
<1> QED
  BY <1>2, <1>3, <1>4, <1>5, <1>6 DEF DeviceNext

\* What the candidates are, of lists as they are reported.
LEMMA ClassifyIs ==
  ASSUME NEW serial \in Seq(Candidates("serial")), NEW windows \in Seq(Candidates("windows_device"))
  PROVE  /\ Found(serial) \in Seq(AnyDevice) /\ Classify(serial, windows) \in Seq(AnyDevice)
         /\ Apart(Classify(serial, windows))
         /\ \A c \in Range(serial) \cup Range(windows) :
              c \in AnyDevice /\ Has(Classify(serial, windows), c)
         /\ AllSerial(Found(serial)) /\ \A c \in Range(serial) : Has(Found(serial), c)
         /\ Keeps(Found(serial), Classify(serial, windows))
         /\ SerialWithin(Classify(serial, windows), Len(Found(serial)))
<1>1. serial \in Seq(AnyDevice) /\ \A i \in 1 .. Len(serial) : serial[i].transport = "serial"
  BY CandidatesAre
<1>2. /\ windows \in Seq(AnyDevice)
      /\ \A i \in 1 .. Len(windows) : windows[i].transport = "windows_device"
  BY CandidatesAre
<1>3. Found(serial) \in Seq(AnyDevice) /\ \A i \in 1 .. Len(serial) : Has(Found(serial), serial[i])
  BY <1>1, FoundIsSound
<1>4. AllSerial(Found(serial))
  BY <1>1, SerialAreSerial
<1>5. /\ Keeps(Found(serial), Classify(serial, windows))
      /\ SerialWithin(Classify(serial, windows), Len(Found(serial)))
  BY <1>1, <1>2, WindowsKeep
<1>6. serial \o windows \in Seq(AnyDevice)
  BY <1>1, <1>2
<1>7. PICK list \in Seq(AnyDevice) : list = serial \o windows
  BY <1>6
<1>8. Classify(serial, windows) = Found(list)
  BY <1>7 DEF Classify, Observed, Found
<1>9. /\ Found(list) \in Seq(AnyDevice) /\ Apart(Found(list))
      /\ \A i \in 1 .. Len(list) : Has(Found(list), list[i])
  BY FoundIsSound
<1>10. ASSUME NEW c \in Range(serial)
       PROVE  c \in AnyDevice /\ Has(Found(list), c) /\ Has(Found(serial), c)
  <2>1. PICK i \in DOMAIN serial : c = serial[i]
    BY DEF Range
  <2>2. i \in 1 .. Len(serial) /\ i \in 1 .. Len(list) /\ list[i] = serial[i]
    BY <1>1, <1>2, <1>7, <2>1
  <2> QED
    BY <1>1, <1>3, <1>9, <2>1, <2>2
<1>11. ASSUME NEW c \in Range(windows) PROVE c \in AnyDevice /\ Has(Found(list), c)
  <2>1. PICK i \in DOMAIN windows : c = windows[i]
    BY DEF Range
  <2>2. PICK n \in Nat, k \in Nat : n = Len(serial) /\ k = i
    BY <1>1, <1>2, <2>1
  <2>3. k \in 1 .. Len(windows) /\ n + k \in 1 .. Len(list) /\ list[n + k] = windows[k]
    BY <1>1, <1>2, <1>7, <2>1, <2>2
  <2> QED
    BY <1>2, <1>9, <2>1, <2>2, <2>3
<1> QED
  BY <1>3, <1>4, <1>5, <1>8, <1>9, <1>10, <1>11

LEMMA DeviceInvImplies == DeviceInv => DeviceTypeOK /\ EveryDeviceOnce
<1> SUFFICES ASSUME DeviceInv PROVE DeviceTypeOK /\ EveryDeviceOnce
  OBVIOUS
<1>1. DeviceTypeOK
  <2> DEFINE S == Candidates("serial")
             W == Candidates("windows_device")
  <2>1. serialPorts \in Seq(S) /\ windowsDevices \in Seq(W)
    BY DEF DeviceInv
  <2> HIDE DEF S, W
  <2>2. PICK s \in Seq(S), w \in Seq(W) : s = serialPorts /\ w = windowsDevices
    BY <2>1
  <2>3. (\A i \in DOMAIN s : s[i] \in S) /\ (\A i \in DOMAIN w : w[i] \in W)
    OBVIOUS
  <2>4. Range(serialPorts) \subseteq S /\ Range(windowsDevices) \subseteq W
    BY <2>2, <2>3 DEF Range
  <2> QED
    BY <2>4 DEF DeviceInv, DeviceTypeOK, S, W
<1>2. PICK found : found = Classify(serialPorts, windowsDevices)
  OBVIOUS
<1>3. PICK first : first = Found(serialPorts)
  OBVIOUS
<1>4. /\ first \in Seq(AnyDevice) /\ found \in Seq(AnyDevice) /\ Apart(found)
      /\ \A c \in Range(serialPorts) \cup Range(windowsDevices) : c \in AnyDevice /\ Has(found, c)
      /\ AllSerial(first) /\ (\A c \in Range(serialPorts) : Has(first, c))
      /\ Keeps(first, found)
  BY <1>2, <1>3, ClassifyIs DEF DeviceInv
<1>5. /\ DOMAIN found = 1 .. Len(found) /\ Len(first) \in Nat /\ Len(found) \in Nat
      /\ \A i \in 1 .. Len(found) : found[i] \in AnyDevice
      /\ \A i \in 1 .. Len(first) : first[i] \in AnyDevice
  BY <1>4
<1>6. ASSUME NEW c \in Range(serialPorts) \cup Range(windowsDevices)
      PROVE  \E k \in DOMAIN found : /\ SameDevice(found[k], c)
                                     /\ \A i \in DOMAIN found : SameDevice(found[i], c) => i = k
  <2>1. c \in AnyDevice
    BY <1>4
  <2>2. PICK k \in 1 .. Len(found) : SameDevice(found[k], c)
    BY <1>4 DEF Has
  <2>3. ASSUME NEW i \in 1 .. Len(found), SameDevice(found[i], c) PROVE i = k
    <3>1. SameDevice(c, found[k])
      BY <1>5, <2>1, <2>2, SameIs
    <3>2. SameDevice(found[i], found[k])
      BY <1>5, <2>1, <2>3, <3>1, SameIs
    <3> QED
      BY <1>4, <3>2 DEF Apart
  <2> QED
    BY <1>5, <2>2, <2>3
<1>7. ASSUME NEW c \in Range(serialPorts)
      PROVE  \E k \in DOMAIN found : SameDevice(found[k], c) /\ found[k].transport = "serial"
  <2>1. PICK k \in 1 .. Len(first) : SameDevice(first[k], c)
    BY <1>4 DEF Has
  <2>2. first[k].transport = "serial"
    BY <1>4 DEF AllSerial
  <2>3. found[k] = first[k] /\ k \in 1 .. Len(found)
    BY <1>4, <1>5, <2>2 DEF Keeps
  <2> QED
    BY <1>5, <2>1, <2>2, <2>3
<1>8. EveryDeviceOnce
  BY <1>2, <1>6, <1>7 DEF EveryDeviceOnce
<1> QED
  BY <1>1, <1>8

\* A port found stays, whichever mechanism reports one more device.
LEMMA PortsStep == DeviceInv /\ [DeviceNext]_deviceVars => PortsAreKept
<1> SUFFICES ASSUME DeviceInv, [DeviceNext]_deviceVars PROVE PortsAreKept
  OBVIOUS
<1>1. DeviceInv'
  BY DeviceInvStep
<1>2. PICK before, after : /\ before = Classify(serialPorts, windowsDevices)
                           /\ after = Classify(serialPorts', windowsDevices')
  OBVIOUS
<1>3. PICK first, next : first = Found(serialPorts) /\ next = Found(serialPorts')
  OBVIOUS
<1>4. /\ before \in Seq(AnyDevice) /\ first \in Seq(AnyDevice)
      /\ AllSerial(first) /\ Keeps(first, before) /\ SerialWithin(before, Len(first))
  BY <1>2, <1>3, ClassifyIs DEF DeviceInv
<1>5. after \in Seq(AnyDevice) /\ next \in Seq(AnyDevice) /\ Keeps(next, after)
  BY <1>1, <1>2, <1>3, ClassifyIs DEF DeviceInv
<1>6. Keeps(first, next)
  <2>1. ASSUME NEW d \in Candidates("serial"), PlugSerial(d) PROVE Keeps(first, next)
    <3>1. serialPorts \in Seq(AnyDevice) /\ d \in AnyDevice
      BY CandidatesAre DEF DeviceInv, Candidates, AnyDevice
    <3>2. next = TakeCandidate(first, d)
      BY <1>3, <2>1, <3>1, FoundOfAppend DEF PlugSerial
    <3> QED
      BY <1>4, <3>1, <3>2, TakeIs DEF Takes
  <2>2. ASSUME serialPorts' = serialPorts PROVE Keeps(first, next)
    BY <1>3, <1>4, <2>2, KeepsIs
  <2> QED
    BY <2>1, <2>2 DEF DeviceNext, deviceVars, SeeWindowsDevice, ActivateAdapter, DeactivateAdapter
<1>7. Keeps(first, after)
  BY <1>4, <1>5, <1>6, KeepsIs
<1>8. ASSUME NEW k \in DOMAIN before, before[k].transport = "serial"
      PROVE  before[k] \in Range(after)
  <2>1. k \in 1 .. Len(before) /\ k <= Len(first) /\ k \in 1 .. Len(first)
    BY <1>4, <1>8 DEF SerialWithin
  <2>2. first[k].transport = "serial"
    BY <1>4, <2>1 DEF AllSerial
  <2>3. before[k] = first[k]
    BY <1>4, <2>1, <2>2 DEF Keeps
  <2>4. after[k] = first[k] /\ k \in DOMAIN after
    BY <1>4, <1>5, <1>7, <2>1, <2>2 DEF Keeps
  <2> QED
    BY <2>3, <2>4 DEF Range
<1> QED
  BY <1>2, <1>8 DEF PortsAreKept
=============================================================================
