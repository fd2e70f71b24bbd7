------------------------- MODULE TrialSubscription -------------------------
(***************************************************************************)
(* The trial and subscription of a deployment                              *)
(* (yoma/office/licensing/trial_subscription.py), the file that keeps it   *)
(* (trial_persistence.py), the control server that opens it at every start *)
(* (control_server/windows_service/runtime.py 71-81), and the license      *)
(* derived from it (license_model.py, license_validation.py).              *)
(*                                                                         *)
(* Time is counted in days.  The manager is used by one thread: an         *)
(* operation and its save are one step, after which memory and file differ *)
(* only when the save raised.  The clock of the machine may be set back,   *)
(* and the process may end between any two operations.                     *)
(***************************************************************************)
EXTENDS Integers, FiniteSets

CONSTANTS
  Deployments,   \* organization and deployment ids the server is set up with
  TrialDays,     \* TrialSubscriptionManager.TRIAL_DAYS
  Durations,     \* days an activation or a renewal is for
  MaxTime,       \* bound: days on the clock
  Horizon,       \* bound: the latest day a subscription is paid to
  MaxFaults,     \* bound: saves that raise
  NoSub          \* None

ASSUME TrialAssumption ==
  /\ TrialDays \in Nat \ {0}
  /\ Durations \subseteq Nat \ {0}
  /\ MaxTime \in Nat /\ Horizon \in Nat /\ MaxFaults \in Nat
  /\ NoSub \notin Deployments

VARIABLES
  clock,      \* datetime.now()
  manager,    \* the deployment of the running manager, NoSub when none runs
  sub,        \* self.subscription
  file,       \* what load() would return: NoSub when absent or unreadable
  granted,    \* history: trials granted on this file; 2 is "more than one"
  unpaid,     \* history: an end or a suspension was stored in it, nothing paid since
  due,        \* history: the day paid for since the trial was granted, 0 before
  faults      \* history: saves that raised, for the bound

history == <<granted, unpaid, due>>
subVars == <<clock, manager, sub, file, history, faults>>

States == {"trial", "active", "expired", "suspended"}

Subscription(d, start, days, state) ==
  [dep |-> d, start |-> start, end |-> start + days, state |-> state]

Subscriptions ==
  {s \in [dep : Deployments, start : Nat, end : Nat, state : States] : s.start <= s.end}

ASSUME NoSubAssumption == NoSub \notin Subscriptions

TrialInit ==
  /\ clock \in 0 .. MaxTime
  /\ manager = NoSub /\ sub = NoSub /\ file = NoSub
  /\ granted = 0 /\ unpaid = FALSE /\ due = 0
  /\ faults = 0

Running == manager # NoSub

Saved(s) == s

\* _persist(): the file is replaced as a whole, or the save raises.
Persist(s) == file' = Saved(s) /\ UNCHANGED faults
PersistFails == faults < MaxFaults /\ faults' = faults + 1 /\ UNCHANGED file

-----------------------------------------------------------------------------

CanRun(s) == s.state \in {"trial", "active"}

Ends(s, t) == t >= s.end

RefreshedByClock(s, t) ==
  IF ~ Ends(s, t) /\ s.state = "expired" THEN [s EXCEPT !.state = "trial"]
  ELSE IF s.state = "trial" /\ Ends(s, t) THEN [s EXCEPT !.state = "expired"] ELSE s

\* refresh(): only a trial expires.
Refreshed(s, t) ==
  IF s.state = "trial" /\ Ends(s, t) THEN [s EXCEPT !.state = "expired"] ELSE s

Restored(d) == IF file # NoSub /\ file.dep = d THEN file ELSE NoSub

Opened(d) ==
  IF Restored(d) = NoSub THEN Subscription(d, clock, TrialDays, "trial")
  ELSE Refreshed(Restored(d), clock)

\* Trials granted when d opens: a file another deployment left is replaced.
Granted(d) ==
  IF Restored(d) # NoSub THEN granted
  ELSE IF file # NoSub \/ granted = 0 THEN 1 ELSE 2

\* The server starts: what was stored is restored, or a trial is granted.
\* A save that raises ends the constructor and the process.
Open(d) ==
  /\ ~ Running
  /\ \/ /\ manager' = d /\ sub' = Opened(d)
        /\ \/ Opened(d) # Restored(d) /\ Persist(Opened(d))
           \/ Opened(d) = Restored(d) /\ UNCHANGED <<file, faults>>
        /\ granted' = Granted(d)
        /\ due' = IF Restored(d) = NoSub THEN 0 ELSE due
        /\ unpaid' = (Restored(d) # NoSub /\ (unpaid \/ Opened(d).state = "expired"))
     \/ /\ Opened(d) # Restored(d) /\ PersistFails
        /\ UNCHANGED <<manager, sub, granted, due, unpaid>>
  /\ UNCHANGED clock

\* can_run_yoma(), notification(), status() and to_yoma_license()
Refresh ==
  /\ Running
  /\ Refreshed(sub, clock) # sub
  /\ sub' = Refreshed(sub, clock)
  /\ \/ Persist(sub') /\ unpaid' = TRUE
     \/ PersistFails /\ UNCHANGED unpaid
  /\ UNCHANGED <<clock, manager, granted, due>>

Later(a, b) == IF a < b THEN b ELSE a

Activate(n) ==
  /\ Running /\ clock + n <= Horizon
  /\ sub' = Subscription(manager, clock, n, "active")
  /\ Persist(sub') \/ PersistFails
  /\ due' = clock + n /\ unpaid' = FALSE
  /\ UNCHANGED <<clock, manager, granted>>

FromToday(s) == clock
RenewalStart(s) == Later(clock, s.end)

\* A renewal of a trial or of a suspended subscription makes it active too.
Renew(n) ==
  /\ Running /\ RenewalStart(sub) + n <= Horizon
  /\ sub' = Subscription(manager, RenewalStart(sub), n, "active")
  /\ Persist(sub') \/ PersistFails
  /\ due' = (IF due = 0 THEN clock ELSE due) + n /\ unpaid' = FALSE
  /\ UNCHANGED <<clock, manager, granted>>

Suspend ==
  /\ Running
  /\ sub' = [sub EXCEPT !.state = "suspended"]
  /\ \/ Persist(sub') /\ unpaid' = TRUE
     \/ PersistFails /\ UNCHANGED unpaid
  /\ UNCHANGED <<clock, manager, granted, due>>

\* The process stops or crashes.
Close ==
  /\ Running
  /\ manager' = NoSub /\ sub' = NoSub
  /\ UNCHANGED <<clock, file, history, faults>>

\* Time passes, or the clock of the machine is set back.
ClockMoves ==
  /\ \E t \in 0 .. MaxTime : t <= clock + 1 /\ t # clock /\ clock' = t
  /\ UNCHANGED <<manager, sub, file, history, faults>>

\* The file is removed or damaged while the process is down; load() answers
\* None for both.
FileLost ==
  /\ ~ Running /\ file # NoSub
  /\ file' = NoSub /\ granted' = 0
  /\ unpaid' = FALSE
  /\ UNCHANGED <<clock, manager, sub, due, faults>>

TrialNext ==
  \/ \E d \in Deployments : Open(d)
  \/ Refresh \/ Suspend \/ Close \/ ClockMoves \/ FileLost
  \/ \E n \in Durations : Activate(n) \/ Renew(n)

TrialSpec == TrialInit /\ [][TrialNext]_subVars

-----------------------------------------------------------------------------
(* The license derived from a subscription *)

\* to_yoma_license() and LicenseValidator.validate()
LicenseStatus(s) == IF s.state \in {"expired", "suspended"} THEN s.state ELSE "active"
LicenseValid(s, t) == LicenseStatus(s) = "active" /\ ~ t >= s.end

-----------------------------------------------------------------------------
(* Properties *)

\* Types; the manager keeps a subscription of its own deployment only.
TrialTypeOK ==
  /\ clock \in 0 .. MaxTime
  /\ manager \in Deployments \cup {NoSub}
  /\ file \in Subscriptions \cup {NoSub}
  /\ IF Running THEN sub \in Subscriptions /\ sub.dep = manager ELSE sub = NoSub
  /\ granted \in 0 .. 2 /\ due \in Nat /\ faults \in 0 .. MaxFaults
  /\ unpaid \in BOOLEAN

\* A file that stays readable, and is not taken over by another deployment, is
\* granted one trial: no restart, failed save or clock setting grants another
\* (trial_subscription.py 100-108, 141-142).
OneTrial == granted <= 1

\* Once the end of a trial or a suspension is stored in such a file, YOMA does
\* not run again before a payment, over restarts, failed saves and a clock set
\* back.
EndHolds == unpaid /\ Running => ~ CanRun(sub)

\* Renewals add up to what was paid before, over restarts, suspensions and a
\* clock set back, as long as saves succeed.
PaidTimeKept == faults = 0 /\ Running => sub.end >= due

\* A stored end is what the next start restores.
EndKept == unpaid => file # NoSub /\ ~ CanRun(file) /\ (Running => ~ CanRun(sub))

\* The inductive invariant behind the three: the file follows every grant,
\* every stored end and, while no save raises, every operation.
TrialInv ==
  /\ TrialTypeOK
  /\ OneTrial
  /\ file = NoSub => granted = 0 /\ ~ Running
  /\ EndKept
  /\ faults = 0 /\ file # NoSub => file.end >= due
  /\ faults = 0 /\ Running => sub = file

\* For a trial, expired or suspended, the answer of can_run_yoma() and the
\* validity of the license derived from it are the same at every moment.
LicenseAgrees ==
  Running /\ sub.state # "active" =>
    LET s == Refreshed(sub, clock) IN CanRun(s) <=> LicenseValid(s, clock)

\* A trial is granted once and its end holds, over restarts, failed saves and a clock set back,
\* and whether YOMA may run is the same answer wherever it is asked for.
TrialSafe == TrialTypeOK /\ OneTrial /\ EndHolds /\ LicenseAgrees

=============================================================================
