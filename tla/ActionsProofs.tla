---------------------------- MODULE ActionsProofs ----------------------------
(***************************************************************************)
(* Theorems about the way from a decision to its execution, for any plans, *)
(* requests, reviewers, limits and times.                                  *)
(***************************************************************************)
EXTENDS MCActions, FiniteSetTheorems, SequenceTheorems, NaturalsInduction,
        WellFoundedInduction, TLAPS

-----------------------------------------------------------------------------
(* Induction over the natural numbers, and greatest elements.                *)

\* The numbers, each below the greater ones.
Below == {ss \in Nat \X Nat : ss[1] < ss[2]}

\* A set of natural numbers that has 0 and the successor of each of its members has them all.
LEMMA Induction ==
  ASSUME NEW S \in SUBSET Nat, 0 \in S, \A n \in S : n + 1 \in S
  PROVE  S = Nat
<1> SUFFICES ASSUME Nat \ S # {} PROVE FALSE
  OBVIOUS
<1>1. IsWellFoundedOn(Below, Nat)
  BY NatLessThanWellFounded DEF OpToRel, Below
<1>2. Nat \ S \subseteq Nat
  OBVIOUS
<1>3. \E x \in Nat \ S : \A y \in Nat \ S : ~ (<<y, x>> \in Below)
  BY <1>1, WFMin, <1>2
<1>4. PICK x \in Nat \ S : \A y \in Nat \ S : ~ (y < x)
  BY <1>3 DEF Below
<1>5. x # 0 /\ x - 1 \in Nat /\ x - 1 < x
  BY <1>4
<1>6. x - 1 \in S
  BY <1>4, <1>5
<1> QED
  BY <1>5, <1>6

\* The greatest of the numbers up to n in a set.
LEMMA MaxOfUpTo ==
  ASSUME NEW n \in Nat, NEW t \in SUBSET (0 .. n), t # {}
  PROVE  Max(t) \in t /\ \A y \in t : y <= Max(t)
<1> DEFINE A == {k \in Nat : \E m \in t : k = n - m}
<1>1. A # {} /\ A \subseteq Nat
  <2>1. PICK m \in t : TRUE
    OBVIOUS
  <2>2. n - m \in Nat
    BY <2>1
  <2> QED
    BY <2>2
<1>2. IsWellFoundedOn(Below, Nat)
  BY NatLessThanWellFounded DEF OpToRel, Below
<1>3. \E x \in A : \A y \in A : ~ (<<y, x>> \in Below)
  BY <1>1, <1>2, WFMin
<1>4. PICK x \in A : \A y \in A : ~ (y < x)
  BY <1>3 DEF Below
<1>5. PICK m \in t : x = n - m
  BY <1>4
<1>6. ASSUME NEW y \in t PROVE y <= m
  <2>1. n - y \in A
    <3>1. n - y \in Nat
      OBVIOUS
    <3> QED
      BY <3>1
  <2>2. ~ (n - y < n - m)
    BY <2>1, <1>4, <1>5
  <2> QED
    BY <2>2
<1>7. \E y \in t : \A z \in t : y >= z
  BY <1>5, <1>6
<1>8. Max(t) \in t /\ \A z \in t : Max(t) >= z
  BY <1>7 DEF Max
<1> QED
  BY <1>8

-----------------------------------------------------------------------------
(* The gateway, its audit and what is concluded from it.                     *)

\* What is known of one plan: its executor runs while its record says so, the one end its record
\* tells is the only one anybody can hold, what was tried in the audit was held, what is in the
\* trace was tried, and what was observed was held.
ExecutionInv(p) ==
  /\ record[p] = "none" => ran[p] = 0
  /\ ran[p] <= 1 /\ frames[p] <= 1
  /\ frames[p] > 0 => record[p] = "running"
  /\ \A r \in held[p] \cap Ended : record[p] = r
  /\ tried[p] \subseteq held[p]
  /\ trace[p] = "none" => tried[p] = {}
  /\ trace[p] # "none" => trace[p] \in tried[p]
  /\ observation[p] # NoObservation => observation[p].status \in held[p]
  /\ recon[p] # "none" => observation[p] # NoObservation

\* What a verdict says of the observation it is about.
VerdictInv(p) ==
  recon[p] # "none" =>
    /\ recon[p] = "failed" <=> observation[p].status = "failed"
    /\ observation[p].status = "blocked" => recon[p] = "unexpected"
    /\ recon[p] \in {"achieved", "partially_achieved"} => observation[p].status = "succeeded"
    /\ recon[p] = "partially_achieved" => observation[p].events > 0

ExecInv ==
  /\ ExecTypeOK /\ unlawful = {}
  /\ \A p \in ExecPlans : ExecutionInv(p) /\ VerdictInv(p)

\* Every verdict is about a status, and needs events when it says that some of them came.
LEMMA StatusIsVerdict ==
  ASSUME NEW o \in Observation, NEW e \in Nat, NEW s, EventCounts \subseteq Nat
  PROVE  /\ Status(o, e, s) \in Verdict
         /\ Status(o, e, s) = "failed" <=> o.status = "failed"
         /\ o.status = "blocked" => Status(o, e, s) = "unexpected"
         /\ Status(o, e, s) \in {"achieved", "partially_achieved"} => o.status = "succeeded"
         /\ Status(o, e, s) = "partially_achieved" => o.events > 0
<1>1. o.status \in {"succeeded", "failed", "blocked"} /\ o.events \in Nat
  BY DEF Observation, PolicyResult, Ended
<1> QED
  BY <1>1 DEF Status, Success, Verdict

\* The executor is started, returns or is interrupted.
LEMMA GatewayStep ==
  ASSUME ExecInv, ExecuteStart \/ ExecuteEnd \/ ExecuteInterrupted PROVE ExecInv'
<1>1. CASE ExecuteStart
  <2>1. PICK p \in ExecPlans :
          /\ ~Blocked(p) /\ workflow[p] = "approved" /\ record[p] = "none"
          /\ record' = [record EXCEPT ![p] = "running"]
          /\ frames' = [frames EXCEPT ![p] = @ + 1] /\ ran' = [ran EXCEPT ![p] = @ + 1]
          /\ frames[p] < 2
    BY <1>1 DEF ExecuteStart, Started
  <2>2. UNCHANGED <<workflow, banned, available, unlawful, held, tried, trace, observation, recon>>
    BY <1>1 DEF ExecuteStart, Blocked
  <2>3. ran[p] = 0 /\ frames[p] = 0
    BY <2>1 DEF ExecInv, ExecutionInv, ExecTypeOK
  <2>4. ExecTypeOK'
    BY <2>1, <2>2, <2>3 DEF ExecInv, ExecTypeOK
  <2>5. ASSUME NEW q \in ExecPlans PROVE ExecutionInv(q)' /\ VerdictInv(q)'
    BY <2>1, <2>2, <2>3 DEF ExecInv, ExecTypeOK, ExecutionInv, VerdictInv, Ended
  <2> QED
    BY <2>2, <2>4, <2>5 DEF ExecInv
<1>2. CASE ExecuteEnd
  <2>1. PICK p \in ExecPlans, status \in Ended :
          /\ frames[p] > 0 /\ frames' = [frames EXCEPT ![p] = @ - 1]
          /\ record' = [record EXCEPT ![p] = status]
          /\ held' = [held EXCEPT ![p] = @ \cup {status}]
    BY <1>2 DEF ExecuteEnd, Reported
  <2>2. UNCHANGED <<workflow, banned, available, ran, unlawful, tried, trace, observation, recon>>
    BY <1>2 DEF ExecuteEnd
  <2>3. ExecTypeOK'
    BY <2>1, <2>2 DEF ExecInv, ExecTypeOK, PolicyResult
  <2>4. ASSUME NEW q \in ExecPlans PROVE ExecutionInv(q)' /\ VerdictInv(q)'
    <3>1. CASE q = p
      <4>1. held'[q] = held[q] \cup {status} /\ record'[q] = status /\ frames'[q] = frames[q] - 1
        BY <2>1, <3>1 DEF ExecInv, ExecTypeOK
      <4>2. record[q] = "running" /\ held[q] \cap Ended = {} /\ frames[q] \in 0 .. 2
        BY <2>1, <3>1 DEF ExecInv, ExecTypeOK, ExecutionInv, Ended
      <4> QED
        BY <2>2, <4>1, <4>2 DEF ExecInv, ExecutionInv, VerdictInv, Ended
    <3>2. CASE q # p
      BY <2>1, <2>2, <3>2 DEF ExecInv, ExecTypeOK, ExecutionInv, VerdictInv
    <3> QED
      BY <3>1, <3>2
  <2> QED
    BY <2>2, <2>3, <2>4 DEF ExecInv
<1>3. CASE ExecuteInterrupted
  BY <1>3 DEF ExecuteInterrupted, ExecInv, ExecTypeOK, ExecutionInv, VerdictInv
<1> QED
  BY <1>1, <1>2, <1>3

\* What happens around the gateway, and in the audit.
LEMMA AuditStep ==
  ASSUME ExecInv, DecideWorkflow \/ Reconfigure \/ Register \/ ExecuteBlocked \/ Audit
  PROVE  ExecInv'
<1>1. CASE DecideWorkflow \/ Reconfigure \/ Register
  <2>1. UNCHANGED <<record, frames, ran, unlawful, held, tried, trace, observation, recon>>
    BY <1>1 DEF DecideWorkflow, Reconfigure, Register
  <2>2. /\ workflow' \in [ExecPlans -> {"pending", "approved", "rejected"}]
        /\ banned' \subseteq ExecPlans /\ available' \in BOOLEAN
    <3>1. CASE DecideWorkflow
      BY <3>1 DEF DecideWorkflow, ExecInv, ExecTypeOK
    <3>2. CASE Reconfigure
      BY <3>2 DEF Reconfigure, ExecInv, ExecTypeOK
    <3>3. CASE Register
      BY <3>3 DEF Register, ExecInv, ExecTypeOK
    <3> QED
      BY <1>1, <3>1, <3>2, <3>3
  <2>3. ExecTypeOK'
    BY <2>1, <2>2 DEF ExecInv, ExecTypeOK
  <2> QED
    BY <2>1, <2>3 DEF ExecInv, ExecutionInv, VerdictInv
<1>2. CASE ExecuteBlocked
  <2>1. PICK p \in ExecPlans : held' = [held EXCEPT ![p] = @ \cup {"blocked"}]
    BY <1>2 DEF ExecuteBlocked
  <2>2. UNCHANGED <<workflow, banned, available, record, frames, ran, unlawful, tried, trace,
                    observation, recon>>
    BY <1>2 DEF ExecuteBlocked
  <2>3. ExecTypeOK'
    BY <2>1, <2>2 DEF ExecInv, ExecTypeOK, PolicyResult
  <2>4. ASSUME NEW q \in ExecPlans PROVE held[q] \subseteq held'[q] /\ held'[q] \cap Ended \subseteq held[q]
    BY <2>1 DEF ExecInv, ExecTypeOK, Ended
  <2> QED
    BY <2>2, <2>3, <2>4 DEF ExecInv, ExecutionInv, VerdictInv
<1>3. CASE Audit
  <2>1. PICK p \in ExecPlans, r \in PolicyResult :
          /\ r \in held[p]
          /\ trace' = [trace EXCEPT ![p] = IF trace[p] = "none" THEN r ELSE trace[p]]
          /\ tried' = [tried EXCEPT ![p] = @ \cup {r}]
    BY <1>3 DEF Audit, Traced, ExecInv, ExecTypeOK
  <2>2. UNCHANGED <<gateVars, held, observation, recon>>
    BY <1>3 DEF Audit
  <2>3. r # "none"
    BY DEF PolicyResult, Ended
  <2>4. ExecTypeOK'
    BY <2>1, <2>2, <2>3 DEF ExecInv, ExecTypeOK, gateVars
  <2>5. ASSUME NEW q \in ExecPlans PROVE ExecutionInv(q)' /\ VerdictInv(q)'
    BY <2>1, <2>2, <2>3 DEF ExecInv, ExecTypeOK, ExecutionInv, VerdictInv, gateVars
  <2> QED
    BY <2>2, <2>4, <2>5 DEF ExecInv, gateVars
<1> QED
  BY <1>1, <1>2, <1>3

\* What was done is observed, and compared with what was expected.
LEMMA AnalysisStep ==
  ASSUME ExecInv, AnalyzeExecution \/ AnalyzeObservation PROVE ExecInv'
<1> USE ExecutionAssumption
<1>1. CASE AnalyzeExecution
  <2>1. PICK p \in ExecPlans, r \in PolicyResult, n \in EventCounts, e \in Expected,
             s \in {"expected", "unexpected", "any"} :
          /\ r \in held[p] /\ MayObserve(p)
          /\ observation' = [observation EXCEPT ![p] = [status |-> r, events |-> n]]
          /\ IF e < 0 THEN UNCHANGED recon
             ELSE recon' = [recon EXCEPT ![p] = Status([status |-> r, events |-> n], e, s)]
    <3>1. \A p \in ExecPlans : held[p] \subseteq PolicyResult
      BY DEF ExecInv, ExecTypeOK
    <3>2. PICK p \in ExecPlans, r \in PolicyResult, n \in EventCounts, e \in Expected,
               s \in {"expected", "unexpected", "any"} :
            r \in held[p] /\ ObserveAndReconcile(p, [status |-> r, events |-> n], e, s)
      BY <1>1, <3>1 DEF AnalyzeExecution
    <3> QED
      BY <3>2 DEF ObserveAndReconcile
  <2> DEFINE o == [status |-> r, events |-> n]
             v == recon'[p]
  <2>2. UNCHANGED <<gateVars, held, tried, trace>>
    BY <1>1 DEF AnalyzeExecution, ObserveAndReconcile
  <2>3. /\ o \in Observation /\ o # NoObservation /\ observation[p] = NoObservation /\ recon[p] = "none"
        /\ o.status = r /\ o.events = n
    BY <2>1 DEF ExecInv, ExecTypeOK, ExecutionInv, Observation, NoObservation, PolicyResult, Ended,
                MayObserve
  <2>4. /\ recon' = [recon EXCEPT ![p] = v]
        /\ v # "none" => /\ v \in Verdict /\ (v = "failed" <=> r = "failed")
                         /\ r = "blocked" => v = "unexpected"
                         /\ v \in {"achieved", "partially_achieved"} => r = "succeeded"
                         /\ v = "partially_achieved" => n > 0
    <3>1. CASE e < 0
      BY <2>1, <2>3, <3>1 DEF ExecInv, ExecTypeOK
    <3>2. CASE ~ (e < 0)
      <4>1. e \in Nat
        BY <3>2
      <4>2. v = Status(o, e, s) /\ recon' = [recon EXCEPT ![p] = v]
        BY <2>1, <3>2 DEF ExecInv, ExecTypeOK
      <4> HIDE DEF o, v
      <4> QED
        BY <4>1, <4>2, <2>3, StatusIsVerdict
    <3> QED
      BY <3>1, <3>2
  <2> HIDE DEF v
  <2>5. ExecTypeOK'
    BY <2>1, <2>2, <2>3, <2>4 DEF ExecInv, ExecTypeOK, gateVars
  <2>6. ASSUME NEW q \in ExecPlans PROVE ExecutionInv(q)' /\ VerdictInv(q)'
    BY <2>1, <2>2, <2>3, <2>4 DEF ExecInv, ExecTypeOK, ExecutionInv, VerdictInv, gateVars
  <2> QED
    BY <2>2, <2>5, <2>6 DEF ExecInv, gateVars
<1>2. CASE AnalyzeObservation
  <2>1. PICK p \in ExecPlans, e \in Expected \cap Nat, s \in {"expected", "unexpected", "any"} :
          /\ observation[p] # NoObservation
          /\ recon' = [recon EXCEPT ![p] = Status(observation[p], e, s)]
    BY <1>2 DEF AnalyzeObservation
  <2> DEFINE v == Status(observation[p], e, s)
  <2>2. UNCHANGED <<gateVars, held, tried, trace, observation>>
    BY <1>2 DEF AnalyzeObservation
  <2>3. observation[p] \in Observation
    BY <2>1 DEF ExecInv, ExecTypeOK
  <2>4. /\ v \in Verdict /\ (v = "failed" <=> observation[p].status = "failed")
        /\ observation[p].status = "blocked" => v = "unexpected"
        /\ v \in {"achieved", "partially_achieved"} => observation[p].status = "succeeded"
        /\ v = "partially_achieved" => observation[p].events > 0
    BY <2>3, StatusIsVerdict
  <2> HIDE DEF v
  <2>5. recon' = [recon EXCEPT ![p] = v]
    BY <2>1 DEF v
  <2>6. ExecTypeOK'
    BY <2>5, <2>2, <2>4 DEF ExecInv, ExecTypeOK, gateVars
  <2>7. ASSUME NEW q \in ExecPlans PROVE ExecutionInv(q)' /\ VerdictInv(q)'
    BY <2>1, <2>2, <2>4, <2>5 DEF ExecInv, ExecTypeOK, ExecutionInv, VerdictInv, gateVars
  <2> QED
    BY <2>2, <2>6, <2>7 DEF ExecInv, gateVars
<1> QED
  BY <1>1, <1>2

LEMMA ExecInvStep == ExecInv /\ [ExecNext]_execVars => ExecInv'
<1>1. ASSUME ExecInv, UNCHANGED execVars PROVE ExecInv'
  BY <1>1 DEF execVars, ExecInv, ExecTypeOK, ExecutionInv, VerdictInv
<1> QED
  BY <1>1, GatewayStep, AuditStep, AnalysisStep DEF ExecNext

LEMMA ExecInitInv == ExecInit => ExecInv
  BY DEF ExecInit, ExecInv, ExecTypeOK, ExecutionInv, VerdictInv, Ended, PolicyResult

LEMMA ExecInvImplies ==
  ExecInv => RunsOnce /\ RunsAreLawful /\ TracesAreTrue /\ AchievedIsReal /\ OneVerdict
<1> SUFFICES ASSUME ExecInv
             PROVE  RunsOnce /\ RunsAreLawful /\ TracesAreTrue /\ AchievedIsReal /\ OneVerdict
  OBVIOUS
<1>1. RunsOnce /\ RunsAreLawful
  BY DEF ExecInv, ExecutionInv, RunsOnce, RunsAreLawful
<1>2. TracesAreTrue
  BY DEF ExecInv, ExecTypeOK, ExecutionInv, TracesAreTrue, Ended, PolicyResult
<1>3. AchievedIsReal
  BY DEF ExecInv, ExecutionInv, VerdictInv, AchievedIsReal, Ended
<1>4. OneVerdict
  BY DEF ExecInv, ExecTypeOK, ExecutionInv, VerdictInv, OneVerdict, LoopStatus, Success,
         Observation, PolicyResult, Ended
<1> QED
  BY <1>1, <1>2, <1>3, <1>4

-----------------------------------------------------------------------------
(* Governed actions and their audit.                                         *)

CountOf(a, status) == Cardinality({i \in DOMAIN a : a[i] = status})

\* One more record is one more of its status.
LEMMA CountOfAppend ==
  ASSUME NEW S, NEW a \in Seq(S), NEW x \in S, NEW status
  PROVE  /\ CountOf(a, status) \in Nat
         /\ CountOf(Append(a, x), status) = CountOf(a, status) + (IF x = status THEN 1 ELSE 0)
<1> DEFINE n == Len(a)
           A == {i \in DOMAIN a : a[i] = status}
           B == {i \in DOMAIN Append(a, x) : Append(a, x)[i] = status}
<1>1. n \in Nat /\ A \subseteq 1 .. n
  OBVIOUS
<1>2. IsFiniteSet(A) /\ Cardinality(A) \in Nat
  <2> HIDE DEF A
  <2>1. IsFiniteSet(1 .. n)
    BY <1>1, FS_Interval
  <2> QED
    BY <1>1, <2>1, FS_Subset, FS_CardinalityType
<1>3. n + 1 \notin A
  BY <1>1
<1>4. B = IF x = status THEN A \cup {n + 1} ELSE A
  <2>1. DOMAIN Append(a, x) = 1 .. n + 1 /\ DOMAIN a = 1 .. n
    BY <1>1
  <2>2. Append(a, x)[n + 1] = x /\ \A i \in 1 .. n : Append(a, x)[i] = a[i]
    BY <1>1
  <2> QED
    BY <1>1, <2>1, <2>2
<1> HIDE DEF A, B
<1>5. Cardinality(A \cup {n + 1}) = Cardinality(A) + 1
  BY <1>2, <1>3, FS_AddElement
<1>6. CountOf(a, status) = Cardinality(A) /\ CountOf(Append(a, x), status) = Cardinality(B)
  BY DEF CountOf, A, B
<1> QED
  BY <1>2, <1>4, <1>5, <1>6

\* An authorization is the last record while its execution is under way; every execution that
\* is under way or took place has one, and every one but that and those interrupted has an end.
UnderWay == {"audited", "done", "refused", "raised"}
ActionInv(r) ==
  /\ (persistent \/ ~restarted) =>
       effects[r] + (IF phase[r] = "audited" THEN 1 ELSE 0) <= Rows(r, "authorized")
  /\ Rows(r, "executed") + (IF phase[r] = "done" THEN 1 ELSE 0) <= effects[r]
  /\ \A i \in DOMAIN audit[r] : audit[r][i] \in {"executed", "failed", "refused"} =>
       i > 1 /\ audit[r][i - 1] = "authorized"
  /\ phase[r] \in UnderWay => Len(audit[r]) > 0 /\ audit[r][Len(audit[r])] = "authorized"
  /\ persistent =>
       /\ Ends(r) + (IF phase[r] \in UnderWay THEN 1 ELSE 0) <= Rows(r, "authorized")
       /\ Rows(r, "authorized") <=
            Ends(r) + interrupted[r] + (IF phase[r] \in UnderWay THEN 1 ELSE 0)

GovInv == GovTypeOK /\ \A r \in ActionRequests : ActionInv(r)

LEMMA RowsAreCounted ==
  ASSUME GovTypeOK, NEW r \in ActionRequests, NEW x
  PROVE  Rows(r, x) = CountOf(audit[r], x) /\ Rows(r, x) \in Nat
<1>1. Rows(r, x) = CountOf(audit[r], x)
  BY DEF Rows, CountOf
<1>2. audit[r] \in Seq(AuditStatus) /\ "denied" \in AuditStatus
  BY DEF GovTypeOK, AuditStatus
<1>3. CountOf(audit[r], x) \in Nat
  BY <1>2, CountOfAppend
<1> QED
  BY <1>1, <1>3

\* What one request does leaves the records of the others.
LEMMA OtherActions ==
  ASSUME GovInv, NEW r \in ActionRequests, NEW p, NEW e, NEW a, NEW n,
         phase' = [phase EXCEPT ![r] = p], effects' = [effects EXCEPT ![r] = e],
         audit' = [audit EXCEPT ![r] = a], interrupted' = [interrupted EXCEPT ![r] = n],
         UNCHANGED <<persistent, restarted>>,
         NEW q \in ActionRequests, q # r
  PROVE  ActionInv(q)'
<1>1. /\ phase'[q] = phase[q] /\ effects'[q] = effects[q] /\ audit'[q] = audit[q]
      /\ interrupted'[q] = interrupted[q]
  BY DEF GovInv, GovTypeOK
<1>2. \A x : Rows(q, x)' = Rows(q, x)
  BY <1>1 DEF Rows
<1> QED
  BY <1>1, <1>2 DEF GovInv, ActionInv, Ends

\* A record is appended, by the request it is about.
LEMMA RecordStep ==
  ASSUME GovInv, NEW r \in ActionRequests, audit' # audit,
         AuditDenied(r) \/ AuditAuthorized(r) \/ AuditResult(r)
  PROVE  GovInv'
<1>1. PICK x \in AuditStatus, p \in Phases, n \in {interrupted[r], interrupted[r] + 1} :
        /\ audit' = [audit EXCEPT ![r] = Append(audit[r], x)] /\ phase' = [phase EXCEPT ![r] = p]
        /\ interrupted' = [interrupted EXCEPT ![r] = n]
        /\ \/ phase[r] = "denied" /\ x = "denied" /\ p = "idle"
           \/ phase[r] = "authorized" /\ x = "authorized" /\ p = "audited"
           \/ phase[r] = "authorized" /\ x = "authorized" /\ p = "idle" /\ n = interrupted[r] + 1
           \/ phase[r] = "done" /\ x = "executed" /\ p = "idle"
           \/ phase[r] = "refused" /\ x = "refused" /\ p = "idle"
           \/ phase[r] = "raised" /\ x = "failed" /\ p = "idle"
  <2>1. interrupted = [interrupted EXCEPT ![r] = interrupted[r]]
    BY DEF GovInv, GovTypeOK
  <2>2. ASSUME NEW x \in AuditStatus, NEW s \in Phases, AuditWrite(r, x, s)
        PROVE  \E n \in {interrupted[r], interrupted[r] + 1} :
                 /\ audit' = [audit EXCEPT ![r] = Append(audit[r], x)]
                 /\ interrupted' = [interrupted EXCEPT ![r] = n]
                 /\ \/ phase' = [phase EXCEPT ![r] = s]
                    \/ phase' = [phase EXCEPT ![r] = "idle"] /\ n = interrupted[r] + 1
    BY <2>1, <2>2 DEF AuditWrite, Record, GoesTo, Goto, Interrupted
  <2>3. {"denied", "authorized", "executed", "refused", "failed"} \subseteq AuditStatus
        /\ {"idle", "audited"} \subseteq Phases
    BY DEF AuditStatus, Phases
  <2>4. CASE AuditDenied(r)
    BY <2>2, <2>3, <2>4 DEF AuditDenied
  <2>5. CASE AuditAuthorized(r)
    BY <2>2, <2>3, <2>5 DEF AuditAuthorized
  <2>6. CASE AuditResult(r)
    BY <2>2, <2>3, <2>6 DEF AuditResult, AuditOfRaise
  <2> QED
    BY <2>4, <2>5, <2>6
<1>2. UNCHANGED <<persistent, restarted, permitted, supported, effects>>
  BY DEF AuditDenied, AuditAuthorized, AuditResult
<1>3. audit[r] \in Seq(AuditStatus) /\ effects[r] \in Nat /\ interrupted[r] \in Nat /\ n \in Nat
  BY <1>1 DEF GovInv, GovTypeOK
<1>4. GovTypeOK'
  BY <1>1, <1>2, <1>3 DEF GovInv, GovTypeOK
<1>5. \A y \in AuditStatus : /\ Rows(r, y) \in Nat
                             /\ Rows(r, y)' = Rows(r, y) + (IF x = y THEN 1 ELSE 0)
  <2>1. audit'[r] = Append(audit[r], x)
    BY <1>1 DEF GovInv, GovTypeOK
  <2>2. ASSUME NEW y \in AuditStatus PROVE Rows(r, y)' = CountOf(audit'[r], y)
    BY DEF Rows, CountOf
  <2>3. GovTypeOK
    BY DEF GovInv
  <2>4. ASSUME NEW y \in AuditStatus
        PROVE  CountOf(Append(audit[r], x), y) = CountOf(audit[r], y) + (IF x = y THEN 1 ELSE 0)
    BY <1>3, CountOfAppend
  <2> QED
    BY <2>1, <2>2, <2>3, <2>4, RowsAreCounted
<1>6. /\ phase'[r] = p /\ effects'[r] = effects[r] /\ audit'[r] = Append(audit[r], x)
      /\ interrupted'[r] = n
  BY <1>1, <1>2 DEF GovInv, GovTypeOK
<1>7. ActionInv(r)
  BY DEF GovInv
<1>8. /\ DOMAIN audit'[r] = 1 .. Len(audit[r]) + 1 /\ audit'[r][Len(audit[r]) + 1] = x
      /\ Len(audit'[r]) = Len(audit[r]) + 1 /\ Len(audit[r]) \in Nat
      /\ DOMAIN audit[r] = 1 .. Len(audit[r])
      /\ \A i \in 1 .. Len(audit[r]) : audit'[r][i] = audit[r][i]
  BY <1>3, <1>6
<1>9. ActionInv(r)'
  <2>1. /\ (persistent \/ ~restarted)' =>
             effects'[r] + (IF phase'[r] = "audited" THEN 1 ELSE 0) <= Rows(r, "authorized")'
        /\ Rows(r, "executed")' + (IF phase'[r] = "done" THEN 1 ELSE 0) <= effects'[r]
    BY <1>1, <1>2, <1>3, <1>5, <1>6, <1>7 DEF ActionInv, UnderWay, AuditStatus
  <2>4. persistent' =>
          /\ Ends(r)' + (IF phase'[r] \in UnderWay THEN 1 ELSE 0) <= Rows(r, "authorized")'
          /\ Rows(r, "authorized")' <=
               Ends(r)' + interrupted'[r] + (IF phase'[r] \in UnderWay THEN 1 ELSE 0)
    <3>1. Ends(r) \in Nat /\ Ends(r)' = Ends(r) + (IF x \in {"executed", "failed", "refused"} THEN 1 ELSE 0)
      BY <1>5 DEF Ends, AuditStatus
    <3>2. /\ Rows(r, "authorized") \in Nat
          /\ Rows(r, "authorized")' = Rows(r, "authorized") + (IF x = "authorized" THEN 1 ELSE 0)
      BY <1>5 DEF AuditStatus
    <3>3. persistent =>
            /\ Ends(r) + (IF phase[r] \in UnderWay THEN 1 ELSE 0) <= Rows(r, "authorized")
            /\ Rows(r, "authorized") <=
                 Ends(r) + interrupted[r] + (IF phase[r] \in UnderWay THEN 1 ELSE 0)
      BY <1>7 DEF ActionInv
    <3>4. n = interrupted[r] \/ n = interrupted[r] + 1
      BY <1>1
    <3>5. CASE x = "denied"
      BY <1>1, <1>2, <1>3, <1>6, <3>1, <3>2, <3>3, <3>4, <3>5 DEF UnderWay
    <3>6. CASE x = "authorized"
      <4>1. phase[r] \notin UnderWay
        BY <1>1, <3>6 DEF UnderWay
      <4>2. CASE p = "audited"
        <5>1. phase'[r] \in UnderWay
          BY <1>6, <4>2 DEF UnderWay
        <5> QED
          BY <1>2, <1>3, <1>6, <3>1, <3>2, <3>3, <3>4, <3>6, <4>1, <5>1
      <4>3. CASE p = "idle" /\ n = interrupted[r] + 1
        <5>1. phase'[r] \notin UnderWay
          BY <1>6, <4>3 DEF UnderWay
        <5> QED
          BY <1>2, <1>3, <1>6, <3>1, <3>2, <3>3, <3>6, <4>1, <4>3, <5>1
      <4> QED
        BY <1>1, <3>6, <4>2, <4>3
    <3>7. CASE x \in {"executed", "failed", "refused"}
      BY <1>1, <1>2, <1>3, <1>6, <3>1, <3>2, <3>3, <3>4, <3>7 DEF UnderWay
    <3> QED
      BY <1>1, <3>5, <3>6, <3>7
  <2>2. phase'[r] \in UnderWay => Len(audit'[r]) > 0 /\ audit'[r][Len(audit'[r])] = "authorized"
    BY <1>1, <1>6, <1>8 DEF UnderWay
  <2>3. ASSUME NEW i \in DOMAIN audit'[r], audit'[r][i] \in {"executed", "failed", "refused"}
        PROVE  i > 1 /\ audit'[r][i - 1] = "authorized"
    <3>1. CASE i = Len(audit[r]) + 1
      <4>1. phase[r] \in UnderWay
        BY <1>1, <1>8, <2>3, <3>1 DEF UnderWay
      <4> QED
        BY <4>1, <1>7, <1>8, <3>1 DEF ActionInv
    <3>2. CASE i # Len(audit[r]) + 1
      <4>1. i \in 1 .. Len(audit[r]) /\ audit[r][i] = audit'[r][i]
        BY <1>8, <3>2
      <4>2. i > 1 /\ audit[r][i - 1] = "authorized"
        BY <4>1, <1>7, <1>8, <2>3 DEF ActionInv
      <4> QED
        BY <4>1, <4>2, <1>8
    <3> QED
      BY <3>1, <3>2
  <2> QED
    BY <2>1, <2>2, <2>3, <2>4 DEF ActionInv
<1>10. effects' = [effects EXCEPT ![r] = effects[r]]
  BY <1>2 DEF GovInv, GovTypeOK
<1>11. ASSUME NEW q \in ActionRequests, q # r PROVE ActionInv(q)'
  <2> DEFINE a == Append(audit[r], x)
             e == effects[r]
  <2>1. audit' = [audit EXCEPT ![r] = a] /\ effects' = [effects EXCEPT ![r] = e]
    BY <1>1, <1>10
  <2> HIDE DEF a, e
  <2> QED
    BY <2>1, <1>1, <1>2, <1>11, OtherActions
<1> QED
  BY <1>4, <1>9, <1>11 DEF GovInv

\* What appends no record.
LEMMA GovernedStep ==
  ASSUME GovInv, NEW r \in ActionRequests, audit' = audit,
         Evaluate(r) \/ GatewayExecute(r) \/ AuditDenied(r) \/ AuditAuthorized(r) \/ AuditResult(r)
  PROVE  GovInv'
<1>1. PICK p \in Phases, e \in {effects[r], effects[r] + 1},
           n \in {interrupted[r], interrupted[r] + 1} :
        /\ phase' = [phase EXCEPT ![r] = p] /\ effects' = [effects EXCEPT ![r] = e]
        /\ interrupted' = [interrupted EXCEPT ![r] = n]
        /\ \/ phase[r] = "idle" /\ p \in {"authorized", "denied"} /\ e = effects[r]
           \/ phase[r] = "audited" /\ p \in {"done", "raised"} /\ e = effects[r] + 1
           \/ phase[r] = "audited" /\ p \in {"raised", "refused"} /\ e = effects[r]
           \/ phase[r] = "raised" /\ p = "idle" /\ e = effects[r] /\ ~persistent
           \/ /\ phase[r] = "audited" \/ e = effects[r]
              /\ p = "idle" /\ n = interrupted[r] + 1
  <2>1. /\ effects = [effects EXCEPT ![r] = effects[r]]
        /\ interrupted = [interrupted EXCEPT ![r] = interrupted[r]]
    BY DEF GovInv, GovTypeOK
  <2>2. CASE Evaluate(r)
    BY <2>1, <2>2 DEF Evaluate, GoesTo, Goto, Phases
  <2>3. CASE GatewayExecute(r)
    BY <2>1, <2>3 DEF GatewayExecute, GoesTo, Interrupted, Goto, Phases
  <2>4. CASE AuditDenied(r) \/ AuditAuthorized(r) \/ AuditResult(r)
    <3>1. \A x : audit # [audit EXCEPT ![r] = Append(audit[r], x)]
      <4> SUFFICES ASSUME NEW x, audit = [audit EXCEPT ![r] = Append(audit[r], x)] PROVE FALSE
        OBVIOUS
      <4>1. audit[r] = Append(audit[r], x) /\ audit[r] \in Seq(AuditStatus)
        BY DEF GovInv, GovTypeOK
      <4> QED
        BY <4>1
    <3>2. ASSUME NEW x, NEW s, AuditWrite(r, x, s) PROVE Interrupted(r)
      BY <3>1, <3>2 DEF AuditWrite, Record
    <3>3. \/ Interrupted(r)
          \/ phase[r] = "raised" /\ ~persistent /\ GoesTo(r, "idle")
      BY <2>4, <3>2 DEF AuditDenied, AuditAuthorized, AuditResult, AuditOfRaise
    <3>4. effects' = effects /\ "idle" \in Phases
      BY <2>4 DEF AuditDenied, AuditAuthorized, AuditResult, Phases
    <3> QED
      BY <2>1, <3>3, <3>4 DEF Interrupted, GoesTo, Goto
  <2> QED
    BY <2>2, <2>3, <2>4
<1>2. UNCHANGED <<persistent, restarted, permitted, supported, audit>>
  BY DEF Evaluate, GatewayExecute, AuditDenied, AuditAuthorized, AuditResult
<1>3. /\ effects[r] \in Nat /\ e \in Nat /\ interrupted[r] \in Nat /\ n \in Nat
      /\ n >= interrupted[r]
  BY <1>1 DEF GovInv, GovTypeOK
<1>4. GovTypeOK'
  BY <1>1, <1>2, <1>3 DEF GovInv, GovTypeOK
<1>5. audit' = [audit EXCEPT ![r] = audit[r]]
  BY <1>2 DEF GovInv, GovTypeOK
<1>6. ActionInv(r)'
  <2>1. /\ phase'[r] = p /\ effects'[r] = e /\ interrupted'[r] = n
        /\ \A x : Rows(r, x)' = Rows(r, x)
    BY <1>1, <1>2 DEF GovInv, GovTypeOK, Rows
  <2>2. ActionInv(r)
    BY DEF GovInv
  <2>3. (\A x : Rows(r, x) \in Nat) /\ Ends(r) \in Nat /\ Ends(r)' = Ends(r)
    BY <2>1, RowsAreCounted DEF GovInv, Ends
  <2>4. /\ (persistent \/ ~restarted)' =>
             effects'[r] + (IF phase'[r] = "audited" THEN 1 ELSE 0) <= Rows(r, "authorized")'
        /\ Rows(r, "executed")' + (IF phase'[r] = "done" THEN 1 ELSE 0) <= effects'[r]
    BY <1>1, <1>2, <1>3, <2>1, <2>2, <2>3 DEF ActionInv
  <2>5. persistent' =>
          /\ Ends(r)' + (IF phase'[r] \in UnderWay THEN 1 ELSE 0) <= Rows(r, "authorized")'
          /\ Rows(r, "authorized")' <=
               Ends(r)' + interrupted'[r] + (IF phase'[r] \in UnderWay THEN 1 ELSE 0)
    BY <1>1, <1>2, <1>3, <2>1, <2>2, <2>3 DEF ActionInv, UnderWay
  <2>6. phase'[r] \in UnderWay => Len(audit'[r]) > 0 /\ audit'[r][Len(audit'[r])] = "authorized"
    BY <1>1, <1>2, <2>1, <2>2 DEF ActionInv, UnderWay
  <2> QED
    BY <1>2, <2>2, <2>4, <2>5, <2>6 DEF ActionInv
<1>7. ASSUME NEW q \in ActionRequests, q # r PROVE ActionInv(q)'
  <2> DEFINE a == audit[r]
  <2>1. audit' = [audit EXCEPT ![r] = a]
    BY <1>5
  <2> HIDE DEF a
  <2> QED
    BY <2>1, <1>1, <1>2, <1>7, OtherActions
<1> QED
  BY <1>4, <1>6, <1>7 DEF GovInv

\* The process ends: an audit in memory is lost, a persistent one keeps what was authorized.
LEMMA RestartStep == ASSUME GovInv, GovRestart PROVE GovInv'
<1>1. /\ phase' = [r \in ActionRequests |-> "idle"] /\ supported' = FALSE /\ restarted' = TRUE
      /\ UNCHANGED <<persistent, permitted, effects>>
      /\ interrupted' = [r \in ActionRequests |->
           IF phase[r] = "idle" THEN interrupted[r] ELSE interrupted[r] + 1]
      /\ audit' = audit \/ (~persistent /\ audit' = [r \in ActionRequests |-> <<>>])
  BY DEF GovRestart
<1>2. GovTypeOK'
  <2>1. audit' \in [ActionRequests -> Seq(AuditStatus)]
    <3>1. <<>> \in Seq(AuditStatus)
      OBVIOUS
    <3> QED
      BY <1>1, <3>1 DEF GovInv, GovTypeOK
  <2>2. phase' \in [ActionRequests -> Phases]
    BY <1>1 DEF Phases
  <2>3. interrupted' \in [ActionRequests -> Nat]
    BY <1>1 DEF GovInv, GovTypeOK
  <2> QED
    BY <1>1, <2>1, <2>2, <2>3 DEF GovInv, GovTypeOK
<1>3. ASSUME NEW r \in ActionRequests PROVE ActionInv(r)'
  <2>1. /\ ActionInv(r) /\ effects[r] \in Nat /\ audit[r] \in Seq(AuditStatus)
        /\ interrupted[r] \in Nat
    BY DEF GovInv, GovTypeOK
  <2>2. /\ phase'[r] = "idle"
        /\ interrupted'[r] = IF phase[r] = "idle" THEN interrupted[r] ELSE interrupted[r] + 1
    BY <1>1
  <2>3. (\A x : Rows(r, x) \in Nat) /\ Ends(r) \in Nat
    BY RowsAreCounted DEF GovInv, Ends
  <2>4. CASE audit' = audit
    <3>1. (\A x : Rows(r, x)' = Rows(r, x)) /\ Ends(r)' = Ends(r)
      BY <2>4 DEF Rows, Ends
    <3>2. persistent' =>
            /\ Ends(r)' + (IF phase'[r] \in UnderWay THEN 1 ELSE 0) <= Rows(r, "authorized")'
            /\ Rows(r, "authorized")' <=
                 Ends(r)' + interrupted'[r] + (IF phase'[r] \in UnderWay THEN 1 ELSE 0)
      BY <1>1, <2>1, <2>2, <2>3, <3>1 DEF ActionInv, UnderWay
    <3>3. /\ (persistent \/ ~restarted)' =>
               effects'[r] + (IF phase'[r] = "audited" THEN 1 ELSE 0) <= Rows(r, "authorized")'
          /\ Rows(r, "executed")' + (IF phase'[r] = "done" THEN 1 ELSE 0) <= effects'[r]
      BY <1>1, <2>1, <2>2, <2>3, <3>1 DEF ActionInv
    <3> QED
      BY <2>1, <2>2, <2>4, <3>2, <3>3 DEF ActionInv, UnderWay
  <2>5. CASE ~persistent /\ audit' = [q \in ActionRequests |-> <<>>]
    <3>1. audit'[r] = <<>> /\ DOMAIN audit'[r] = {}
      BY <2>5
    <3>2. Rows(r, "executed")' = 0
      BY <3>1, FS_EmptySet DEF Rows
    <3> QED
      BY <1>1, <2>1, <2>2, <2>5, <3>1, <3>2 DEF ActionInv, UnderWay
  <2> QED
    BY <1>1, <2>4, <2>5
<1> QED
  BY <1>2, <1>3 DEF GovInv

LEMMA GovInvStep == GovInv /\ [GovNext]_govVars => GovInv'
<1>1. ASSUME GovInv, UNCHANGED <<persistent, restarted, phase, effects, audit, interrupted>>,
             permitted' \subseteq ActionRequests, supported' \in BOOLEAN
      PROVE  GovInv'
  BY <1>1 DEF GovInv, GovTypeOK, ActionInv, Rows, Ends
<1>2. ASSUME GovInv, ChangePolicies \/ RegisterExecutor \/ UNCHANGED govVars PROVE GovInv'
  BY <1>1, <1>2 DEF ChangePolicies, RegisterExecutor, govVars, GovInv, GovTypeOK
<1>3. ASSUME GovInv, NEW r \in ActionRequests,
             \/ Evaluate(r) \/ AuditDenied(r) \/ AuditAuthorized(r) \/ GatewayExecute(r)
             \/ AuditResult(r)
      PROVE  GovInv'
  <2>1. Evaluate(r) \/ GatewayExecute(r) => audit' = audit
    BY DEF Evaluate, GatewayExecute
  <2> QED
    BY <1>3, <2>1, RecordStep, GovernedStep
<1> QED
  BY <1>2, <1>3, RestartStep DEF GovNext

LEMMA GovInitInv == GovInit => GovInv
<1> SUFFICES ASSUME GovInit PROVE GovInv
  OBVIOUS
<1>1. GovTypeOK
  <2>1. <<>> \in Seq(AuditStatus) /\ "idle" \in Phases
    BY DEF Phases
  <2> QED
    BY <2>1 DEF GovInit, GovTypeOK
<1>2. ASSUME NEW r \in ActionRequests PROVE ActionInv(r)
  <2>1. /\ audit[r] = <<>> /\ DOMAIN audit[r] = {} /\ effects[r] = 0 /\ phase[r] = "idle"
        /\ interrupted[r] = 0
    BY DEF GovInit
  <2>2. \A x : Rows(r, x) = 0
    BY <2>1, FS_EmptySet DEF Rows
  <2> QED
    BY <2>1, <2>2 DEF ActionInv, UnderWay, Ends
<1> QED
  BY <1>1, <1>2 DEF GovInv

LEMMA GovInvImplies == GovInv => EffectsAreAudited /\ AuditIsBalanced
<1> SUFFICES ASSUME GovInv, NEW r \in ActionRequests
             PROVE  /\ (persistent \/ ~restarted) => effects[r] <= Rows(r, "authorized")
                    /\ Rows(r, "executed") <= effects[r]
                    /\ persistent /\ phase[r] = "idle" =>
                         /\ Ends(r) <= Rows(r, "authorized")
                         /\ Rows(r, "authorized") <= Ends(r) + interrupted[r]
  BY DEF GovInv, ActionInv, EffectsAreAudited, AuditIsBalanced
<1>1. /\ ActionInv(r) /\ effects[r] \in Nat /\ interrupted[r] \in Nat
      /\ Ends(r) \in Nat /\ \A x : Rows(r, x) \in Nat
  BY RowsAreCounted DEF GovInv, GovTypeOK, Ends
<1> QED
  BY <1>1 DEF ActionInv, UnderWay

-----------------------------------------------------------------------------
(* The reliability of a kind of action.                                      *)

RelInv ==
  /\ achieved \in Nat /\ partial \in Nat /\ failedRuns \in Nat /\ unexpected \in Nat
  /\ insufficient \in Nat /\ RelTotal <= MaxExecutions

LEMMA RelInvStep == RelInv /\ [RelNext]_relVars => RelInv'
  BY ReliabilityAssumption DEF RelInv, RelNext, relVars, RelTotal, Achieve, AchievePartially, Fail,
                               Surprise, Lack

LEMMA RelInitInv == RelInit => RelInv
  BY ReliabilityAssumption DEF RelInit, RelInv, RelTotal

LEMMA RelInvImplies == RelInv => RelTypeOK /\ ExcellentIsRare
<1> SUFFICES ASSUME RelInv PROVE RelTypeOK /\ ExcellentIsRare
  OBVIOUS
<1>1. RelTypeOK
  BY ReliabilityAssumption DEF RelInv, RelTotal, RelTypeOK, ReliabilityLevel, Grade
<1>2. ASSUME ReliabilityLevel = "excellent" PROVE AtLeast(achieved, 90) /\ AtMost(failedRuns, 5)
                                                  /\ AtMost(unexpected, 5)
  BY <1>2 DEF ReliabilityLevel
<1>3. ExcellentIsRare
  BY <1>2 DEF RelInv, RelTotal, ExcellentIsRare, AtLeast, AtMost, RelRequiresReview, HumanReviewCount
<1> QED
  BY <1>1, <1>3

\* One more success raises the level or leaves it, and the confidence.
LEMMA AchieveStep == RelInv /\ Achieve =>
  /\ Grade[ReliabilityLevel'] >= Grade[ReliabilityLevel]
  /\ ConfidenceParts' * RelTotal >= ConfidenceParts * RelTotal'
<1> SUFFICES ASSUME RelInv, Achieve
             PROVE  /\ Grade[ReliabilityLevel'] >= Grade[ReliabilityLevel]
                    /\ ConfidenceParts' * RelTotal >= ConfidenceParts * RelTotal'
  OBVIOUS
<1> DEFINE T == RelTotal
           E == Evident
           k == Capped(T, 5)
           l == Capped(T + 1, 5)
<1>1. /\ achieved' = achieved + 1 /\ RelTotal' = T + 1 /\ Evident' = E + 1
      /\ UNCHANGED <<partial, failedRuns, unexpected, insufficient>>
      /\ T \in Nat /\ E \in Nat /\ E <= T
  BY DEF Achieve, RelInv, RelTotal, Evident
<1>2. k \in Nat /\ l \in Nat /\ k <= l
  BY <1>1 DEF Capped
<1>3. ConfidenceParts = E * k /\ ConfidenceParts' = (E + 1) * l
  <2>1. Capped(RelTotal, 5)' = l
    BY <1>1 DEF Capped
  <2> QED
    BY <1>1, <2>1 DEF ConfidenceParts
<1>4. Grade[ReliabilityLevel'] >= Grade[ReliabilityLevel]
  BY <1>1 DEF ReliabilityLevel, AtLeast, AtMost, RelInv, Grade, RelTotal, Evident
<1> HIDE DEF T, E, k, l
<1>5. (E + 1) * l * T >= E * k * (T + 1)
  <2>1. (E + 1) * T >= E * (T + 1)
    BY <1>1
  <2> DEFINE x == (E + 1) * T
             y == E * (T + 1)
  <2>2. x \in Nat /\ y \in Nat /\ x >= y
    BY <1>1, <2>1
  <2>3. (E + 1) * l * T = x * l /\ E * k * (T + 1) = y * k
    BY <1>1, <1>2
  <2> HIDE DEF x, y
  <2>4. x * l >= x * k /\ x * k >= y * k
    BY <1>2, <2>2
  <2> QED
    BY <1>2, <2>2, <2>3, <2>4
<1> QED
  BY <1>1, <1>3, <1>4, <1>5 DEF T

-----------------------------------------------------------------------------
(* The results of the control intelligence.                                  *)

\* What is known of every result there is: its observations are of what it approved, and each of
\* its lessons is that of the last observation of its plan at the time.
LessonOf(v, lesson) ==
  /\ lesson.seen <= Len(v.loops)
  /\ \E j \in 1 .. lesson.seen :
       /\ v.loops[j].plan = lesson.plan
       /\ \A k \in (j + 1) .. lesson.seen : v.loops[k].plan # lesson.plan
       /\ lesson.outcome = "accurate" <=> v.loops[j].status = "observed"

IsEarned(v) ==
  /\ v \in Result /\ Len(v.loops) <= MaxNotes
  /\ \A i \in DOMAIN v.loops : v.loops[i].plan \in v.approved
  /\ \A i \in DOMAIN v.lessons : LessonOf(v, v.lessons[i])

ControlInv ==
  /\ DOMAIN inHand = Reviewers
  /\ \A r \in Reviewers : inHand[r] = NoResult \/ IsEarned(inHand[r])
  /\ lastKept = NoResult \/ IsEarned(lastKept)

LEMMA FreshIsEarned == IsEarned(Fresh)
<1>1. Fresh \in Result /\ Len(Fresh.loops) = 0 /\ DOMAIN Fresh.loops = {} /\ DOMAIN Fresh.lessons = {}
  BY DEF Fresh, Result
<1> QED
  BY <1>1, ControlAssumption DEF IsEarned

\* The steps that change a result: what comes back extends what was handed in.
LEMMA ApproveEarned ==
  ASSUME NEW v, IsEarned(v), NEW p \in ControlPlans
  PROVE  LET w == [v EXCEPT !.approved = ApprovedWith(v, p)] IN
         IsEarned(w) /\ v.approved \subseteq w.approved /\ w.loops = v.loops /\ w.lessons = v.lessons
<1> DEFINE w == [v EXCEPT !.approved = ApprovedWith(v, p)]
<1>1. w.approved = v.approved \cup {p} /\ w.loops = v.loops /\ w.lessons = v.lessons /\ w \in Result
  BY DEF IsEarned, Result, ApprovedWith
<1> HIDE DEF w
<1>2. IsEarned(w) /\ v.approved \subseteq w.approved /\ w.loops = v.loops /\ w.lessons = v.lessons
  BY <1>1 DEF IsEarned, LessonOf
<1> QED
  BY <1>2 DEF w

LEMMA ObserveEarned ==
  ASSUME NEW v, IsEarned(v), NEW p \in ControlPlans, NEW s \in OutcomeStatus,
         MayLoop(v, p), Len(v.loops) < MaxNotes
  PROVE  LET w == [v EXCEPT !.loops = Append(@, [plan |-> p, status |-> s])] IN
         IsEarned(w) /\ w.approved = v.approved /\ IsPrefix(v.loops, w.loops) /\ w.lessons = v.lessons
<1> DEFINE o == [plan |-> p, status |-> s]
           w == [v EXCEPT !.loops = Append(@, o)]
           n == Len(v.loops)
<1>1. /\ w.approved = v.approved /\ w.loops = Append(v.loops, o) /\ w.lessons = v.lessons
      /\ w \in Result /\ v.loops \in Seq(Loop) /\ o \in Loop /\ o.plan = p /\ v.lessons \in Seq(Lesson)
  <2>1. o \in Loop /\ o.plan = p
    BY DEF Loop
  <2>2. v \in Result /\ v.loops \in Seq(Loop) /\ v.lessons \in Seq(Lesson)
        /\ v = [approved |-> v.approved, loops |-> v.loops, lessons |-> v.lessons]
        /\ v.approved \in SUBSET ControlPlans
    BY DEF IsEarned, Result
  <2>3. w = [approved |-> v.approved, loops |-> Append(v.loops, o), lessons |-> v.lessons]
    <3> DEFINE x == Append(v.loops, o)
    <3>1. PICK a, b, c : v = [approved |-> a, loops |-> b, lessons |-> c]
      BY <2>2
    <3>2. w = [v EXCEPT !.loops = x]
      OBVIOUS
    <3> HIDE DEF x, w
    <3>3. w = [approved |-> a, loops |-> x, lessons |-> c]
      BY <3>1, <3>2
    <3> QED
      BY <3>1, <3>3 DEF x
  <2>4. Append(v.loops, o) \in Seq(Loop)
    BY <2>1, <2>2
  <2> QED
    BY <2>1, <2>2, <2>3, <2>4 DEF Result
<1> HIDE DEF w, o
<1>2. /\ n \in Nat /\ DOMAIN v.loops = 1 .. n /\ DOMAIN w.loops = 1 .. n + 1 /\ Len(w.loops) = n + 1
      /\ w.loops[n + 1] = o /\ \A i \in 1 .. n : w.loops[i] = v.loops[i]
  BY <1>1
<1>3. \A i \in DOMAIN w.loops : w.loops[i].plan \in w.approved
  BY <1>1, <1>2 DEF IsEarned, MayLoop
<1>4. ASSUME NEW i \in DOMAIN w.lessons PROVE LessonOf(w, w.lessons[i])
  <2> DEFINE l == v.lessons[i]
  <2>1. l \in Lesson /\ l.seen \in Nat /\ LessonOf(v, l) /\ w.lessons[i] = l
    <3>1. i \in DOMAIN v.lessons /\ w.lessons[i] = l /\ v.lessons[i] \in Lesson
      BY <1>1, <1>4
    <3>2. v.lessons[i].seen \in Nat
      BY <3>1, ControlAssumption DEF Lesson
    <3> QED
      BY <3>1, <3>2 DEF IsEarned
  <2> HIDE DEF l
  <2>2. l.seen <= n /\ l.seen <= n + 1
    BY <2>1, <1>2 DEF LessonOf
  <2>3. \A j \in 1 .. l.seen : w.loops[j] = v.loops[j]
    BY <2>1, <2>2, <1>2
  <2>4. PICK j \in 1 .. l.seen :
          /\ v.loops[j].plan = l.plan
          /\ \A k \in (j + 1) .. l.seen : v.loops[k].plan # l.plan
          /\ l.outcome = "accurate" <=> v.loops[j].status = "observed"
    BY <2>1 DEF LessonOf
  <2>5. \A k \in (j + 1) .. l.seen : k \in 1 .. l.seen
    BY <2>1
  <2> QED
    BY <2>1, <2>2, <2>3, <2>4, <2>5, <1>2 DEF LessonOf
<1>5. IsPrefix(v.loops, w.loops)
  <2>1. SubSeq(v.loops, 1, n) = SubSeq(w.loops, 1, n)
    BY <1>1, <1>2
  <2> QED
    BY <1>2, <2>1 DEF IsPrefix
<1>6. IsEarned(w)
  BY <1>1, <1>2, <1>3, <1>4, ControlAssumption DEF IsEarned
<1> QED
  BY <1>1, <1>5, <1>6 DEF w, o

LEMMA LearnEarned ==
  ASSUME NEW v, IsEarned(v), NEW p \in ControlPlans, LoopsOf(v, p) # {}
  PROVE  LET w == [v EXCEPT !.lessons = Append(@,
                    [plan |-> p, outcome |-> Outcome(Latest(v, p).status), seen |-> Len(v.loops)])] IN
         IsEarned(w) /\ w.approved = v.approved /\ w.loops = v.loops /\ IsPrefix(v.lessons, w.lessons)
<1> DEFINE l == [plan |-> p, outcome |-> Outcome(Latest(v, p).status), seen |-> Len(v.loops)]
           w == [v EXCEPT !.lessons = Append(@, l)]
           n == Len(v.loops)
           m == Len(v.lessons)
           j == Max(LoopsOf(v, p))
<1>1. /\ v \in Result /\ v.loops \in Seq(Loop) /\ v.lessons \in Seq(Lesson) /\ n \in Nat /\ m \in Nat
      /\ DOMAIN v.loops = 1 .. n /\ n <= MaxNotes /\ DOMAIN v.lessons = 1 .. m
  BY DEF IsEarned, Result
<1>2. j \in LoopsOf(v, p) /\ \A k \in LoopsOf(v, p) : k <= j
  <2>1. LoopsOf(v, p) \in SUBSET (0 .. n)
    BY <1>1 DEF LoopsOf
  <2> QED
    BY <2>1, <1>1, MaxOfUpTo
<1> HIDE DEF j
<1>3. /\ j \in 1 .. n /\ v.loops[j].plan = p /\ v.loops[j].status \in OutcomeStatus
      /\ \A k \in (j + 1) .. n : v.loops[k].plan # p
  <2>1. j \in 1 .. n /\ v.loops[j].plan = p
    BY <1>1, <1>2 DEF LoopsOf
  <2>2. v.loops[j] \in Loop
    BY <1>1, <2>1
  <2>3. ASSUME NEW k \in (j + 1) .. n PROVE v.loops[k].plan # p
    <3>1. k \in 1 .. n /\ ~ (k <= j)
      BY <2>1, <1>1
    <3> QED
      BY <3>1, <1>1, <1>2 DEF LoopsOf
  <2> QED
    BY <2>1, <2>2, <2>3 DEF Loop
<1>4. Latest(v, p) = v.loops[j]
  BY DEF Latest, j
<1>5. Outcome(v.loops[j].status) \in Lessons
      /\ (Outcome(v.loops[j].status) = "accurate" <=> v.loops[j].status = "observed")
  <2> DEFINE st == v.loops[j].status
  <2>1. st \in {"observed", "partial", "failed", "unknown"}
    BY <1>3, ControlAssumption
  <2> HIDE DEF st
  <2>2. Outcome(st) \in Lessons /\ (Outcome(st) = "accurate" <=> st = "observed")
    <3>1. CASE st = "observed"
      <4>1. Accuracy(st) = 80
        BY <3>1 DEF Accuracy, SimulatedProbability
      <4> QED
        BY <3>1, <4>1 DEF Outcome, Lessons
    <3>2. CASE st = "unknown"
      BY <3>2 DEF Outcome, Lessons
    <3>3. CASE st \in {"partial", "failed"}
      <4>1. Accuracy(st) = 30
        BY <3>3 DEF Accuracy, SimulatedProbability
      <4> QED
        BY <3>3, <4>1 DEF Outcome, Lessons
    <3> QED
      BY <2>1, <3>1, <3>2, <3>3
  <2> QED
    BY <2>2 DEF st
<1>6. l \in Lesson /\ l.plan = p /\ l.seen = n /\ (l.outcome = "accurate" <=> v.loops[j].status = "observed")
  BY <1>1, <1>3, <1>4, <1>5 DEF Lesson
<1> HIDE DEF l
<1>7. /\ w.approved = v.approved /\ w.loops = v.loops /\ w.lessons = Append(v.lessons, l) /\ w \in Result
  <2>1. v = [approved |-> v.approved, loops |-> v.loops, lessons |-> v.lessons]
        /\ v.approved \in SUBSET ControlPlans
    BY <1>1 DEF Result
  <2>2. w = [approved |-> v.approved, loops |-> v.loops, lessons |-> Append(v.lessons, l)]
    BY <2>1
  <2>3. Append(v.lessons, l) \in Seq(Lesson)
    BY <1>1, <1>6
  <2> QED
    BY <1>1, <2>1, <2>2, <2>3 DEF Result
<1> HIDE DEF w
<1>8. /\ DOMAIN w.lessons = 1 .. m + 1 /\ w.lessons[m + 1] = l /\ Len(w.lessons) = m + 1
      /\ \A i \in 1 .. m : w.lessons[i] = v.lessons[i]
  BY <1>1, <1>6, <1>7
<1>9. ASSUME NEW i \in DOMAIN w.lessons PROVE LessonOf(w, w.lessons[i])
  <2>1. CASE i = m + 1
    BY <2>1, <1>1, <1>3, <1>6, <1>7, <1>8 DEF LessonOf
  <2>2. CASE i # m + 1
    <3>1. i \in 1 .. m /\ w.lessons[i] = v.lessons[i]
      BY <2>2, <1>8, <1>1
    <3>2. LessonOf(v, v.lessons[i])
      BY <3>1, <1>1 DEF IsEarned
    <3> QED
      BY <3>1, <3>2, <1>7 DEF LessonOf
  <2> QED
    BY <2>1, <2>2
<1>10. IsPrefix(v.lessons, w.lessons)
  <2>1. SubSeq(v.lessons, 1, m) = SubSeq(w.lessons, 1, m)
    BY <1>1, <1>6, <1>7, <1>8
  <2> QED
    BY <1>1, <1>8, <2>1 DEF IsPrefix
<1>11. IsEarned(w)
  BY <1>1, <1>7, <1>9 DEF IsEarned
<1> QED
  BY <1>7, <1>10, <1>11 DEF w, l

\* A reviewer hands a result in and gets it back.
LEMMA HandInStep ==
  ASSUME ControlInv, NEW r \in Reviewers, NEW p \in ControlPlans,
         ApprovePlan(r, p) \/ Learn(r, p) \/ \E s \in OutcomeStatus : ObserveOutcome(r, p, s)
  PROVE  /\ inHand[r] # NoResult /\ IsEarned(lastKept')
         /\ inHand' = [inHand EXCEPT ![r] = lastKept']
         /\ inHand[r].approved \subseteq lastKept'.approved
         /\ IsPrefix(inHand[r].loops, lastKept'.loops)
         /\ IsPrefix(inHand[r].lessons, lastKept'.lessons)
<1> DEFINE v == inHand[r]
<1>1. inHand[r] # NoResult /\ inHand' = [inHand EXCEPT ![r] = lastKept']
  BY DEF ApprovePlan, Learn, ObserveOutcome, Give
<1>2. IsEarned(v)
  BY <1>1 DEF ControlInv
<1>3. ASSUME NEW S, NEW q \in Seq(S) PROVE IsPrefix(q, q)
  BY DEF IsPrefix
<1>4. IsPrefix(v.loops, v.loops) /\ IsPrefix(v.lessons, v.lessons)
  <2>1. v.loops \in Seq(Loop) /\ v.lessons \in Seq(Lesson)
    BY <1>2 DEF IsEarned, Result
  <2> QED
    BY <2>1, <1>3
<1>5. CASE ApprovePlan(r, p)
  <2>1. lastKept' = [v EXCEPT !.approved = ApprovedWith(v, p)]
    BY <1>5 DEF ApprovePlan, Give
  <2> HIDE DEF v
  <2> QED
    BY <2>1, <1>2, <1>4, <1>1, ApproveEarned DEF v
<1>6. CASE Learn(r, p)
  <2>1. lastKept' = [v EXCEPT !.lessons = Append(@,
                    [plan |-> p, outcome |-> Outcome(Latest(v, p).status), seen |-> Len(v.loops)])]
        /\ LoopsOf(v, p) # {}
    BY <1>6 DEF Learn, Give
  <2>2. v = inHand[r]
    OBVIOUS
  <2> HIDE DEF v
  <2>3. IsEarned(lastKept') /\ lastKept'.approved = v.approved /\ lastKept'.loops = v.loops
        /\ IsPrefix(v.lessons, lastKept'.lessons)
    BY <2>1, <1>2, LearnEarned
  <2> QED
    BY <2>2, <2>3, <1>1, <1>4
<1>7. CASE \E s \in OutcomeStatus : ObserveOutcome(r, p, s)
  <2>1. PICK s \in OutcomeStatus :
          /\ lastKept' = [v EXCEPT !.loops = Append(@, [plan |-> p, status |-> s])]
          /\ MayLoop(v, p) /\ Len(v.loops) < MaxNotes
    BY <1>7 DEF ObserveOutcome, Give
  <2>2. v = inHand[r]
    OBVIOUS
  <2> HIDE DEF v
  <2>3. IsEarned(lastKept') /\ lastKept'.approved = v.approved /\ lastKept'.lessons = v.lessons
        /\ IsPrefix(v.loops, lastKept'.loops)
    BY <2>1, <1>2, ObserveEarned
  <2> QED
    BY <2>2, <2>3, <1>1, <1>4
<1> QED
  BY <1>5, <1>6, <1>7

LEMMA ControlInvStep == ControlInv /\ [ControlNext]_controlVars => ControlInv'
<1> SUFFICES ASSUME ControlInv, [ControlNext]_controlVars PROVE ControlInv'
  OBVIOUS
<1>1. CASE UNCHANGED controlVars
  BY <1>1 DEF controlVars, ControlInv
<1>2. CASE AnalyzeDecision
  BY <1>2, FreshIsEarned DEF AnalyzeDecision, ControlInv
<1>3. CASE \E r \in Reviewers : TakeLast(r)
  BY <1>3 DEF TakeLast, ControlInv
<1>4. CASE \E r \in Reviewers, p \in ControlPlans :
             ApprovePlan(r, p) \/ Learn(r, p) \/ \E s \in OutcomeStatus : ObserveOutcome(r, p, s)
  <2>1. PICK r \in Reviewers : /\ IsEarned(lastKept')
                               /\ inHand' = [inHand EXCEPT ![r] = lastKept']
    BY <1>4, HandInStep
  <2> QED
    BY <2>1 DEF ControlInv
<1> QED
  BY <1>1, <1>2, <1>3, <1>4 DEF ControlNext

LEMMA ControlInitInv == ControlInit => ControlInv
  BY DEF ControlInit, ControlInv

LEMMA ControlInvImplies == ControlInv => ControlTypeOK /\ LessonsAreEarned
  BY DEF ControlInv, ControlTypeOK, LessonsAreEarned, Known, IsEarned, LessonOf

\* The last result that is kept extends the one before, unless it was made from another one.
LEMMA ForgetStep == ControlInv /\ [ControlNext]_controlVars => OnlyStaleForgets
<1> SUFFICES ASSUME ControlInv, ControlNext, lastKept # NoResult, lastKept' # Fresh,
                    \A r \in Reviewers : ~ (inHand'[r] = lastKept' /\ inHand[r] # lastKept)
             PROVE  /\ lastKept.approved \subseteq lastKept'.approved
                    /\ IsPrefix(lastKept.loops, lastKept'.loops)
                    /\ IsPrefix(lastKept.lessons, lastKept'.lessons)
  BY DEF OnlyStaleForgets
<1>1. CASE lastKept' = lastKept
  <2>1. lastKept.loops \in Seq(Loop) /\ lastKept.lessons \in Seq(Lesson)
    BY DEF ControlInv, IsEarned, Result
  <2>2. ASSUME NEW S, NEW q \in Seq(S) PROVE IsPrefix(q, q)
    BY DEF IsPrefix
  <2> QED
    BY <1>1, <2>1, <2>2
<1>2. CASE lastKept' # lastKept
  <2>1. PICK r \in Reviewers, p \in ControlPlans :
          ApprovePlan(r, p) \/ Learn(r, p) \/ \E s \in OutcomeStatus : ObserveOutcome(r, p, s)
    BY <1>2 DEF ControlNext, AnalyzeDecision, TakeLast
  <2>2. /\ inHand' = [inHand EXCEPT ![r] = lastKept']
        /\ inHand[r].approved \subseteq lastKept'.approved
        /\ IsPrefix(inHand[r].loops, lastKept'.loops)
        /\ IsPrefix(inHand[r].lessons, lastKept'.lessons)
    BY <2>1, HandInStep
  <2>3. inHand'[r] = lastKept'
    BY <2>2 DEF ControlInv
  <2> QED
    BY <2>2, <2>3
<1> QED
  BY <1>1, <1>2

-----------------------------------------------------------------------------
(* The pipeline of a plan.                                                   *)

\* A plan has a result, intelligence and a schedule only if it was orchestrated without
\* dependencies, and before a clear() they are of one time; a request that goes on has answered
\* what it has taken from its list.
PipeInv ==
  /\ PipeTypeOK
  /\ \A p \in Plans : orch[p] # "plain" =>
       /\ result[p] = NoTime /\ intel[p] = NoTime
       /\ \A t \in Times : schedule[p][t] = "none" /\ item[p][t] = "none"
  /\ QueueFollowsSchedule
  /\ ~cleared => \A p \in Plans : intel[p] = result[p]
  /\ CompletedWasDue
  /\ LastIsComplete
  /\ (~cleared /\ request # Idle) =>
       \A p \in request.all : result[p] # NoTime \/ \E i \in DOMAIN request.plans : request.plans[i] = p

PlanLists == {<<p>> : p \in Plans} \cup {<<p, q>> : p, q \in Plans}

\* The steps of a request.
LEMMA AnalyzeStep == ASSUME PipeInv, Analyze PROVE PipeInv'
<1>1. PICK plans \in PlanLists, at \in Times, map \in Plans \cup {NoPlan} : Accept(plans, at, map)
  <2>1. PICK p \in Plans : \E others \in SUBSET (Plans \ {p}), at \in Times, map \in Plans \cup {NoPlan} :
        \E plans \in {<<p>>} \cup {<<p, q>> : q \in others} : Accept(plans, at, map)
    BY DEF Analyze
  <2>2. PICK others \in SUBSET (Plans \ {p}), at \in Times, map \in Plans \cup {NoPlan} :
        \E plans \in {<<p>>} \cup {<<p, q>> : q \in others} : Accept(plans, at, map)
    BY <2>1
  <2>3. PICK plans \in {<<p>>} \cup {<<p, q>> : q \in others} : Accept(plans, at, map)
    BY <2>2
  <2>4. plans \in PlanLists
    <3>1. CASE plans = <<p>>
      BY <3>1 DEF PlanLists
    <3>2. CASE \E q \in others : plans = <<p, q>>
      BY <3>2 DEF PlanLists
    <3> QED
      BY <2>3, <3>1, <3>2
  <2> QED
    BY <2>3, <2>4
<1>2. /\ UNCHANGED <<time, orch, schedule, item, intel, result, cleared, last>>
      /\ calls < MaxCalls /\ calls' = calls + 1
  BY DEF Analyze
<1>3. {plans[i] : i \in DOMAIN plans} \subseteq Plans
  BY <1>1 DEF PlanLists
<1>4. request' \in Request
  BY <1>1, <1>3 DEF PlanLists, Request, Accept
<1>5. /\ request'.plans = plans /\ request'.all = {plans[i] : i \in DOMAIN plans}
  BY <1>1 DEF Accept
<1>6. PipeTypeOK'
  BY <1>1, <1>2, <1>4, PipelineAssumption DEF PipeInv, PipeTypeOK
<1>7. \A p \in request'.all : \E i \in DOMAIN request'.plans : request'.plans[i] = p
  BY <1>5
<1> QED
  BY <1>2, <1>6, <1>7 DEF PipeInv, QueueFollowsSchedule, CompletedWasDue, LastIsComplete

\* What is left of a list of plans.
LEMMA PlansLeft ==
  ASSUME NEW q \in Request, q.plans # <<>>
  PROVE  /\ Head(q.plans) \in Plans
         /\ [q EXCEPT !.plans = Tail(@)] \in Request
         /\ [q EXCEPT !.plans = Tail(@)].all = q.all
         /\ \A p : (\E i \in DOMAIN q.plans : q.plans[i] = p) =>
              \/ p = Head(q.plans)
              \/ \E i \in DOMAIN [q EXCEPT !.plans = Tail(@)].plans :
                   [q EXCEPT !.plans = Tail(@)].plans[i] = p
<1> DEFINE w == [q EXCEPT !.plans = Tail(q.plans)]
<1>3. ASSUME Tail(q.plans) = <<>> \/ \E r \in Plans : Tail(q.plans) = <<r>>
      PROVE  w \in Request /\ w.all = q.all /\ w.plans = Tail(q.plans)
  <2> DEFINE x == Tail(q.plans)
  <2> DEFINE b == q.all
             c == q.at
             d == q.map
  <2>1. /\ b \in SUBSET Plans /\ c \in Times /\ d \in Plans \cup {NoPlan}
        /\ q = [plans |-> q.plans, all |-> b, at |-> c, map |-> d]
    BY DEF Request
  <2>2. w = [q EXCEPT !.plans = x]
    OBVIOUS
  <2>3. x \in {<<>>} \cup {<<p>> : p \in Plans} \cup {<<p, r>> : p, r \in Plans}
    BY <1>3
  <2> HIDE DEF x, w
  <2>4. w = [plans |-> x, all |-> b, at |-> c, map |-> d]
    <3> HIDE DEF b, c, d
    <3> QED
      BY <2>1, <2>2
  <2>5. w \in Request
    BY <2>1, <2>3, <2>4 DEF Request
  <2> QED
    BY <2>1, <2>4, <2>5 DEF x
<1>1. CASE \E p \in Plans : q.plans = <<p>>
  <2>1. PICK p \in Plans : q.plans = <<p>>
    BY <1>1
  <2>2. Tail(q.plans) = <<>> /\ Head(q.plans) = p /\ DOMAIN q.plans = {1} /\ q.plans[1] = p
    BY <2>1
  <2>3. w \in Request /\ w.all = q.all /\ w.plans = Tail(q.plans)
    BY <2>2, <1>3
  <2> QED
    BY <2>2, <2>3
<1>2. CASE \E p, r \in Plans : q.plans = <<p, r>>
  <2>1. PICK p \in Plans, r \in Plans : q.plans = <<p, r>>
    BY <1>2
  <2>2. /\ Tail(q.plans) = <<r>> /\ Head(q.plans) = p /\ DOMAIN q.plans = {1, 2}
        /\ q.plans[1] = p /\ q.plans[2] = r /\ Tail(q.plans)[1] = r /\ DOMAIN Tail(q.plans) = {1}
    BY <2>1
  <2>3. w \in Request /\ w.all = q.all /\ w.plans = Tail(q.plans)
    BY <2>2, <1>3
  <2> QED
    BY <2>2, <2>3
<1>4. q.plans \in {<<>>} \cup {<<p>> : p \in Plans} \cup {<<p, r>> : p, r \in Plans}
  BY DEF Request
<1>5. (\E p \in Plans : q.plans = <<p>>) \/ (\E p, r \in Plans : q.plans = <<p, r>>)
  BY <1>4
<1> QED
  BY <1>1, <1>2, <1>5

LEMMA OrchestrateStep == ASSUME PipeInv, Orchestrate PROVE PipeInv'
<1> USE PipelineAssumption, IdleAssumption
<1> DEFINE p == Head(request.plans)
           at == request.at
<1>1. request # Idle /\ request.plans # <<>> /\ UNCHANGED <<time, cleared, last, calls>>
  BY DEF Orchestrate
<1>2. request \in Request /\ p \in Plans /\ at \in Times
  <2>1. request \in Request
    BY <1>1 DEF PipeInv, PipeTypeOK
  <2> QED
    BY <2>1, <1>1, PlansLeft DEF Request
<1>3. request' = Idle \/ request' = [request EXCEPT !.plans = Tail(@)]
  BY DEF Orchestrate, Raise, NextPlan
<1>4. request' = Idle \/ request' \in Request
  BY <1>1, <1>2, <1>3, PlansLeft
<1>5. ASSUME ~ cleared, result'[p] # NoTime, request' # Idle,
             \A q \in Plans : result[q] # NoTime => result'[q] # NoTime
      PROVE  \A q \in request'.all :
               result'[q] # NoTime \/ \E i \in DOMAIN request'.plans : request'.plans[i] = q
  <2>1. request' = [request EXCEPT !.plans = Tail(@)]
    BY <1>3, <1>5
  <2>2. /\ request'.all = request.all
        /\ \A q : (\E i \in DOMAIN request.plans : request.plans[i] = q) =>
              q = p \/ \E i \in DOMAIN request'.plans : request'.plans[i] = q
    BY <1>1, <1>2, <2>1, PlansLeft
  <2>3. request.all \subseteq Plans
    BY <1>2 DEF Request
  <2> QED
    BY <1>1, <1>5, <2>2, <2>3 DEF PipeInv
<1>6. Orchestrated(p) \in Orchestrations
  BY <1>2 DEF Orchestrated, Orchestrations, PipeInv, PipeTypeOK
<1> HIDE DEF p, at
<1>7. CASE UNCHANGED <<orch, schedule, item, intel, result>> /\ request' = Idle
  BY <1>1, <1>7 DEF PipeInv, PipeTypeOK, QueueFollowsSchedule, CompletedWasDue, LastIsComplete
<1>8. CASE /\ orch' = [orch EXCEPT ![p] = Orchestrated(p)] /\ UNCHANGED <<schedule, item, intel, result>>
           /\ result[p] # NoTime \/ request' = Idle
  <2>1. PipeTypeOK'
    BY <1>1, <1>2, <1>4, <1>6, <1>8 DEF PipeInv, PipeTypeOK
  <2>2. \A q \in Plans : orch'[q] # "plain" => orch[q] # "plain"
    BY <1>2, <1>8 DEF Orchestrated, PipeInv, PipeTypeOK
  <2>3. QueueFollowsSchedule' /\ CompletedWasDue' /\ LastIsComplete'
    BY <1>1, <1>8 DEF PipeInv, QueueFollowsSchedule, CompletedWasDue, LastIsComplete
  <2>4. (~cleared' /\ request' # Idle) => \A q \in request'.all :
           result'[q] # NoTime \/ \E i \in DOMAIN request'.plans : request'.plans[i] = q
    BY <1>1, <1>5, <1>8
  <2> QED
    BY <1>1, <1>8, <2>1, <2>2, <2>3, <2>4 DEF PipeInv
<1>9. CASE /\ orch' = [orch EXCEPT ![p] = Orchestrated(p)] /\ result[p] = NoTime
           /\ Orchestrated(p) # "dependent" /\ at >= time
           /\ schedule' = [schedule EXCEPT ![p][at] = IF @ = "none" THEN "scheduled" ELSE @]
           /\ item' = [item EXCEPT ![p][at] = IF @ = "none" THEN "pending" ELSE @]
           /\ intel' = [intel EXCEPT ![p] = IF @ = NoTime THEN at ELSE @]
           /\ result' = [result EXCEPT ![p] = at]
           /\ request' = [request EXCEPT !.plans = Tail(@)]
  <2>1. PipeTypeOK'
    <3>1. schedule' \in [Plans -> [Times -> ScheduleStatus]]
      BY <1>2, <1>9 DEF PipeInv, PipeTypeOK, ScheduleStatus
    <3>2. item' \in [Plans -> [Times -> ItemStatus]]
      BY <1>2, <1>9 DEF PipeInv, PipeTypeOK, ItemStatus
    <3> QED
      BY <1>1, <1>2, <1>4, <1>6, <1>9, <3>1, <3>2 DEF PipeInv, PipeTypeOK
  <2>2. /\ orch'[p] = "plain" /\ result'[p] = at /\ at # NoTime /\ intel'[p] # NoTime
        /\ intel'[p] = IF intel[p] = NoTime THEN at ELSE intel[p]
    BY <1>2, <1>6, <1>9 DEF PipeInv, PipeTypeOK, Orchestrations, Orchestrated, Times
  <2>3. \A q \in Plans \ {p} : /\ orch'[q] = orch[q] /\ result'[q] = result[q] /\ intel'[q] = intel[q]
                               /\ schedule'[q] = schedule[q] /\ item'[q] = item[q]
    BY <1>2, <1>9 DEF PipeInv, PipeTypeOK
  <2>4. /\ \A t \in Times \ {at} : schedule'[p][t] = schedule[p][t] /\ item'[p][t] = item[p][t]
        /\ schedule'[p][at] # "none" /\ item'[p][at] # "none"
        /\ schedule'[p][at] = IF schedule[p][at] = "none" THEN "scheduled" ELSE schedule[p][at]
    BY <1>2, <1>9 DEF PipeInv, PipeTypeOK
  <2>5. QueueFollowsSchedule'
    <3>1. ASSUME NEW q \in Plans \ {p}
          PROVE  /\ \A t \in Times : (item'[q][t] = "none") <=> (schedule'[q][t] = "none")
                 /\ result'[q] # NoTime => schedule'[q][result'[q]] # "none" /\ intel'[q] # NoTime
                 /\ ~cleared' => \A t \in Times :
                      schedule'[q][t] # "none" <=> result'[q] = t /\ intel'[q] = t
      BY <1>1, <2>3 DEF PipeInv, QueueFollowsSchedule
    <3>2. \A t \in Times : (item'[p][t] = "none") <=> (schedule'[p][t] = "none")
      BY <1>2, <2>4 DEF PipeInv, QueueFollowsSchedule
    <3>3. ASSUME ~cleared, NEW t \in Times
          PROVE  schedule'[p][t] # "none" <=> result'[p] = t /\ intel'[p] = t
      <4>1. intel[p] = NoTime
        BY <1>2, <1>9, <3>3 DEF PipeInv
      <4>2. schedule[p][t] = "none"
        BY <1>2, <1>9, <3>3 DEF PipeInv, QueueFollowsSchedule, Times
      <4> QED
        BY <1>2, <2>2, <2>4, <4>1, <4>2
    <3> QED
      BY <1>1, <1>2, <2>2, <2>4, <3>1, <3>2, <3>3 DEF QueueFollowsSchedule
  <2>6. ~cleared' => \A q \in Plans : intel'[q] = result'[q]
    BY <1>1, <1>2, <1>9, <2>2, <2>3 DEF PipeInv
  <2>7. CompletedWasDue'
    BY <1>1, <1>2, <2>3, <2>4 DEF PipeInv, CompletedWasDue
  <2>8. \A q \in Plans : result[q] # NoTime => result'[q] # NoTime
    BY <2>2, <2>3
  <2>9. LastIsComplete'
    BY <1>1, <2>8 DEF PipeInv, PipeTypeOK, LastIsComplete
  <2>10. (~cleared' /\ request' # Idle) => \A q \in request'.all :
            result'[q] # NoTime \/ \E i \in DOMAIN request'.plans : request'.plans[i] = q
    BY <1>1, <1>5, <2>2, <2>8
  <2>11. \A q \in Plans : orch'[q] # "plain" =>
           /\ result'[q] = NoTime /\ intel'[q] = NoTime
           /\ \A t \in Times : schedule'[q][t] = "none" /\ item'[q][t] = "none"
    BY <2>2, <2>3 DEF PipeInv
  <2> QED
    BY <2>1, <2>5, <2>6, <2>7, <2>9, <2>10, <2>11 DEF PipeInv
<1> QED
  BY <1>2, <1>7, <1>8, <1>9
     DEF Orchestrate, Raise, NextPlan, CachedResult, Unschedulable, p, at, PipeInv, PipeTypeOK, Times

LEMMA BetweenStep ==
  ASSUME PipeInv, AnalyzeReturn \/ Clear \/ PipeTick \/ Decide \/ Ready \/ Cancel \/ Complete
  PROVE  PipeInv'
<1> USE PipelineAssumption, IdleAssumption
<1>1. CASE AnalyzeReturn
  <2>1. /\ request \in Request /\ request # Idle /\ DOMAIN request.plans = {}
        /\ last' = request.all /\ request' = Idle
        /\ UNCHANGED <<time, orch, schedule, item, intel, result, cleared, calls>>
    BY <1>1 DEF AnalyzeReturn, PipeInv, PipeTypeOK
  <2>2. request.all \subseteq Plans
    BY <2>1 DEF Request
  <2> QED
    BY <2>1, <2>2 DEF PipeInv, PipeTypeOK, QueueFollowsSchedule, CompletedWasDue, LastIsComplete
<1>2. CASE Clear
  <2>1. /\ \A p \in Plans : result'[p] = NoTime
        /\ request' = Idle /\ cleared' = TRUE /\ result' \in [Plans -> Times \cup {NoTime}]
        /\ UNCHANGED <<time, orch, schedule, item, intel, last, calls>>
    BY <1>2 DEF Clear
  <2> QED
    BY <2>1 DEF PipeInv, PipeTypeOK, QueueFollowsSchedule, CompletedWasDue, LastIsComplete
<1>3. CASE PipeTick
  <2>1. time' \in Times /\ time <= time' /\ time \in Times
        /\ UNCHANGED <<orch, schedule, item, intel, result, cleared, request, last, calls>>
    BY <1>3 DEF PipeTick, PipeInv, PipeTypeOK, Times
  <2>2. CompletedWasDue'
    BY <2>1 DEF PipeInv, CompletedWasDue, Times
  <2> QED
    BY <2>1, <2>2 DEF PipeInv, PipeTypeOK, QueueFollowsSchedule, LastIsComplete
<1>4. CASE Decide
  <2>1. PICK p \in Plans, at \in Times, d \in Decisions :
          /\ item[p][at] = "pending" /\ item' = [item EXCEPT ![p][at] = d]
    BY <1>4 DEF Decide, MayDecide
  <2>2. UNCHANGED <<time, orch, schedule, intel, result, cleared, request, last, calls>>
    BY <1>4 DEF Decide
  <2>3. item' \in [Plans -> [Times -> ItemStatus]]
    BY <2>1 DEF PipeInv, PipeTypeOK, ItemStatus
  <2>4. \A q \in Plans, t \in Times : item'[q][t] = "none" <=> item[q][t] = "none"
    BY <2>1 DEF PipeInv, PipeTypeOK
  <2>5. PipeTypeOK'
    BY <2>2, <2>3 DEF PipeInv, PipeTypeOK
  <2> QED
    BY <2>2, <2>4, <2>5 DEF PipeInv, QueueFollowsSchedule, CompletedWasDue, LastIsComplete
<1>5. CASE Ready \/ Cancel \/ Complete
  <2>1. PICK p \in Plans, at \in Times, st \in ScheduleStatus :
          /\ schedule[p][at] # "none" /\ st # "none"
          /\ schedule' = [schedule EXCEPT ![p][at] = st]
          /\ st \in {"ready", "completed"} => at <= time
    BY <1>5 DEF Ready, Cancel, Complete, SetSchedule, Due, MayCancel, ScheduleStatus, PipeInv,
                CompletedWasDue
  <2>2. UNCHANGED <<time, orch, item, intel, result, cleared, request, last, calls>>
    BY <1>5 DEF Ready, Cancel, Complete, SetSchedule
  <2>3. schedule' \in [Plans -> [Times -> ScheduleStatus]]
    BY <2>1 DEF PipeInv, PipeTypeOK
  <2>4. \A q \in Plans, t \in Times : /\ schedule'[q][t] = "none" <=> schedule[q][t] = "none"
                                      /\ schedule'[q][t] \in {schedule[q][t], st}
                                      /\ schedule'[q][t] # schedule[q][t] => t = at
    BY <2>1 DEF PipeInv, PipeTypeOK
  <2>5. PipeTypeOK'
    BY <2>2, <2>3 DEF PipeInv, PipeTypeOK
  <2>6. QueueFollowsSchedule'
    BY <2>2, <2>4 DEF PipeInv, PipeTypeOK, QueueFollowsSchedule
  <2>7. CompletedWasDue'
    BY <2>1, <2>2, <2>4 DEF PipeInv, CompletedWasDue
  <2> QED
    BY <2>2, <2>4, <2>5, <2>6, <2>7 DEF PipeInv, LastIsComplete
<1> QED
  BY <1>1, <1>2, <1>3, <1>4, <1>5

LEMMA PipeInvStep == PipeInv /\ [PipeNext]_pipeVars => PipeInv'
<1>1. ASSUME PipeInv, UNCHANGED pipeVars PROVE PipeInv'
  BY <1>1 DEF pipeVars, PipeInv, PipeTypeOK, QueueFollowsSchedule, CompletedWasDue, LastIsComplete
<1> QED
  BY <1>1, AnalyzeStep, OrchestrateStep, BetweenStep DEF PipeNext

LEMMA PipeInitInv == PipeInit => PipeInv
<1> USE PipelineAssumption
<1> SUFFICES ASSUME PipeInit PROVE PipeInv
  OBVIOUS
<1>1. PipeTypeOK
  <2>1. /\ [t \in Times |-> "none"] \in [Times -> ScheduleStatus]
        /\ [t \in Times |-> "none"] \in [Times -> ItemStatus]
    BY DEF ScheduleStatus, ItemStatus
  <2>2. schedule \in [Plans -> [Times -> ScheduleStatus]] /\ item \in [Plans -> [Times -> ItemStatus]]
    BY <2>1 DEF PipeInit
  <2>3. orch \in [Plans -> Orchestrations]
    BY DEF PipeInit, Orchestrations
  <2>4. intel \in [Plans -> Times \cup {NoTime}] /\ result \in [Plans -> Times \cup {NoTime}]
    BY DEF PipeInit
  <2>5. /\ time \in Times /\ cleared \in BOOLEAN /\ last \subseteq Plans /\ calls \in 0 .. MaxCalls
        /\ request = Idle
    <3>1. time = 0 /\ cleared = FALSE /\ last = {} /\ calls = 0 /\ request = Idle
      BY DEF PipeInit
    <3>2. cleared \in BOOLEAN
      BY <3>1
    <3>3. 0 \in 0 .. EndTime /\ 0 \in 0 .. MaxCalls
      OBVIOUS
    <3> QED
      BY <3>1, <3>2, <3>3 DEF Times
  <2> QED
    BY <2>2, <2>3, <2>4, <2>5 DEF PipeTypeOK
<1>2. QueueFollowsSchedule /\ CompletedWasDue /\ LastIsComplete
  <2>1. \A t \in Times : NoTime # t
    BY DEF Times
  <2> QED
    BY <2>1 DEF PipeInit, QueueFollowsSchedule, CompletedWasDue, LastIsComplete
<1> QED
  BY <1>1, <1>2 DEF PipeInit, PipeInv

LEMMA PipeInvImplies ==
  PipeInv => /\ PipeTypeOK /\ DependentIsNeverQueued /\ QueueFollowsSchedule /\ LastIsComplete
             /\ CompletedWasDue
  BY DEF PipeInv, DependentIsNeverQueued

\* No step takes back what a human decided, or revives a schedule that has ended.
LEMMA DecisionsStep == PipeInv /\ [PipeNext]_pipeVars => DecisionsLast
<1> SUFFICES ASSUME PipeInv, PipeNext, NEW p \in Plans, NEW t \in Times
             PROVE  /\ item[p][t] \in Decisions => item'[p][t] = item[p][t]
                    /\ schedule[p][t] \in {"cancelled", "completed"} => schedule'[p][t] = schedule[p][t]
  BY DEF DecisionsLast
<1>1. /\ item \in [Plans -> [Times -> ItemStatus]] /\ schedule \in [Plans -> [Times -> ScheduleStatus]]
      /\ "pending" \notin Decisions /\ "none" \notin Decisions
  BY PipelineAssumption DEF PipeInv, PipeTypeOK
<1>2. CASE Analyze \/ AnalyzeReturn \/ Clear \/ PipeTick
  BY <1>2 DEF Analyze, AnalyzeReturn, Clear, PipeTick
<1>3. CASE Orchestrate
  <2>1. PICK q, at : \/ UNCHANGED <<schedule, item>>
                     \/ /\ schedule' = [schedule EXCEPT ![q][at] = IF @ = "none" THEN "scheduled" ELSE @]
                        /\ item' = [item EXCEPT ![q][at] = IF @ = "none" THEN "pending" ELSE @]
    BY <1>3 DEF Orchestrate
  <2> QED
    BY <1>1, <2>1
<1>4. CASE Decide
  BY <1>1, <1>4 DEF Decide, MayDecide
<1>5. CASE Ready \/ Cancel \/ Complete
  <2>1. PICK q \in Plans, at \in Times, st \in ScheduleStatus :
          /\ schedule[q][at] \notin {"cancelled", "completed"} /\ item' = item
          /\ schedule' = [schedule EXCEPT ![q][at] = st]
    BY <1>5 DEF Ready, Cancel, Complete, SetSchedule, MayCancel, ScheduleStatus
  <2> QED
    BY <1>1, <2>1
<1> QED
  BY <1>2, <1>3, <1>4, <1>5 DEF PipeNext

-----------------------------------------------------------------------------
(* The health of an orchestration.                                           *)

HealthInv ==
  /\ blocked \in BOOLEAN /\ unresolved \in BOOLEAN /\ cancelled \in BOOLEAN /\ rolledBack \in BOOLEAN
  /\ approval \in [Approvals -> {"pending", "approved", "rejected", "modified"}]

LEMMA HealthInvStep == HealthInv /\ [HealthNext]_healthVars => HealthInv'
  BY DEF HealthInv, HealthNext, healthVars, DecideItem, CancelSchedule, RequireRollback

LEMMA HealthInitInv == HealthInit => HealthInv
  BY DEF HealthInit, HealthInv

\* How many approvals are pending is a number, and none only if there is none.
LEMMA PendingCount == PendingApprovals \in Nat
<1> DEFINE A == {i \in Approvals : approval[i] = "pending"}
<1>1. A \subseteq Approvals
  OBVIOUS
<1> HIDE DEF A
<1>2. Cardinality(A) \in Nat
  BY <1>1, HealthAssumption, FS_Subset, FS_CardinalityType
<1> QED
  BY <1>2 DEF PendingApprovals, A

\* The components of the risk, by what causes them.
Scores ==
  {0} \cup (IF blocked THEN {85, 80} ELSE {}) \cup (IF unresolved THEN {82} ELSE {})
      \cup (IF PendingApprovals > 0 THEN {ApprovalScore} ELSE {}) \cup (IF rolledBack THEN {90} ELSE {})

RiskFacts ==
  /\ Scores \subseteq 0 .. 100 /\ RiskScore \in Scores /\ \A x \in Scores : x <= RiskScore
  /\ 40 < ApprovalScore \/ PendingApprovals = 0

\* The risk is the greatest of them, and a pending approval is one of them.
LEMMA RiskIsGreatest == RiskFacts
<1>1. /\ PendingApprovals \in Nat /\ ApprovalScore \in 0 .. 100
      /\ 40 < ApprovalScore \/ PendingApprovals = 0
  BY PendingCount DEF ApprovalScore, CappedSum
<1>2. {0} \cup {s[2] : s \in Signals \ CancelledSignal} = Scores
  <2> DEFINE B == {s[2] : s \in Signals \ CancelledSignal}
             C == Signals \ CancelledSignal
  <2>1. C = MissingSignal \cup BlockedSignal \cup UnresolvedSignal \cup ApprovalSignal \cup RollbackSignal
    BY DEF Signals, MissingSignal, BlockedSignal, UnresolvedSignal, ApprovalSignal, RollbackSignal,
           CancelledSignal
  <2>2. \A x : x \in Scores <=> x = 0 \/ \E s \in C : x = s[2]
    <3> SUFFICES ASSUME NEW x PROVE x \in Scores <=> x = 0 \/ \E s \in C : x = s[2]
      OBVIOUS
    <3> HIDE DEF C
    <3>1. /\ (\E s \in MissingSignal : x = s[2]) <=> (blocked /\ x = 85)
          /\ (\E s \in BlockedSignal : x = s[2]) <=> (blocked /\ x = 80)
          /\ (\E s \in UnresolvedSignal : x = s[2]) <=> (unresolved /\ x = 82)
          /\ (\E s \in ApprovalSignal : x = s[2]) <=> (PendingApprovals > 0 /\ x = ApprovalScore)
          /\ (\E s \in RollbackSignal : x = s[2]) <=> (rolledBack /\ x = 90)
      <4>1. ASSUME NEW name, NEW score PROVE (\E s \in {<<name, score>>} : x = s[2]) <=> x = score
        OBVIOUS
      <4>2. ~ \E s \in {} : x = s[2]
        OBVIOUS
      <4>3. (\E s \in MissingSignal : x = s[2]) <=> (blocked /\ x = 85)
        <5>1. CASE blocked
          BY <4>1, <5>1 DEF MissingSignal
        <5>2. CASE ~(blocked)
          BY <4>2, <5>2 DEF MissingSignal
        <5> QED
          BY <5>1, <5>2
      <4>4. (\E s \in BlockedSignal : x = s[2]) <=> (blocked /\ x = 80)
        <5>1. CASE blocked
          BY <4>1, <5>1 DEF BlockedSignal
        <5>2. CASE ~(blocked)
          BY <4>2, <5>2 DEF BlockedSignal
        <5> QED
          BY <5>1, <5>2
      <4>5. (\E s \in UnresolvedSignal : x = s[2]) <=> (unresolved /\ x = 82)
        <5>1. CASE unresolved
          BY <4>1, <5>1 DEF UnresolvedSignal
        <5>2. CASE ~(unresolved)
          BY <4>2, <5>2 DEF UnresolvedSignal
        <5> QED
          BY <5>1, <5>2
      <4>6. (\E s \in ApprovalSignal : x = s[2]) <=> (PendingApprovals > 0 /\ x = ApprovalScore)
        <5>1. CASE PendingApprovals > 0
          BY <4>1, <5>1 DEF ApprovalSignal
        <5>2. CASE ~(PendingApprovals > 0)
          BY <4>2, <5>2 DEF ApprovalSignal
        <5> QED
          BY <5>1, <5>2
      <4>7. (\E s \in RollbackSignal : x = s[2]) <=> (rolledBack /\ x = 90)
        <5>1. CASE rolledBack
          BY <4>1, <5>1 DEF RollbackSignal
        <5>2. CASE ~(rolledBack)
          BY <4>2, <5>2 DEF RollbackSignal
        <5> QED
          BY <5>1, <5>2
      <4> QED
        BY <4>3, <4>4, <4>5, <4>6, <4>7
    <3>2. (\E s \in C : x = s[2]) <=>
             \/ \E s \in MissingSignal : x = s[2]
             \/ \E s \in BlockedSignal : x = s[2]
             \/ \E s \in UnresolvedSignal : x = s[2]
             \/ \E s \in ApprovalSignal : x = s[2]
             \/ \E s \in RollbackSignal : x = s[2]
      BY <2>1
    <3> QED
      BY <3>1, <3>2 DEF Scores
  <2>3. \A x : x \in B <=> \E s \in C : x = s[2]
    OBVIOUS
  <2> QED
    BY <2>2, <2>3
<1>3. RiskScore = Max(Scores)
  BY <1>2 DEF RiskScore
<1>4. Scores \in SUBSET (0 .. 100) /\ Scores # {}
  BY <1>1 DEF Scores
<1>5. Max(Scores) \in Scores /\ \A x \in Scores : x <= Max(Scores)
  BY <1>4, MaxOfUpTo
<1> QED
  BY <1>1, <1>3, <1>4, <1>5 DEF RiskFacts

LEMMA HealthInvImplies == HealthInv => HealthTypeOK /\ HealthyIsSilent /\ ApprovedIsRefused
<1> SUFFICES ASSUME HealthInv PROVE HealthTypeOK /\ HealthyIsSilent /\ ApprovedIsRefused
  OBVIOUS
<1>1. HealthTypeOK
  BY RiskIsGreatest DEF HealthInv, HealthTypeOK, RiskFacts
<1>2. HealthStatus = "healthy" <=> Signals = {}
  BY DEF HealthStatus, Signals, MissingSignal, BlockedSignal, UnresolvedSignal, ApprovalSignal,
         RollbackSignal, CancelledSignal
<1>3. rolledBack <=> HealthStatus = "failed"
  BY DEF HealthStatus
<1>4. ASSUME RiskScore = 0 PROVE Signals \subseteq {<<"schedule.cancelled", 65>>}
  <2>1. \A x \in Scores : x = 0
    BY <1>4, RiskIsGreatest DEF RiskFacts
  <2>2. ~blocked /\ ~unresolved /\ ~rolledBack /\ ~(PendingApprovals > 0)
    BY <2>1, RiskIsGreatest, PendingCount DEF Scores, RiskFacts
  <2> QED
    BY <2>2 DEF Signals, MissingSignal, BlockedSignal, UnresolvedSignal, ApprovalSignal,
                RollbackSignal, CancelledSignal
<1>5. ApprovedIsRefused
  BY HealthAssumption DEF ApprovedIsRefused, AddsUp, CompletedCount, PendingActionCount, BlockedActionCount
<1> QED
  BY <1>1, <1>2, <1>3, <1>4, <1>5 DEF HealthyIsSilent

\* A decision removes one pending item, and so a component of the risk or some of it; whatever
\* else happens only adds to the risk.
LEMMA DecidingStep == HealthInv /\ [HealthNext]_healthVars => DecidingLowersRisk
<1> SUFFICES ASSUME HealthInv, HealthNext
             PROVE  /\ approval' # approval => RiskScore' <= RiskScore
                    /\ RiskScore' < RiskScore => PendingApprovals' < PendingApprovals
  BY DEF DecidingLowersRisk
<1>1. /\ RiskScore \in 0 .. 100 /\ RiskScore \in Scores /\ \A x \in Scores : x <= RiskScore
      /\ RiskScore' \in 0 .. 100 /\ RiskScore' \in Scores' /\ \A x \in Scores' : x <= RiskScore'
  <2>1. RiskFacts'
    BY RiskIsGreatest, PTL
  <2> QED
    BY <2>1, RiskIsGreatest DEF RiskFacts
<1>2. CASE DecideItem
  <2>1. PICK i \in Approvals, d \in {"approved", "rejected", "modified"} :
          approval[i] = "pending" /\ approval' = [approval EXCEPT ![i] = d]
    BY <1>2 DEF DecideItem
  <2>2. UNCHANGED <<blocked, unresolved, cancelled, rolledBack>>
    BY <1>2 DEF DecideItem
  <2>3. PendingApprovals' = PendingApprovals - 1 /\ PendingApprovals \in Nat /\ PendingApprovals' \in Nat
    <3> DEFINE A == {k \in Approvals : approval[k] = "pending"}
               B == {k \in Approvals : approval'[k] = "pending"}
    <3>1. B = A \ {i} /\ i \in A /\ A \subseteq Approvals
      BY <2>1 DEF HealthInv
    <3>2. PendingApprovals = Cardinality(A) /\ PendingApprovals' = Cardinality(B)
      BY DEF PendingApprovals
    <3> HIDE DEF A, B
    <3>3. IsFiniteSet(A)
      BY <3>1, HealthAssumption, FS_Subset
    <3>4. Cardinality(B) = Cardinality(A) - 1 /\ Cardinality(A) \in Nat /\ IsFiniteSet(B)
      BY <3>1, <3>3, FS_RemoveElement, FS_CardinalityType, FS_Subset
    <3>5. Cardinality(B) \in Nat
      BY <3>4, FS_CardinalityType
    <3> QED
      BY <3>2, <3>4, <3>5
  <2>4. ApprovalScore' <= ApprovalScore
    BY <2>3 DEF ApprovalScore, CappedSum
  <2>5. \A x \in Scores' : \E y \in Scores : x <= y
    <3>1. ASSUME NEW x \in Scores' PROVE x \in Scores \/ (PendingApprovals > 0 /\ x <= ApprovalScore)
      BY <2>2, <2>3, <2>4, <3>1 DEF Scores
    <3>2. \A x \in Scores : x <= x
      BY RiskIsGreatest DEF RiskFacts
    <3>3. PendingApprovals > 0 => ApprovalScore \in Scores
      BY DEF Scores
    <3> QED
      BY <3>1, <3>2, <3>3
  <2>6. RiskScore' <= RiskScore
    <3>1. PICK y \in Scores : RiskScore' <= y
      BY <1>1, <2>5
    <3>2. y <= RiskScore /\ y \in 0 .. 100
      BY <1>1, RiskIsGreatest DEF RiskFacts
    <3> QED
      BY <1>1, <3>1, <3>2
  <2> QED
    BY <2>3, <2>6
<1>3. CASE CancelSchedule \/ RequireRollback
  <2>1. UNCHANGED <<blocked, unresolved, approval>> /\ (rolledBack => rolledBack')
    BY <1>3 DEF CancelSchedule, RequireRollback
  <2>2. PendingApprovals' = PendingApprovals
    BY <2>1 DEF PendingApprovals
  <2>3. ApprovalScore' = ApprovalScore
    BY <2>2 DEF ApprovalScore
  <2>4. Scores \subseteq Scores'
    BY <2>1, <2>2, <2>3 DEF Scores
  <2> QED
    BY <1>1, <2>1, <2>4
<1> QED
  BY <1>2, <1>3 DEF HealthNext

-----------------------------------------------------------------------------
(* Alternatives of a decision.                                               *)

EvalInv == decision \in [Alternatives -> DecisionFacts] /\ constraints \subseteq PolicyConstraints

LEMMA EvalInvStep == EvalInv /\ [EvalNext]_evalVars => EvalInv'
<1> SUFFICES ASSUME EvalInv, [EvalNext]_evalVars PROVE EvalInv'
  OBVIOUS
<1>1. CASE UNCHANGED evalVars
  BY <1>1 DEF evalVars, EvalInv
<1>2. CASE Constrain
  BY <1>2 DEF Constrain, EvalInv
<1>3. ASSUME NEW a \in Alternatives,
             GainEvidence(a) \/ GainConfidence(a) \/ GainEntity(a) \/ Escalate(a)
      PROVE  EvalInv'
  <2> DEFINE d == decision[a]
  <2>1. d \in DecisionFacts
    BY DEF EvalInv
  <2>2. PICK e \in DecisionFacts : Gain(a, e)
    <3>1. CASE GainEvidence(a)
      BY <2>1, <3>1 DEF GainEvidence, DecisionFacts
    <3>2. CASE GainConfidence(a)
      BY <2>1, <3>2 DEF GainConfidence, DecisionFacts
    <3>3. CASE GainEntity(a)
      BY <2>1, <3>3 DEF GainEntity, DecisionFacts
    <3>4. CASE Escalate(a)
      BY <2>1, <3>4 DEF Escalate, DecisionFacts
    <3> QED
      BY <1>3, <3>1, <3>2, <3>3, <3>4
  <2> QED
    BY <2>2 DEF Gain, EvalInv
<1> QED
  BY <1>1, <1>2, <1>3 DEF EvalNext

LEMMA EvalInitInv == EvalInit => EvalInv
  BY EvaluationAssumption DEF EvalInit, EvalInv, DecisionFacts

\* What the score of an alternative is made of, before it is divided.
Parts(d) == 35 * OutcomeOf(d) + 25 * (Whole - RiskOf(d))
            + 20 * SimulatedConfidence(d) + 20 * ImpactOf(d)

LEMMA CountOfEntities ==
  ASSUME NEW A \in SUBSET Entities
  PROVE  /\ Cardinality(A) \in 0 .. 2
         /\ \A B \in SUBSET A : Cardinality(B) <= Cardinality(A)
<1>1. Entities = {"user", "system"} /\ IsFiniteSet(Entities) /\ Cardinality(Entities) = 2
  <2>1. IsFiniteSet({"user"}) /\ Cardinality({"user"}) = 1
    BY FS_Singleton
  <2>2. {"user"} \cup {"system"} = Entities /\ "system" \notin {"user"}
    BY DEF Entities
  <2>3. IsFiniteSet({"user"} \cup {"system"}) /\ Cardinality({"user"} \cup {"system"}) = 1 + 1
    BY <2>1, <2>2, FS_AddElement
  <2> QED
    BY <2>2, <2>3 DEF Entities
<1>2. IsFiniteSet(A) /\ Cardinality(A) <= 2 /\ Cardinality(A) \in Nat
  BY <1>1, FS_Subset, FS_CardinalityType
<1>3. ASSUME NEW B \in SUBSET A PROVE Cardinality(B) <= Cardinality(A)
  BY <1>2, FS_Subset
<1> QED
  BY <1>2, <1>3

\* The parts of a score, of which each moves it one way, and each is a share of a whole.
LEMMA PartsAreNumbers ==
  ASSUME NEW d \in DecisionFacts
  PROVE  /\ RiskOf(d) \in 0 .. Whole /\ SimulatedConfidence(d) \in 0 .. Whole
         /\ ImpactOf(d) \in 0 .. Whole /\ OutcomeOf(d) \in 0 .. Whole /\ Whole \in Nat
         /\ d.priority \in 1 .. 4 /\ d.confidence \in 0 .. 10 /\ Cardinality(d.affected) \in 0 .. 2
         /\ d.evidence \in BOOLEAN
<1>1. /\ d.priority \in {1, 2, 3, 4} /\ d.confidence \in 0 .. 10 /\ d.affected \in SUBSET Entities
      /\ d.evidence \in BOOLEAN
  <2>1. d.priority \in 1 .. 4 /\ d.confidence \in Confidences /\ d.affected \in SUBSET Entities
        /\ d.evidence \in BOOLEAN
    BY DEF DecisionFacts
  <2>2. d.confidence \in 0 .. 10
    BY <2>1, EvaluationAssumption
  <2>3. d.priority \in {1, 2, 3, 4}
    BY <2>1
  <2> QED
    BY <2>1, <2>2, <2>3
<1>2. Cardinality(d.affected) \in 0 .. 2
  BY <1>1, CountOfEntities
<1>3. RiskOf(d) \in Int /\ 0 <= RiskOf(d) /\ RiskOf(d) <= Whole
  BY <1>1 DEF RiskOf, Whole
<1>4. ImpactOf(d) \in Int /\ 0 <= ImpactOf(d) /\ ImpactOf(d) <= Whole
  BY <1>2 DEF ImpactOf, MinOf, Whole
<1>5. SimulatedConfidence(d) \in Int /\ 0 <= SimulatedConfidence(d) /\ SimulatedConfidence(d) <= Whole
  BY <1>1 DEF SimulatedConfidence, Whole
<1>6. OutcomeOf(d) \in Int /\ 0 <= OutcomeOf(d) /\ OutcomeOf(d) <= Whole /\ Whole \in Nat
  BY DEF OutcomeOf, Whole
<1> QED
  BY <1>1, <1>2, <1>3, <1>4, <1>5, <1>6

LEMMA OverallOfParts ==
  ASSUME NEW d \in DecisionFacts
  PROVE  Overall(d) = Parts(d) \div 100 /\ Parts(d) \in Nat /\ Overall(d) \in 0 .. Whole
<1>1. Overall(d) = Parts(d) \div 100
  BY DEF Overall, Parts
<1>2. Parts(d) \in Int /\ 0 <= Parts(d) /\ Parts(d) <= 100 * Whole /\ Whole \in Nat
  BY PartsAreNumbers DEF Parts
<1> HIDE DEF Parts
<1>3. Parts(d) \div 100 \in Int /\ 0 <= Parts(d) \div 100 /\ Parts(d) \div 100 <= Whole
  BY <1>2
<1> QED
  BY <1>1, <1>2, <1>3

LEMMA DivideKeeps ==
  ASSUME NEW m \in Nat, NEW n \in Nat
  PROVE  /\ m <= n => m \div 100 <= n \div 100
         /\ m + 100 <= n => m \div 100 < n \div 100
OBVIOUS

\* An alternative that is no more urgent, no less certain and affects no less scores no less,
\* and more if it is calm where the other one is urgent.
NoWorse(d, e) ==
  /\ e.priority <= d.priority /\ d.confidence <= e.confidence /\ (d.evidence => e.evidence)
  /\ Cardinality(d.affected) <= Cardinality(e.affected)

LEMMA ScoresCompare ==
  ASSUME NEW d \in DecisionFacts, NEW e \in DecisionFacts, NoWorse(d, e)
  PROVE  /\ Overall(d) <= Overall(e)
         /\ (e.priority < d.priority /\ d.priority >= 3) => Overall(d) < Overall(e)
<1>1. /\ d.priority \in {1, 2, 3, 4} /\ e.priority \in {1, 2, 3, 4}
      /\ d.confidence \in Int /\ e.confidence \in Int
      /\ Cardinality(d.affected) \in Int /\ Cardinality(e.affected) \in Int
      /\ d.evidence \in BOOLEAN /\ e.evidence \in BOOLEAN
  BY PartsAreNumbers
<1>0. /\ e.priority <= d.priority /\ d.confidence <= e.confidence /\ (d.evidence => e.evidence)
      /\ Cardinality(d.affected) <= Cardinality(e.affected)
  BY DEF NoWorse
<1>2. RiskOf(e) <= RiskOf(d) /\ ((e.priority < d.priority /\ d.priority >= 3) => RiskOf(e) + 4 <= RiskOf(d))
  <2> DEFINE risks == <<122500, 122500, 245000, 350000>>
  <2>1. risks[1] = 122500 /\ risks[2] = 122500 /\ risks[3] = 245000 /\ risks[4] = 350000
    BY SMT
  <2>2. RiskOf(d) = risks[d.priority] /\ RiskOf(e) = risks[e.priority]
    BY DEF RiskOf
  <2> HIDE DEF risks
  <2>3. CASE d.priority = 1 \/ d.priority = 2
    BY <1>0, <1>1, <2>1, <2>2, <2>3, SMT
  <2>4. CASE d.priority = 3
    BY <1>0, <1>1, <2>1, <2>2, <2>4, SMT
  <2>5. CASE d.priority = 4
    BY <1>0, <1>1, <2>1, <2>2, <2>5, SMT
  <2> QED
    BY <1>1, <2>3, <2>4, <2>5
<1>3. SimulatedConfidence(d) <= SimulatedConfidence(e)
  <2> DEFINE b(x) == IF x.evidence THEN 300000 ELSE 0
  <2>1. b(d) \in Int /\ b(e) \in Int /\ b(d) <= b(e)
    BY <1>0, <1>1, SMT
  <2>2. SimulatedConfidence(d) = 50000 * d.confidence + b(d) /\ SimulatedConfidence(e) = 50000 * e.confidence + b(e)
    BY SMT DEF SimulatedConfidence
  <2> HIDE DEF b
  <2> QED
    BY <1>0, <1>1, <2>1, <2>2, SMT
<1>4. ImpactOf(d) <= ImpactOf(e)
  BY <1>0, <1>1, SMT DEF ImpactOf, MinOf, Whole
<1>5. OutcomeOf(d) = OutcomeOf(e)
  BY DEF OutcomeOf
<1>6. /\ Parts(d) <= Parts(e)
      /\ (e.priority < d.priority /\ d.priority >= 3) => Parts(d) + 100 <= Parts(e)
  BY <1>2, <1>3, <1>4, <1>5, PartsAreNumbers DEF Parts
<1> QED
  BY <1>6, OverallOfParts, DivideKeeps

\* There is exactly one preferred alternative.
LEMMA PreferredIsOne ==
  ASSUME EvalInv
  PROVE  /\ Preferred \in Alternatives /\ \A b \in Alternatives : RankedBefore(Preferred, b)
         /\ \A a \in Alternatives : (\A b \in Alternatives : RankedBefore(a, b)) => a = Preferred
<1> USE EvaluationAssumption
<1> DEFINE score(a) == Overall(decision[a])
           V == {score(a) : a \in Alternatives}
<1>1. \A a \in Alternatives : score(a) \in 0 .. Whole
  BY OverallOfParts DEF EvalInv
<1>2. Max(V) \in V /\ \A x \in V : x <= Max(V)
  <2>1. V \in SUBSET (0 .. Whole) /\ V # {}
    BY <1>1
  <2>2. Whole \in Nat
    BY DEF Whole
  <2> HIDE DEF V
  <2> QED
    BY <2>1, <2>2, MaxOfUpTo
<1>3. PICK best \in V : \A x \in V : x <= best
  BY <1>2
<1> DEFINE A == {a \in Alternatives : score(a) = best}
<1>4. A # {} /\ A \subseteq Nat
  BY <1>3
<1>5. \E x \in A : \A y \in A : ~ (<<y, x>> \in Below)
  <2>1. IsWellFoundedOn(Below, Nat)
    BY NatLessThanWellFounded DEF OpToRel, Below
  <2> HIDE DEF A
  <2> QED
    BY <1>4, <2>1, WFMin
<1>6. PICK a \in A : \A y \in A : ~ (y < a)
  BY <1>4, <1>5 DEF Below
<1>7. ASSUME NEW b \in Alternatives PROVE RankedBefore(a, b)
  <2>1. score(b) <= score(a) /\ score(a) = best /\ a \in Alternatives
    BY <1>3, <1>6
  <2>2. score(b) = best => a <= b
    BY <1>6, <2>1
  <2> QED
    BY <1>1, <2>1, <2>2 DEF RankedBefore
<1>8. Preferred \in Alternatives /\ \A b \in Alternatives : RankedBefore(Preferred, b)
  <2>1. a \in Alternatives
    BY <1>6
  <2> HIDE DEF A
  <2> QED
    BY <1>7, <2>1 DEF Preferred
<1>9. ASSUME NEW c \in Alternatives, \A b \in Alternatives : RankedBefore(c, b) PROVE c = Preferred
  <2>1. RankedBefore(c, Preferred) /\ RankedBefore(Preferred, c)
    BY <1>8, <1>9
  <2>2. score(c) \in Int /\ score(Preferred) \in Int /\ c \in Int /\ Preferred \in Int
    BY <1>1, <1>8
  <2> QED
    BY <2>1, <2>2 DEF RankedBefore
<1> QED
  BY <1>8, <1>9

OnlyOneIsPreferred ==
  \A x \in Alternatives : (\A b \in Alternatives : RankedBefore(x, b)) => x = Preferred

LEMMA OnePreferred == EvalInv => OnlyOneIsPreferred
  BY PreferredIsOne DEF OnlyOneIsPreferred

\* An alternative that gains does not lose by it, and one that turns more urgent does not gain.
LEMMA GainRaises ==
  ASSUME EvalInv, NEW a \in Alternatives
  PROVE  /\ (GainEvidence(a) \/ GainConfidence(a) \/ GainEntity(a)) =>
              Overall(decision[a]) <= Overall(decision'[a])
         /\ Escalate(a) => Overall(decision'[a]) <= Overall(decision[a])
<1> DEFINE d == decision[a]
           e == decision'[a]
<1>1. d \in DecisionFacts
  BY DEF EvalInv
<1>2. (GainEvidence(a) \/ GainConfidence(a) \/ GainEntity(a) \/ Escalate(a)) => e \in DecisionFacts
  BY EvalInvStep DEF EvalNext, EvalInv
<1>3. ASSUME GainEvidence(a) \/ GainConfidence(a) \/ GainEntity(a) PROVE NoWorse(d, e)
  <2>1. CASE GainEvidence(a)
    <3>1. e.priority = d.priority /\ e.confidence = d.confidence /\ e.affected = d.affected /\ e.evidence = TRUE
      BY <1>1, <2>1 DEF GainEvidence, Gain, EvalInv, DecisionFacts
    <3> QED
      BY <1>1, <3>1, PartsAreNumbers DEF NoWorse
  <2>2. CASE GainConfidence(a)
    <3>1. e.priority = d.priority /\ e.confidence >= d.confidence /\ e.affected = d.affected
          /\ e.evidence = d.evidence
      BY <1>1, <2>2, EvaluationAssumption DEF GainConfidence, Gain, EvalInv, DecisionFacts
    <3> QED
      BY <1>1, <3>1, PartsAreNumbers DEF NoWorse
  <2>3. CASE GainEntity(a)
    <3>1. e.priority = d.priority /\ e.confidence = d.confidence /\ d.affected \subseteq e.affected
          /\ e.evidence = d.evidence
      BY <1>1, <2>3 DEF GainEntity, Gain, EvalInv, DecisionFacts
    <3>2. Cardinality(d.affected) <= Cardinality(e.affected)
      BY <1>2, <1>3, <3>1, CountOfEntities DEF DecisionFacts
    <3> QED
      BY <1>1, <3>1, <3>2, PartsAreNumbers DEF NoWorse
  <2> QED
    BY <1>3, <2>1, <2>2, <2>3
<1>4. ASSUME Escalate(a) PROVE NoWorse(e, d)
  <2>1. e.priority = d.priority + 1 /\ e.confidence = d.confidence /\ e.affected = d.affected
        /\ e.evidence = d.evidence
    BY <1>1, <1>4 DEF Escalate, Gain, EvalInv, DecisionFacts
  <2> QED
    BY <1>1, <2>1, PartsAreNumbers DEF NoWorse
<1> QED
  BY <1>1, <1>2, <1>3, <1>4, ScoresCompare

LEMMA MonotoneStep == EvalInv /\ [EvalNext]_evalVars => ComparisonIsMonotone
<1> SUFFICES ASSUME EvalInv, EvalNext, NEW a \in Alternatives
             PROVE  /\ (Preferred = a /\ (GainEvidence(a) \/ GainConfidence(a) \/ GainEntity(a))) =>
                          Preferred' = a
                    /\ (Preferred # a /\ Escalate(a)) => Preferred' # a
  BY DEF ComparisonIsMonotone
<1>1. EvalInv'
  BY EvalInvStep
<1>2. PICK p \in Alternatives : p = Preferred /\ \A b \in Alternatives : RankedBefore(p, b)
  BY PreferredIsOne
<1>3. \A b \in Alternatives : Overall(decision[b]) \in Int /\ Overall(decision'[b]) \in Int
  BY <1>1, OverallOfParts DEF EvalInv
<1>4. ASSUME NEW b \in Alternatives, GainEvidence(a) \/ GainConfidence(a) \/ GainEntity(a) \/ Escalate(a)
      PROVE  b # a => decision'[b] = decision[b]
  BY <1>4 DEF GainEvidence, GainConfidence, GainEntity, Escalate, Gain, EvalInv
<1>5. (\A b \in Alternatives : RankedBefore(p, b)') => Preferred' = p
  <2>1. OnlyOneIsPreferred'
    BY <1>1, OnePreferred, PTL
  <2> QED
    BY <1>2, <2>1 DEF OnlyOneIsPreferred
<1>6. CASE p = a /\ (GainEvidence(a) \/ GainConfidence(a) \/ GainEntity(a))
  <2>1. Overall(decision[a]) <= Overall(decision'[a])
    BY <1>6, GainRaises
  <2>2. ASSUME NEW b \in Alternatives PROVE RankedBefore(p, b)'
    BY <1>2, <1>3, <1>4, <1>6, <2>1 DEF RankedBefore
  <2> QED
    BY <1>2, <1>5, <1>6, <2>2
<1>7. CASE p # a /\ Escalate(a)
  <2>1. Overall(decision'[a]) <= Overall(decision[a])
    BY <1>7, GainRaises
  <2>2. ASSUME NEW b \in Alternatives PROVE RankedBefore(p, b)'
    BY <1>2, <1>3, <1>4, <1>7, <2>1 DEF RankedBefore
  <2> QED
    BY <1>2, <1>5, <1>7, <2>2
<1> QED
  BY <1>2, <1>6, <1>7

LEMMA BlocksStep == EvalInv /\ [EvalNext]_evalVars => BlocksAreKept
<1> SUFFICES ASSUME EvalInv, EvalNext, NEW a \in Alternatives, NEW c \in constraints,
                    PolicyMatches(decision[a], c), decision'[a].priority = decision[a].priority
             PROVE  c \in constraints' /\ PolicyMatches(decision'[a], c)
  BY DEF BlocksAreKept, PolicyBlocks
<1>1. c \in constraints' /\ decision[a].affected \subseteq decision'[a].affected
  <2>1. CASE Constrain
    BY <2>1 DEF Constrain
  <2>2. CASE \E b \in Alternatives : GainEvidence(b) \/ GainConfidence(b) \/ GainEntity(b) \/ Escalate(b)
    <3>1. PICK b \in Alternatives : GainEvidence(b) \/ GainConfidence(b) \/ GainEntity(b) \/ Escalate(b)
      BY <2>2
    <3>2. constraints' = constraints
      BY <3>1 DEF GainEvidence, GainConfidence, GainEntity, Escalate, Gain
    <3>3. CASE b # a
      BY <3>1, <3>2, <3>3 DEF GainEvidence, GainConfidence, GainEntity, Escalate, Gain, EvalInv
    <3>4. CASE b = a
      BY <3>1, <3>2, <3>4
         DEF GainEvidence, GainConfidence, GainEntity, Escalate, Gain, EvalInv, DecisionFacts
    <3> QED
      BY <3>3, <3>4
  <2> QED
    BY <2>1, <2>2 DEF EvalNext
<1> QED
  BY <1>1 DEF PolicyMatches

LEMMA EvalInvImplies == EvalInv => EvalTypeOK /\ UrgencyIsOutweighed
<1> SUFFICES ASSUME EvalInv PROVE EvalTypeOK /\ UrgencyIsOutweighed
  OBVIOUS
<1>1. EvalTypeOK
  BY OverallOfParts DEF EvalInv, EvalTypeOK
<1> DEFINE a == Preferred
<1>2. ASSUME NEW b \in Alternatives, decision[a].priority > decision[b].priority, decision[a].priority >= 3,
             ~ (decision[a].evidence /\ ~decision[b].evidence),
             ~ (decision[a].confidence > decision[b].confidence),
             ~ (Cardinality(decision[a].affected) > Cardinality(decision[b].affected))
      PROVE  FALSE
  <2>1. a \in Alternatives /\ RankedBefore(a, b)
    BY PreferredIsOne
  <2>2. decision[a] \in DecisionFacts /\ decision[b] \in DecisionFacts
    BY <2>1 DEF EvalInv
  <2>3. decision[b].priority < decision[a].priority /\ NoWorse(decision[a], decision[b])
    BY <1>2, <2>2, PartsAreNumbers DEF NoWorse
  <2>4. Overall(decision[a]) < Overall(decision[b])
    BY <1>2, <2>2, <2>3, ScoresCompare
  <2>5. Overall(decision[a]) \in Int /\ Overall(decision[b]) \in Int
    BY <2>2, OverallOfParts
  <2> QED
    BY <2>1, <2>4, <2>5 DEF RankedBefore
<1>3. UrgencyIsOutweighed
  BY <1>2 DEF UrgencyIsOutweighed
<1> QED
  BY <1>1, <1>3

-----------------------------------------------------------------------------
(* Layers of a graph.                                                        *)

\* What a round completes, from what the round before it did.
RoundStep(f, nodes, dep, k) == IF k = 0 THEN {} ELSE f[k - 1] \cup ReadyNodes(nodes, dep, f[k - 1])

AreRounds(f, nodes, dep, m) == f = [k \in 0 .. m |-> RoundStep(f, nodes, dep, k)]

LEMMA RoundsExist ==
  ASSUME NEW m \in Nat, NEW nodes, NEW dep
  PROVE  \E f : AreRounds(f, nodes, dep, m)
<1> DEFINE S == {n \in Nat : \E f : /\ f = [k \in 0 .. m |-> f[k]]
                                    /\ \A k \in 0 .. m : k <= n => f[k] = RoundStep(f, nodes, dep, k)}
<1>1. 0 \in S
  <2> DEFINE f == [k \in 0 .. m |-> {}]
  <2>1. \A k \in 0 .. m : k <= 0 => f[k] = RoundStep(f, nodes, dep, k)
    BY DEF RoundStep
  <2> QED
    BY <2>1
<1>2. ASSUME NEW n \in S PROVE n + 1 \in S
  <2>1. PICK f : /\ f = [k \in 0 .. m |-> f[k]]
                 /\ \A k \in 0 .. m : k <= n => f[k] = RoundStep(f, nodes, dep, k)
    OBVIOUS
  <2> DEFINE g == [k \in 0 .. m |-> RoundStep(f, nodes, dep, k)]
  <2>2. ASSUME NEW k \in 0 .. m, k <= n + 1 PROVE g[k] = RoundStep(g, nodes, dep, k)
    <3>1. CASE k = 0
      BY <3>1 DEF RoundStep
    <3>2. CASE k # 0
      <4>1. k - 1 \in 0 .. m /\ k - 1 <= n
        BY <2>2, <3>2, n \in Nat
      <4>2. g[k - 1] = f[k - 1]
        BY <2>1, <4>1
      <4> QED
        BY <3>2, <4>2 DEF RoundStep
    <3> QED
      BY <3>1, <3>2
  <2> HIDE DEF g
  <2>3. g = [k \in 0 .. m |-> g[k]]
    BY DEF g
  <2>4. n + 1 \in Nat
    OBVIOUS
  <2> QED
    BY <2>2, <2>3, <2>4
<1>3. S = Nat
  <2> HIDE DEF S
  <2>1. S \in SUBSET Nat
    BY DEF S
  <2> QED
    BY <1>1, <1>2, <2>1, Induction
<1> QED
  <2>1. m \in S
    BY <1>3
  <2>2. PICK f : /\ f = [k \in 0 .. m |-> f[k]]
                 /\ \A k \in 0 .. m : k <= m => f[k] = RoundStep(f, nodes, dep, k)
    BY <2>1
  <2> QED
    BY <2>2 DEF AreRounds

LEMMA RoundsAre ==
  ASSUME NEW nodes, NEW dep, NEW m \in Nat, Cardinality(nodes) = m
  PROVE  /\ Rounds(nodes, dep)[0] = {}
         /\ \A k \in 1 .. m : Rounds(nodes, dep)[k] =
              Rounds(nodes, dep)[k - 1] \cup ReadyNodes(nodes, dep, Rounds(nodes, dep)[k - 1])
<1> DEFINE P(g) == g = [k \in 0 .. m |-> RoundStep(g, nodes, dep, k)]
           R == Rounds(nodes, dep)
<1>1. R = (CHOOSE g : P(g))
  BY DEF Rounds, RoundStep
<1>2. PICK f : AreRounds(f, nodes, dep, m)
  BY RoundsExist
<1>3. P(R)
  <2>1. P(f)
    BY <1>2 DEF AreRounds
  <2> HIDE DEF P, R
  <2> QED
    BY <1>1, <2>1
<1> HIDE DEF R
<1>4. \A k \in 0 .. m : R[k] = RoundStep(R, nodes, dep, k)
  BY <1>3
<1>5. R[0] = {}
  <2>1. R[0] = RoundStep(R, nodes, dep, 0)
    BY <1>4
  <2> QED
    BY <2>1 DEF RoundStep
<1>6. ASSUME NEW k \in 1 .. m PROVE R[k] = R[k - 1] \cup ReadyNodes(nodes, dep, R[k - 1])
  <2>1. k \in 0 .. m /\ k # 0
    OBVIOUS
  <2>2. R[k] = RoundStep(R, nodes, dep, k)
    BY <1>4, <2>1
  <2> QED
    BY <2>1, <2>2 DEF RoundStep
<1> QED
  BY <1>5, <1>6 DEF R

\* What the rounds say of a finite graph: they only add nodes of it, and a node is added after
\* all that it depends on.
RoundsGrow(nodes, dep, m) ==
  /\ Rounds(nodes, dep)[0] = {}
  /\ \A k \in 0 .. m : Rounds(nodes, dep)[k] \subseteq nodes
  /\ \A k \in 1 .. m : Rounds(nodes, dep)[k] =
       Rounds(nodes, dep)[k - 1] \cup ReadyNodes(nodes, dep, Rounds(nodes, dep)[k - 1])
  /\ \A j, k \in 0 .. m : j <= k => Rounds(nodes, dep)[j] \subseteq Rounds(nodes, dep)[k]

LEMMA RoundsAlwaysGrow ==
  ASSUME NEW nodes, NEW dep, NEW m \in Nat, Cardinality(nodes) = m
  PROVE  RoundsGrow(nodes, dep, m)
<1> DEFINE R == Rounds(nodes, dep)
<1>1. R[0] = {} /\ \A k \in 1 .. m : R[k] = R[k - 1] \cup ReadyNodes(nodes, dep, R[k - 1])
  BY RoundsAre
<1> HIDE DEF R
<1> DEFINE S == {n \in Nat : n <= m => R[n] \subseteq nodes /\ \A j \in 0 .. n : R[j] \subseteq R[n]}
<1>2. 0 \in S
  BY <1>1
<1>3. ASSUME NEW n \in S PROVE n + 1 \in S
  <2>1. CASE n + 1 <= m
    <3>1. R[n + 1] = R[n] \cup ReadyNodes(nodes, dep, R[n])
      <4>1. n + 1 \in 1 .. m /\ (n + 1) - 1 = n
        BY <2>1
      <4> QED
        BY <1>1, <4>1
    <3>2. R[n + 1] \subseteq nodes
      BY <2>1, <3>1 DEF ReadyNodes
    <3>3. ASSUME NEW j \in 0 .. n + 1 PROVE R[j] \subseteq R[n + 1]
      <4>1. CASE j = n + 1
        BY <4>1
      <4>2. CASE j \in 0 .. n
        BY <2>1, <3>1, <4>2
      <4> QED
        BY <4>1, <4>2
    <3> QED
      BY <3>2, <3>3
  <2> QED
    BY <2>1
<1>4. S = Nat
  <2>1. S \in SUBSET Nat
    OBVIOUS
  <2> HIDE DEF S
  <2> QED
    BY <1>2, <1>3, <2>1, Induction
<1>5. \A k \in 0 .. m : R[k] \subseteq nodes /\ \A j \in 0 .. k : R[j] \subseteq R[k]
  BY <1>4
<1> HIDE DEF S
<1>6. \A j, k \in 0 .. m : j <= k => R[j] \subseteq R[k]
  BY <1>5
<1> QED
  BY <1>1, <1>5, <1>6 DEF RoundsGrow, R

\* After as many rounds as there are nodes nothing is ready that is not reached.
LEMMA NothingIsLeft ==
  ASSUME NEW nodes, NEW dep, IsFiniteSet(nodes)
  PROVE  ReadyNodes(nodes, dep, Reached(nodes, dep)) \subseteq Reached(nodes, dep)
<1>1. PICK m \in Nat : m = Cardinality(nodes)
  BY FS_CardinalityType
<1> DEFINE R == Rounds(nodes, dep)
<1>2. /\ \A k \in 0 .. m : R[k] \subseteq nodes
      /\ \A k \in 1 .. m : R[k] = R[k - 1] \cup ReadyNodes(nodes, dep, R[k - 1])
  BY <1>1, RoundsAlwaysGrow DEF RoundsGrow
<1> HIDE DEF R
<1>3. \A k \in 0 .. m : IsFiniteSet(R[k]) /\ Cardinality(R[k]) \in Nat
  BY <1>2, FS_Subset, FS_CardinalityType
<1> DEFINE Closed(k) == ReadyNodes(nodes, dep, R[k]) \subseteq R[k]
           S == {n \in Nat : n <= m => Closed(n) \/ Cardinality(R[n]) >= n}
<1>4. 0 \in S
  BY <1>3
<1>5. ASSUME NEW n \in S PROVE n + 1 \in S
  <2>1. CASE n + 1 <= m
    <3>1. R[n + 1] = R[n] \cup ReadyNodes(nodes, dep, R[n])
      <4>1. n + 1 \in 1 .. m /\ (n + 1) - 1 = n
        BY <2>1
      <4> QED
        BY <1>2, <4>1
    <3>2. CASE Closed(n)
      <4>1. R[n + 1] = R[n]
        BY <3>1, <3>2
      <4> QED
        BY <3>2, <4>1
    <3>3. CASE ~Closed(n)
      <4>1. n \in 0 .. m /\ n + 1 \in 0 .. m /\ Cardinality(R[n]) >= n
        BY <2>1, <3>3
      <4>2. R[n] \subseteq R[n + 1] /\ R[n] # R[n + 1]
        BY <3>1, <3>3
      <4>3. Cardinality(R[n]) <= Cardinality(R[n + 1]) /\ Cardinality(R[n]) # Cardinality(R[n + 1])
        BY <1>3, <4>1, <4>2, FS_Subset
      <4> QED
        BY <1>3, <4>1, <4>3
    <3> QED
      BY <3>2, <3>3
  <2> QED
    BY <2>1
<1>6. S = Nat
  <2>1. S \in SUBSET Nat
    OBVIOUS
  <2> HIDE DEF S
  <2> QED
    BY <1>4, <1>5, <2>1, Induction
<1>7. Closed(m) \/ Cardinality(R[m]) >= m
  BY <1>6
<1>8. CASE Cardinality(R[m]) >= m
  <2>1. R[m] \subseteq nodes /\ Cardinality(R[m]) <= Cardinality(nodes) /\ Cardinality(R[m]) \in Nat
    BY <1>2, <1>3, FS_Subset
  <2>2. R[m] = nodes
    BY <1>1, <1>8, <2>1, FS_Subset
  <2> QED
    BY <1>1, <2>2 DEF ReadyNodes, Reached, R
<1> QED
  BY <1>1, <1>7, <1>8 DEF Reached, R

\* No member of a circle is ever reached.
LEMMA CirclesAreNotReached ==
  ASSUME NEW nodes, NEW dep, NEW m \in Nat, Cardinality(nodes) = m, NEW C \in Circles(nodes, dep)
  PROVE  \A k \in 0 .. m : Rounds(nodes, dep)[k] \cap C = {}
<1> DEFINE R == Rounds(nodes, dep)
<1>1. R[0] = {} /\ \A k \in 1 .. m : R[k] = R[k - 1] \cup ReadyNodes(nodes, dep, R[k - 1])
  BY RoundsAlwaysGrow DEF RoundsGrow
<1> HIDE DEF R
<1> DEFINE S == {n \in Nat : n <= m => R[n] \cap C = {}}
<1>2. 0 \in S
  BY <1>1
<1>3. ASSUME NEW n \in S PROVE n + 1 \in S
  <2>1. CASE n + 1 <= m
    <3>1. R[n + 1] = R[n] \cup ReadyNodes(nodes, dep, R[n])
      <4>1. n + 1 \in 1 .. m /\ (n + 1) - 1 = n
        BY <2>1
      <4> QED
        BY <1>1, <4>1
    <3>2. R[n] \cap C = {}
      BY <2>1
    <3>3. ASSUME NEW x \in C, x \in ReadyNodes(nodes, dep, R[n]) PROVE FALSE
      BY <3>2, <3>3 DEF ReadyNodes, Circles
    <3> QED
      BY <3>1, <3>2, <3>3
  <2> QED
    BY <2>1
<1>4. S = Nat
  <2>1. S \in SUBSET Nat
    OBVIOUS
  <2> HIDE DEF S
  <2> QED
    BY <1>2, <1>3, <2>1, Induction
<1> QED
  BY <1>4 DEF R

\* What is not reached is what depends, over any number of nodes, on a circle.
LEMMA UnreachedIsCircular ==
  ASSUME NEW nodes, NEW dep, IsFiniteSet(nodes), \A x \in nodes : dep[x] \subseteq nodes
  PROVE  /\ nodes \ Reached(nodes, dep) = UNION Circles(nodes, dep)
         /\ Reached(nodes, dep) = nodes <=> Circles(nodes, dep) = {}
<1>1. PICK m \in Nat : m = Cardinality(nodes)
  BY FS_CardinalityType
<1> DEFINE T == nodes \ Reached(nodes, dep)
<1>2. Reached(nodes, dep) \subseteq nodes
  <2>1. m \in 0 .. m
    OBVIOUS
  <2> QED
    BY <1>1, <2>1, RoundsAlwaysGrow DEF Reached, RoundsGrow
<1>3. ASSUME NEW x \in T PROVE dep[x] \cap T # {}
  BY NothingIsLeft DEF ReadyNodes
<1>4. T # {} => T \in Circles(nodes, dep)
  BY <1>3 DEF Circles
<1>5. ASSUME NEW C \in Circles(nodes, dep) PROVE C # {} /\ C \subseteq T
  <2>1. C \subseteq nodes /\ C # {}
    BY DEF Circles
  <2>2. m \in 0 .. m
    OBVIOUS
  <2>3. Rounds(nodes, dep)[m] \cap C = {}
    BY <1>1, <2>2, CirclesAreNotReached
  <2> QED
    BY <1>1, <2>1, <2>3 DEF Reached
<1> HIDE DEF T
<1>6. T = UNION Circles(nodes, dep)
  BY <1>4, <1>5
<1>7. T = {} <=> Circles(nodes, dep) = {}
  BY <1>4, <1>5
<1> QED
  BY <1>2, <1>6, <1>7 DEF T

\* A node that is reached has one level, above the levels of all that it depends on.
LEMMA LevelsAscend ==
  ASSUME NEW nodes, NEW dep, IsFiniteSet(nodes), NEW x \in Reached(nodes, dep)
  PROVE  /\ Level(nodes, dep, x) \in Nat \ {0}
         /\ \A d \in dep[x] : d \in Reached(nodes, dep) /\ Level(nodes, dep, d) < Level(nodes, dep, x)
<1>1. PICK m \in Nat : m = Cardinality(nodes)
  BY FS_CardinalityType
<1> DEFINE R == Rounds(nodes, dep)
           At(k, y) == y \in R[k] /\ y \notin R[k - 1]
<1>2. /\ R[0] = {}
      /\ \A k \in 1 .. m : R[k] = R[k - 1] \cup ReadyNodes(nodes, dep, R[k - 1])
      /\ \A j, k \in 0 .. m : j <= k => R[j] \subseteq R[k]
      /\ Reached(nodes, dep) = R[m]
  BY <1>1, RoundsAlwaysGrow DEF RoundsGrow, Reached
<1>3. \A y : Level(nodes, dep, y) = CHOOSE k \in 1 .. m : At(k, y)
  BY <1>1 DEF Level
<1> HIDE DEF R
<1>4. ASSUME NEW y, NEW n \in 0 .. m, y \in R[n] PROVE \E k \in 1 .. m : At(k, y) /\ k <= n
  <2> DEFINE A == {k \in Nat : k <= m /\ y \in R[k]}
  <2>1. n \in A
    BY <1>4
  <2>2. A \subseteq Nat /\ IsWellFoundedOn(Below, Nat)
    BY NatLessThanWellFounded DEF OpToRel, Below
  <2>3. \E z \in A : \A w \in A : ~ (<<w, z>> \in Below)
    <3> HIDE DEF A
    <3> QED
      BY <2>1, <2>2, WFMin
  <2>4. PICK z \in A : \A w \in A : ~ (w < z)
    BY <2>3 DEF Below
  <2>5. z # 0
    BY <1>2, <2>4
  <2>6. z - 1 \in Nat /\ z - 1 < z /\ z - 1 <= m
    BY <2>4, <2>5, <1>1
  <2>7. z - 1 \notin A
    BY <2>4, <2>6
  <2>8. z \in 1 .. m /\ At(z, y)
    BY <2>4, <2>5, <2>6, <2>7
  <2>9. z <= n
    BY <2>1, <2>4
  <2> QED
    BY <2>8, <2>9
<1>5. ASSUME NEW y, NEW j \in 1 .. m, NEW k \in 1 .. m, At(j, y), At(k, y) PROVE j = k
  <2>1. ASSUME NEW a \in 1 .. m, NEW b \in 1 .. m, At(a, y), At(b, y) PROVE ~ (a < b)
    <3>1. SUFFICES ASSUME a < b PROVE FALSE
      OBVIOUS
    <3>2. a \in 0 .. m /\ b - 1 \in 0 .. m /\ a <= b - 1
      BY <3>1
    <3> QED
      BY <1>2, <2>1, <3>2
  <2> QED
    BY <1>5, <2>1
<1>6. ASSUME NEW y, NEW n \in 0 .. m, y \in R[n]
      PROVE  /\ Level(nodes, dep, y) \in 1 .. m /\ Level(nodes, dep, y) <= n
             /\ At(Level(nodes, dep, y), y)
  <2>1. PICK k \in 1 .. m : At(k, y) /\ k <= n
    BY <1>4, <1>6
  <2> HIDE DEF At
  <2>2. Level(nodes, dep, y) = k
    BY <1>3, <1>5, <2>1
  <2> QED
    BY <2>1, <2>2
<1>7. PICK k \in 1 .. m : k = Level(nodes, dep, x) /\ At(k, x)
  <2>1. m \in 0 .. m /\ x \in R[m]
    BY <1>2
  <2> QED
    BY <1>6, <2>1
<1>8. dep[x] \subseteq R[k - 1]
  BY <1>2, <1>7 DEF ReadyNodes
<1>9. ASSUME NEW d \in dep[x]
      PROVE  d \in Reached(nodes, dep) /\ Level(nodes, dep, d) < Level(nodes, dep, x)
  <2>1. k - 1 \in 0 .. m /\ d \in R[k - 1] /\ m \in 0 .. m /\ k - 1 <= m
    BY <1>7, <1>8
  <2>2. Level(nodes, dep, d) \in 1 .. m /\ Level(nodes, dep, d) <= k - 1
    BY <1>6, <2>1
  <2>3. d \in R[m]
    BY <1>2, <2>1
  <2> QED
    BY <1>2, <1>7, <2>2, <2>3
<1> QED
  BY <1>7, <1>9

-----------------------------------------------------------------------------
(* The order of the actions of a plan.                                       *)

LEMMA ActionsAreFinite ==
  IsFiniteSet(Actions) /\ Cardinality(Actions) = ActionCount /\ ActionCount \in Nat \ {0}
<1>1. ActionCount \in Nat \ {0}
  BY OrderingAssumption
<1> QED
  BY <1>1, FS_Interval DEF Actions

\* A numbering of the actions can be turned into an order of them, the smaller id first.
Earlier(K, a, b) == K[a] < K[b] \/ (K[a] = K[b] /\ Before(a, b))

LEMMA OrderExists ==
  ASSUME NEW K \in [Actions -> Nat]
  PROVE  \E order \in [Actions -> Actions] :
           \A i, j \in Actions : i < j => Earlier(K, order[i], order[j])
<1> DEFINE lower(a) == {b \in Actions : Earlier(K, b, a)}
           rank == [a \in Actions |-> Cardinality(lower(a)) + 1]
<1>0. /\ Actions \subseteq Nat /\ IdRank \in [Actions -> Nat]
      /\ \A a, b \in Actions : IdRank[a] = IdRank[b] => a = b
  BY OrderingAssumption DEF Actions
<1>1. \A a, b \in Actions : a # b => Earlier(K, a, b) \/ Earlier(K, b, a)
  BY <1>0 DEF Earlier, Before
<1>2. \A a, b, c \in Actions : Earlier(K, a, b) /\ Earlier(K, b, c) => Earlier(K, a, c)
  BY <1>0 DEF Earlier, Before
<1>3. \A a \in Actions : ~Earlier(K, a, a)
  BY <1>0 DEF Earlier, Before
<1>4. \A a \in Actions : IsFiniteSet(lower(a)) /\ Cardinality(lower(a)) \in Nat
  BY ActionsAreFinite, FS_Subset, FS_CardinalityType
<1>5. ASSUME NEW a \in Actions PROVE rank[a] \in Actions
  <2>1. lower(a) \subseteq Actions \ {a}
    BY <1>3
  <2>2. IsFiniteSet(Actions \ {a}) /\ Cardinality(Actions \ {a}) = ActionCount - 1
    BY ActionsAreFinite, FS_RemoveElement
  <2>3. Cardinality(lower(a)) <= ActionCount - 1
    BY <2>1, <2>2, FS_Subset
  <2>4. PICK c \in Nat : c = Cardinality(lower(a))
    BY <1>4
  <2>5. rank[a] = c + 1
    BY <2>4
  <2>6. c + 1 \in 1 .. ActionCount
    BY <2>3, <2>4, ActionsAreFinite
  <2> QED
    BY <2>5, <2>6 DEF Actions
<1>6. ASSUME NEW a \in Actions, NEW b \in Actions, Earlier(K, a, b) PROVE rank[a] < rank[b]
  <2>1. lower(a) \subseteq lower(b) /\ a \in lower(b) /\ a \notin lower(a)
    BY <1>2, <1>3, <1>6
  <2>2. Cardinality(lower(a)) <= Cardinality(lower(b)) /\ Cardinality(lower(a)) # Cardinality(lower(b))
    BY <1>4, <2>1, FS_Subset
  <2>3. PICK c \in Nat, e \in Nat : c = Cardinality(lower(a)) /\ e = Cardinality(lower(b))
    BY <1>4
  <2>4. rank[a] = c + 1 /\ rank[b] = e + 1
    BY <2>3
  <2> QED
    BY <2>2, <2>3, <2>4
<1> HIDE DEF rank, lower
<1>7. rank \in [Actions -> Actions]
  BY <1>5 DEF rank
<1>8. rank \in Injection(Actions, Actions)
  <2>1. ASSUME NEW a \in Actions, NEW b \in Actions, rank[a] = rank[b], a # b PROVE FALSE
    <3>1. rank[a] \in Int
      <4>1. rank[a] \in Actions
        BY <1>7
      <4>2. \A z \in Actions : z \in Int
        BY <1>0
      <4> QED
        BY <4>1, <4>2
    <3>2. rank[a] < rank[b] \/ rank[b] < rank[a]
      <4>1. CASE Earlier(K, a, b)
        BY <1>6, <4>1
      <4>2. CASE Earlier(K, b, a)
        BY <1>6, <4>2
      <4> QED
        BY <1>1, <2>1, <4>1, <4>2
    <3> QED
      BY <2>1, <3>1, <3>2
  <2> QED
    BY <1>7, <2>1 DEF Injection, IsInjective
<1>9. \A i \in Actions : \E a \in Actions : rank[a] = i
  <2>1. rank \in Surjection(Actions, Actions)
    BY <1>8, ActionsAreFinite, FS_Injection
  <2> QED
    BY <2>1 DEF Surjection
<1> DEFINE order == [i \in Actions |-> CHOOSE a \in Actions : rank[a] = i]
<1>10. \A i \in Actions : order[i] \in Actions /\ rank[order[i]] = i
  BY <1>9
<1>11. order \in [Actions -> Actions]
  BY <1>10
<1> HIDE DEF order
<1>12. ASSUME NEW i \in Actions, NEW j \in Actions, i < j PROVE Earlier(K, order[i], order[j])
  <2>1. order[i] # order[j]
    BY <1>0, <1>10, <1>12
  <2>2. ~Earlier(K, order[j], order[i])
    <3>1. SUFFICES ASSUME Earlier(K, order[j], order[i]) PROVE FALSE
      OBVIOUS
    <3>2. rank[order[j]] < rank[order[i]]
      BY <1>6, <1>10, <3>1
    <3> QED
      BY <1>0, <1>10, <1>12, <3>2
  <2> QED
    BY <1>1, <1>10, <2>1, <2>2
<1> QED
  BY <1>11, <1>12

PlansAreTyped ==
  /\ deps \in [Actions -> SUBSET (Actions \cup {Foreign})]
  /\ target \in [Actions -> Targets]

LEMMA OwnDependencies ==
  ASSUME PlansAreTyped, MissingDependencies = {}
  PROVE  \A a \in Actions : deps[a] \subseteq Actions
<1> SUFFICES ASSUME NEW a \in Actions, NEW d \in deps[a] PROVE d \in Actions
  OBVIOUS
<1>1. d \in UNION {deps[x] : x \in Actions}
  OBVIOUS
<1> QED
  BY <1>1 DEF MissingDependencies

\* The order of a plan that has one: every action once, after all that it depends on.
OrderFacts ==
  /\ OrderedActions \in [Actions -> Actions]
  /\ \A i, j \in Actions : OrderedActions[i] = OrderedActions[j] => i = j
  /\ \A a \in Actions : \E i \in Actions : OrderedActions[i] = a
  /\ \A i, j \in Actions : OrderedActions[i] \in deps[OrderedActions[j]] => i < j

LEMMA OrderIsRight ==
  ASSUME PlansAreTyped, Ordered
  PROVE  OrderFacts
<1> DEFINE K == [a \in Actions |-> Level(Actions, deps, a)]
           sorted(order) == \A i, j \in Actions : i < j => Precedes(order[i], order[j])
<1>0. Actions \subseteq Nat /\ IdRank \in [Actions -> Nat]
  BY OrderingAssumption DEF Actions
<1>1. Reached(Actions, deps) = Actions /\ IsFiniteSet(Actions)
  BY ActionsAreFinite DEF Ordered
<1>2. \A a \in Actions : /\ Level(Actions, deps, a) \in Nat
                         /\ \A d \in deps[a] : Level(Actions, deps, d) < Level(Actions, deps, a)
  BY <1>1, LevelsAscend
<1>3. K \in [Actions -> Nat]
  BY <1>2
<1>4. \A a, b \in Actions : Precedes(a, b) <=> Earlier(K, a, b)
  BY DEF Precedes, Earlier
<1>5. PICK order \in [Actions -> Actions] :
             \A i, j \in Actions : i < j => Earlier(K, order[i], order[j])
  BY <1>3, OrderExists
<1>6. sorted(order)
  BY <1>4, <1>5
<1>7. OrderedActions = CHOOSE q \in [Actions -> Actions] : sorted(q)
  BY DEF OrderedActions
<1>8. OrderedActions \in [Actions -> Actions] /\ sorted(OrderedActions)
  <2> HIDE DEF sorted
  <2> QED
    BY <1>5, <1>6, <1>7
<1>9. PICK o : o = OrderedActions
  OBVIOUS
<1>10. o \in [Actions -> Actions] /\ \A i, j \in Actions : i < j => Precedes(o[i], o[j])
  BY <1>8, <1>9
<1> HIDE DEF sorted, K
<1>11. ASSUME NEW i \in Actions, NEW j \in Actions, i < j
       PROVE  o[i] # o[j] /\ o[j] \notin deps[o[i]]
  <2>1. o[i] \in Actions /\ o[j] \in Actions /\ Precedes(o[i], o[j])
    BY <1>10, <1>11
  <2>2. \/ Level(Actions, deps, o[i]) < Level(Actions, deps, o[j])
        \/ Level(Actions, deps, o[i]) = Level(Actions, deps, o[j]) /\ Before(o[i], o[j])
    BY <2>1 DEF Precedes
  <2>3. PICK k \in Nat, l \in Nat : k = Level(Actions, deps, o[i]) /\ l = Level(Actions, deps, o[j])
    BY <1>2, <2>1
  <2>4. o[j] \notin deps[o[i]]
    BY <1>2, <2>1, <2>2, <2>3
  <2>5. ~Before(o[i], o[i])
    <3>1. \A x \in Actions : ~Before(x, x)
      BY <1>0 DEF Before
    <3> QED
      BY <2>1, <3>1
  <2> QED
    BY <2>2, <2>3, <2>4, <2>5
<1>12. \A i, j \in Actions : o[i] = o[j] => i = j
  BY <1>0, <1>11
<1>13. \A i, j \in Actions : o[i] \in deps[o[j]] => i < j
  <2>1. \A i \in Actions : o[i] \notin deps[o[i]]
    BY <1>2, <1>10
  <2> QED
    BY <1>0, <1>11, <2>1
<1>14. \A a \in Actions : \E i \in Actions : o[i] = a
  <2>1. o \in Injection(Actions, Actions)
    BY <1>10, <1>12 DEF Injection, IsInjective
  <2>2. o \in Surjection(Actions, Actions)
    BY <2>1, ActionsAreFinite, FS_Injection
  <2> QED
    BY <2>2 DEF Surjection
<1> QED
  BY <1>9, <1>10, <1>12, <1>13, <1>14 DEF OrderFacts

\* It is a sequence, and there is none of a plan without an order.
LEMMA OrderIsSequence ==
  ASSUME PlansAreTyped
  PROVE  /\ OrderedActions \in Seq(Actions)
         /\ Len(OrderedActions) = (IF Ordered THEN ActionCount ELSE 0)
<1>1. CASE Ordered
  <2>1. PICK o : o = OrderedActions
    OBVIOUS
  <2>2. o \in [1 .. ActionCount -> Actions] /\ ActionCount \in Nat
    BY <1>1, <2>1, OrderIsRight, ActionsAreFinite DEF OrderFacts, Actions
  <2>3. o \in Seq(Actions) /\ Len(o) = ActionCount
    BY <2>2, SeqDef
  <2> QED
    BY <1>1, <2>1, <2>3
<1>2. CASE ~Ordered
  BY <1>2 DEF OrderedActions
<1> QED
  BY <1>1, <1>2

\* What is committed is the beginning of the order; a failure is compensated from its end, and
\* what is undone is the beginning of that.
OrderInv ==
  /\ PlansAreTyped
  /\ committed \in Seq(Actions) /\ rollback \in Seq(Actions)
  /\ failed \in Actions \cup {NoAction}
  /\ Len(committed) <= Len(OrderedActions)
  /\ \A i \in 1 .. Len(committed) : committed[i] = OrderedActions[i]
  /\ Len(rollback) = IF failed = NoAction THEN 0 ELSE Len(committed)
  /\ \A i \in 1 .. Len(rollback) : rollback[i] = committed[Len(committed) - i + 1]
  /\ undone \subseteq Actions /\ Cardinality(undone) <= Len(rollback)
  /\ undone = {rollback[i] : i \in 1 .. Cardinality(undone)}

LEMMA UndoneIsCounted == ASSUME undone \subseteq Actions
                         PROVE  IsFiniteSet(undone) /\ Cardinality(undone) \in Nat
  BY ActionsAreFinite, FS_Subset, FS_CardinalityType

LEMMA CommittedIsOrdered ==
  ASSUME OrderInv, Len(committed) > 0
  PROVE  /\ Ordered /\ OrderFacts
         /\ \A i \in 1 .. Len(committed) : i \in Actions /\ committed[i] = OrderedActions[i]
         /\ \A i, j \in 1 .. Len(committed) : committed[i] = committed[j] => i = j
<1>1. PlansAreTyped /\ Len(committed) \in Nat
  BY DEF OrderInv
<1>2. Ordered /\ OrderFacts
  BY <1>1, OrderIsSequence, OrderIsRight DEF OrderInv
<1>3. \A i \in 1 .. Len(committed) : i \in Actions /\ committed[i] = OrderedActions[i]
  BY <1>1, <1>2, OrderIsSequence, ActionsAreFinite DEF OrderInv, Actions
<1> QED
  BY <1>2, <1>3 DEF OrderFacts

LEMMA OrderInitInv == OrderInit => OrderInv
<1> SUFFICES ASSUME OrderInit PROVE OrderInv
  OBVIOUS
<1>1. PlansAreTyped
  BY DEF OrderInit, PlansAreTyped
<1>2. Len(OrderedActions) \in Nat
  BY <1>1, OrderIsSequence
<1>3. Cardinality({}) = 0
  BY FS_EmptySet
<1> QED
  BY <1>1, <1>2, <1>3 DEF OrderInit, OrderInv

LEMMA OrderInvStep == OrderInv /\ [OrderNext]_orderVars => OrderInv'
<1> SUFFICES ASSUME OrderInv, [OrderNext]_orderVars PROVE OrderInv'
  OBVIOUS
<1>1. UNCHANGED <<deps, target>>
  BY DEF OrderNext, orderVars, Commit, PlanRollback, Compensate
<1>2. PlansAreTyped' /\ OrderedActions' = OrderedActions
  BY <1>1 DEF OrderInv, PlansAreTyped, OrderedActions, Ordered, MissingDependencies, Precedes
<1>3. PICK o \in Seq(Actions) : o = OrderedActions
  BY OrderIsSequence DEF OrderInv
<1>4. IsFiniteSet(undone) /\ Cardinality(undone) \in Nat
  BY UndoneIsCounted DEF OrderInv
<1>5. CASE UNCHANGED orderVars
  BY <1>2, <1>5 DEF orderVars, OrderInv
<1>6. CASE Commit
  <2>1. /\ failed = NoAction /\ Len(committed) < Len(o) /\ UNCHANGED <<failed, rollback, undone>>
        /\ committed' = Append(committed, o[Len(committed) + 1])
    BY <1>3, <1>6 DEF Commit
  <2>2. o[Len(committed) + 1] \in Actions /\ committed \in Seq(Actions)
    BY <2>1 DEF OrderInv
  <2>3. /\ committed' \in Seq(Actions) /\ Len(committed') = Len(committed) + 1
        /\ \A i \in 1 .. Len(committed') : committed'[i] = o[i]
    BY <1>3, <2>1, <2>2 DEF OrderInv
  <2>4. Len(rollback) = 0
    BY <2>1 DEF OrderInv
  <2> QED
    BY <1>2, <1>3, <2>1, <2>2, <2>3, <2>4 DEF OrderInv
<1>7. CASE PlanRollback
  <2>1. /\ failed = NoAction /\ Len(committed) < Len(o) /\ UNCHANGED <<committed, undone>>
        /\ failed' = o[Len(committed) + 1] /\ rollback' = Reverse(committed)
    BY <1>3, <1>7 DEF PlanRollback, Compensations
  <2>2. failed' \in Actions /\ failed' # NoAction /\ committed \in Seq(Actions)
    BY <2>1, OrderingAssumption DEF OrderInv, Actions
  <2>3. /\ rollback' \in Seq(Actions) /\ Len(rollback') = Len(committed)
        /\ \A i \in 1 .. Len(rollback') : rollback'[i] = committed[Len(committed) - i + 1]
    BY <2>1, <2>2 DEF Reverse
  <2>4. Cardinality(undone) = 0
    BY <1>4, <2>1 DEF OrderInv
  <2>5. undone = {}
    BY <1>4, <2>4, FS_EmptySet
  <2> QED
    BY <1>2, <1>3, <2>1, <2>2, <2>3, <2>4, <2>5 DEF OrderInv
<1>8. CASE Compensate
  <2>1. PICK c \in Nat : c = Cardinality(undone)
    BY <1>4
  <2>2. /\ c < Len(rollback) /\ undone' = undone \cup {rollback[c + 1]}
        /\ UNCHANGED <<committed, failed, rollback>>
    BY <1>8, <2>1 DEF Compensate
  <2>3. Len(committed) > 0 /\ Len(committed) \in Nat /\ Len(rollback) = Len(committed)
    BY <2>1, <2>2 DEF OrderInv
  <2>4. \A i, j \in 1 .. Len(committed) : committed[i] = committed[j] => i = j
    BY <2>3, CommittedIsOrdered
  <2>5. ASSUME NEW i \in 1 .. Len(rollback), NEW j \in 1 .. Len(rollback), rollback[i] = rollback[j]
        PROVE  i = j
    <3> DEFINE k == Len(committed) - i + 1
               l == Len(committed) - j + 1
    <3>1. k \in 1 .. Len(committed) /\ l \in 1 .. Len(committed)
      BY <2>3, <2>5
    <3>2. rollback[i] = committed[k] /\ rollback[j] = committed[l]
      BY <2>5 DEF OrderInv
    <3>3. k = l
      <4> HIDE DEF k, l
      <4> QED
        BY <2>4, <2>5, <3>1, <3>2
    <3> QED
      BY <2>3, <3>3
  <2>6. undone = {rollback[i] : i \in 1 .. c} /\ rollback \in Seq(Actions)
    BY <2>1 DEF OrderInv
  <2>7. rollback[c + 1] \in Actions /\ rollback[c + 1] \notin undone
    BY <2>2, <2>3, <2>5, <2>6
  <2>8. Cardinality(undone') = c + 1
    BY <1>4, <2>1, <2>2, <2>7, FS_AddElement
  <2>9. undone' = {rollback[i] : i \in 1 .. c + 1}
    <3>1. 1 .. c + 1 = (1 .. c) \cup {c + 1}
      OBVIOUS
    <3> QED
      BY <2>2, <2>6, <3>1
  <2>10. undone' = {rollback'[i] : i \in 1 .. Cardinality(undone')}
    BY <2>2, <2>8, <2>9
  <2>11. undone' \subseteq Actions /\ Cardinality(undone') <= Len(rollback')
    BY <2>1, <2>2, <2>3, <2>7, <2>8 DEF OrderInv
  <2> HIDE DEF OrderInv
  <2>12. /\ committed \in Seq(Actions) /\ rollback \in Seq(Actions) /\ failed \in Actions \cup {NoAction}
         /\ Len(committed) <= Len(OrderedActions)
         /\ \A i \in 1 .. Len(committed) : committed[i] = OrderedActions[i]
         /\ Len(rollback) = IF failed = NoAction THEN 0 ELSE Len(committed)
         /\ \A i \in 1 .. Len(rollback) : rollback[i] = committed[Len(committed) - i + 1]
    BY DEF OrderInv
  <2>13. /\ committed' \in Seq(Actions) /\ rollback' \in Seq(Actions) /\ failed' \in Actions \cup {NoAction}
         /\ Len(committed') <= Len(OrderedActions')
         /\ \A i \in 1 .. Len(committed') : committed'[i] = OrderedActions'[i]
         /\ Len(rollback') = IF failed' = NoAction THEN 0 ELSE Len(committed')
         /\ \A i \in 1 .. Len(rollback') : rollback'[i] = committed'[Len(committed') - i + 1]
    BY <1>2, <2>2, <2>12
  <2> QED
    BY <1>2, <2>10, <2>11, <2>13 DEF OrderInv
<1> QED
  BY <1>5, <1>6, <1>7, <1>8 DEF OrderNext

\* Nothing in effect depends on what is undone: it was committed before it.
LEMMA RollbackStaysSafe == OrderInv => RollbackIsSafe
<1> SUFFICES ASSUME OrderInv PROVE RollbackIsSafe
  OBVIOUS
<1>0. committed \in Seq(Actions) /\ rollback \in Seq(Actions) /\ Len(committed) \in Nat /\ Len(rollback) \in Nat
      /\ Cardinality(undone) \in Nat
  BY UndoneIsCounted DEF OrderInv
<1>1. ASSUME NEW a \in ToSet(committed) \ undone, NEW x \in deps[a] \cap undone PROVE FALSE
  <2>1. PICK i \in 1 .. Len(committed) : a = committed[i]
    BY <1>0, <1>1 DEF ToSet
  <2>2. PICK j \in 1 .. Cardinality(undone) : x = rollback[j]
    BY <1>1 DEF OrderInv
  <2>3. j \in 1 .. Len(rollback) /\ Len(rollback) = Len(committed)
    BY <1>0, <2>1, <2>2 DEF OrderInv
  <2>4. x = committed[Len(committed) - j + 1] /\ Len(committed) - j + 1 \in 1 .. Len(committed)
    BY <1>0, <2>2, <2>3 DEF OrderInv
  <2>5. OrderFacts /\ \A k \in 1 .. Len(committed) : k \in Actions /\ committed[k] = OrderedActions[k]
    BY <1>0, <2>1, CommittedIsOrdered
  <2>6. Len(committed) - j + 1 < i
    BY <1>1, <2>1, <2>4, <2>5 DEF OrderFacts
  <2>7. Len(committed) - i + 1 \in 1 .. Cardinality(undone)
    BY <1>0, <2>1, <2>2, <2>3, <2>6
  <2>8. rollback[Len(committed) - i + 1] = committed[Len(committed) - (Len(committed) - i + 1) + 1]
    BY <1>0, <2>1, <2>3, <2>7 DEF OrderInv
  <2>9. Len(committed) - (Len(committed) - i + 1) + 1 = i
    BY <1>0, <2>1
  <2>10. a \in undone
    BY <2>1, <2>7, <2>8, <2>9 DEF OrderInv
  <2> QED
    BY <1>1, <2>10
<1>2. ASSUME failed # NoAction PROVE ToSet(rollback) = ToSet(committed)
  <2>1. Len(rollback) = Len(committed)
    BY <1>2 DEF OrderInv
  <2>2. ASSUME NEW i \in 1 .. Len(committed)
        PROVE  /\ rollback[i] = committed[Len(committed) - i + 1]
               /\ Len(committed) - i + 1 \in 1 .. Len(committed)
               /\ committed[i] = rollback[Len(committed) - i + 1]
    <3>1. Len(committed) - i + 1 \in 1 .. Len(committed) /\ Len(committed) - (Len(committed) - i + 1) + 1 = i
      BY <1>0
    <3> QED
      BY <2>1, <3>1 DEF OrderInv
  <2>3. DOMAIN rollback = 1 .. Len(committed) /\ DOMAIN committed = 1 .. Len(committed)
    BY <1>0, <2>1
  <2>4. ToSet(rollback) = {rollback[i] : i \in 1 .. Len(committed)}
        /\ ToSet(committed) = {committed[i] : i \in 1 .. Len(committed)}
    BY <2>3 DEF ToSet
  <2> QED
    BY <2>2, <2>4
<1> QED
  BY <1>1, <1>2 DEF RollbackIsSafe

\* Systems depend as their actions do.
LEMMA SystemsAreFinite == ASSUME PlansAreTyped PROVE IsFiniteSet(ParticipatingSystems)
<1>1. target \in Surjection(Actions, ParticipatingSystems)
  BY DEF PlansAreTyped, ParticipatingSystems, Surjection
<1> QED
  BY <1>1, ActionsAreFinite, FS_Surjection

LEMMA OrderInvImplies ==
  OrderInv => OrderTypeOK /\ OrderIsTopological /\ BlockedIsCircular /\ SystemsFollowActions
              /\ RollbackIsSafe
<1> SUFFICES ASSUME OrderInv
             PROVE  OrderTypeOK /\ OrderIsTopological /\ BlockedIsCircular /\ SystemsFollowActions
  BY RollbackStaysSafe
<1>1. PlansAreTyped
  BY DEF OrderInv
<1>2. OrderTypeOK
  BY DEF OrderInv, PlansAreTyped, OrderTypeOK
<1>3. MissingDependencies = {} =>
        /\ Actions \ Reached(Actions, deps) = UNION Circles(Actions, deps)
        /\ Reached(Actions, deps) = Actions <=> Circles(Actions, deps) = {}
  BY <1>1, OwnDependencies, ActionsAreFinite, UnreachedIsCircular
<1>4. BlockedIsCircular
  BY <1>3 DEF BlockedIsCircular, BlockedActions
<1>5. OrderIsTopological
  <2>1. Ordered <=> (MissingDependencies = {} /\ Circles(Actions, deps) = {})
    BY <1>3 DEF Ordered
  <2>2. ASSUME Ordered
        PROVE  /\ IsInjective(OrderedActions) /\ ToSet(OrderedActions) = Actions
               /\ \A i, j \in Actions : OrderedActions[i] \in deps[OrderedActions[j]] => i < j
    <3>1. OrderFacts
      BY <1>1, <2>2, OrderIsRight
    <3>2. PICK o : o = OrderedActions
      OBVIOUS
    <3>3. /\ o \in [Actions -> Actions] /\ \A i, j \in Actions : o[i] = o[j] => i = j
          /\ \A a \in Actions : \E i \in Actions : o[i] = a
          /\ \A i, j \in Actions : o[i] \in deps[o[j]] => i < j
      BY <3>1, <3>2 DEF OrderFacts
    <3>4. IsInjective(o) /\ ToSet(o) = Actions
      BY <3>3 DEF IsInjective, ToSet
    <3> QED
      BY <3>2, <3>3, <3>4
  <2> QED
    BY <2>1, <2>2 DEF OrderIsTopological
<1>6. SystemsFollowActions
  <2> DEFINE N == ParticipatingSystems
             D == SystemDependencies
  <2>1. IsFiniteSet(N)
    BY <1>1, SystemsAreFinite
  <2>2. \A x \in N : D[x] \subseteq N
    BY DEF SystemDependencies, ParticipatingSystems
  <2>3. Reached(N, D) = N <=> Circles(N, D) = {}
    <3> HIDE DEF N, D
    <3> QED
      BY <2>1, <2>2, UnreachedIsCircular
  <2>4. ASSUME Coordinated, NEW a \in Actions, NEW d \in deps[a] \cap Actions, target[a] # target[d]
        PROVE  SystemLevel(target[d]) < SystemLevel(target[a])
    <3>1. target[a] \in N /\ target[d] \in D[target[a]]
      BY <2>4 DEF SystemDependencies, ParticipatingSystems
    <3>2. Reached(N, D) = N
      BY <2>4 DEF Coordinated
    <3> HIDE DEF N, D
    <3>3. Level(N, D, target[d]) < Level(N, D, target[a])
      BY <2>1, <3>1, <3>2, LevelsAscend
    <3> QED
      BY <3>3 DEF SystemLevel, N, D
  <2> QED
    BY <2>3, <2>4 DEF SystemsFollowActions, Coordinated
<1> QED
  BY <1>2, <1>4, <1>5, <1>6

-----------------------------------------------------------------------------
(* From a decision to its execution.                                         *)

actionsVars == <<part, evalVars, orderVars, pipeVars, healthVars, execVars, govVars, relVars,
                 controlVars>>

LEMMA LevelsStep == RelInv => AchievedNeverWorsens
  BY AchieveStep DEF AchievedNeverWorsens

\* A part that is not explored keeps the one state it has: the invariant of every part holds.
ActionsInv ==
  EvalInv /\ OrderInv /\ PipeInv /\ HealthInv /\ ExecInv /\ GovInv /\ RelInv /\ ControlInv

LEMMA PartsStep ==
  [ActionsNext]_actionsVars =>
    /\ [EvalNext]_evalVars /\ [OrderNext]_orderVars /\ [PipeNext]_pipeVars
    /\ [HealthNext]_healthVars /\ [ExecNext]_execVars /\ [GovNext]_govVars /\ [RelNext]_relVars /\ [ControlNext]_controlVars
  BY DEF ActionsNext, actionsVars

LEMMA ActionsInvariance == ActionsSpec => []ActionsInv
<1>1. ActionsInit => ActionsInv
  BY EvalInitInv, OrderInitInv, PipeInitInv, HealthInitInv, ExecInitInv, GovInitInv, RelInitInv, ControlInitInv
     DEF ActionsInit, ActionsInv
<1>2. ActionsInv /\ [ActionsNext]_actionsVars => ActionsInv'
  BY PartsStep, EvalInvStep, OrderInvStep, PipeInvStep, HealthInvStep, ExecInvStep, GovInvStep, RelInvStep,
     ControlInvStep DEF ActionsInv
<1> QED
  BY <1>1, <1>2, PTL DEF ActionsSpec, actionsVars

\* An alternative that turns urgent is outweighed by evidence only; an order has every action once
\* and after what it depends on, and there is none exactly when actions depend on a circle;
\* systems follow their actions, and a rollback undoes nothing that something in effect needs:
\* for every plan of at most nine actions, whose ids sort as numbers, and any systems.
THEOREM PlansAlwaysAgree == ActionsSpec => []PlansAgree
<1>1. ActionsInv => PlansAgree
  BY EvalInvImplies, OrderInvImplies DEF ActionsInv, PlansAgree
<1> QED
  BY <1>1, ActionsInvariance, PTL

\* An action runs once and lawfully, its trace and its verdict are true, every effect of the
\* gateway is audited before it, across restarts and although the writes of the audit may raise,
\* an authorization has an end but where an exception or a restart interrupted it, a level is
\* excellent and a lesson recommended only on what was observed: for any plans, requests,
\* reviewers and counts.
THEOREM ExecutionsAreKept == ActionsSpec => []ExecutionsKept
<1>1. ActionsInv => ExecutionsKept
  BY ExecInvImplies, GovInvImplies, RelInvImplies, ControlInvImplies
     DEF ActionsInv, ExecutionsKept, ExecInv, GovInv
<1> QED
  BY <1>1, ActionsInvariance, PTL

\* The queue follows the schedules through every cache, a dependent plan is never queued, the
\* last result is of a plan that was completed after it was due, a healthy execution has no
\* signal to resolve and no approved rollback: for any schedules, times and approvals.
THEOREM PipelineIsKept == ActionsSpec => []PipelineKept
<1>1. ActionsInv => PipelineKept
  BY PipeInvImplies, HealthInvImplies DEF ActionsInv, PipelineKept
<1> QED
  BY <1>1, ActionsInvariance, PTL

\* No step prefers an alternative for its loss or frees a blocked one, changes what a human
\* decided, raises a risk by deciding, lowers a level by a success or forgets a fresh result.
THEOREM ActionsDoNoHarm == ActionsSpec => ActionSteps
<1>1. ActionsInv /\ [ActionsNext]_actionsVars =>
        [/\ part = "evaluation" => ComparisonIsMonotone /\ BlocksAreKept
         /\ part = "pipeline" => DecisionsLast
         /\ part = "health" => DecidingLowersRisk
         /\ part = "reliability" => AchievedNeverWorsens
         /\ part = "control" => OnlyStaleForgets]_actionsVars
  BY PartsStep, MonotoneStep, BlocksStep, DecisionsStep, DecidingStep, LevelsStep, ForgetStep
     DEF ActionsInv
<1> QED
  BY <1>1, ActionsInvariance, PTL DEF ActionsSpec, ActionSteps, actionsVars
=============================================================================
