--------------------------- MODULE GovernedActions ---------------------------
(***************************************************************************)
(* Executing a requested action under policies, with an audit around it:   *)
(* yoma/office/governance (policy.py, executor.py, persistent_executor.py, *)
(* persistent.py, yoma/audit.py) and actions/gateway.py.  Requests of      *)
(* several threads are interleaved at the calls of the gateway and of the  *)
(* audit; a write of the persistent audit and the executor of an action    *)
(* may raise, and the process may end between any two calls.               *)
(***************************************************************************)
EXTENDS Integers, SequencesExt

CONSTANTS
  ActionRequests,
  MaxAudits       \* bound: audit records, effects and interruptions of a request

VARIABLES
  persistent, \* the audit is rows committed one by one, not a list in memory
  restarted,  \* the process has ended at least once
  permitted,  \* requests the policies of engine and gateway allow now
  supported,  \* whether an executor is registered for the action
  phase,      \* where the execution of a request is
  effects,    \* how often the executor did something
  audit,      \* what the audit says of a request
  interrupted \* history: executions of a request that did not come to their last record

govVars == <<persistent, restarted, permitted, supported, phase, effects, audit, interrupted>>

Phases == {"idle", "authorized", "audited", "denied", "refused", "done", "raised"}
AuditStatus == {"denied", "authorized", "executed", "failed", "refused"}

GovInit ==
  /\ persistent \in BOOLEAN /\ restarted = FALSE
  /\ permitted \in SUBSET ActionRequests /\ supported = FALSE
  /\ phase = [r \in ActionRequests |-> "idle"]
  /\ effects = [r \in ActionRequests |-> 0] /\ audit = [r \in ActionRequests |-> <<>>]
  /\ interrupted = [r \in ActionRequests |-> 0]

Record(r, status) == audit' = [audit EXCEPT ![r] = Append(@, status)]
Goto(r, p) == phase' = [phase EXCEPT ![r] = p]
GoesTo(r, p) == Goto(r, p) /\ UNCHANGED interrupted

\* execute() is left by an exception that nothing records.
Interrupted(r) == Goto(r, "idle") /\ interrupted' = [interrupted EXCEPT ![r] = @ + 1]

\* evaluate() asks the policies in turn; the first denial decides.
Allowed(r) == r \in permitted

Evaluate(r) ==
  /\ phase[r] = "idle"
  /\ Len(audit[r]) < MaxAudits /\ effects[r] < MaxAudits /\ interrupted[r] < MaxAudits
  /\ GoesTo(r, IF Allowed(r) THEN "authorized" ELSE "denied")
  /\ UNCHANGED <<persistent, restarted, permitted, supported, effects, audit>>

\* An audit that is not allowed to stand in the way of the action.
AuditTried(r, status, next) ==
  GoesTo(r, next) /\ (Record(r, status) \/ (persistent /\ UNCHANGED audit))

\* INSERT and commit() of a row may raise, which ends execute(); a row whose commit() raised
\* is committed with the next one, or lost.
AuditWrite(r, status, next) ==
  \/ Record(r, status) /\ GoesTo(r, next)
  \/ persistent /\ (Record(r, status) \/ UNCHANGED audit) /\ Interrupted(r)

AuditDenied(r) ==
  /\ phase[r] = "denied" /\ AuditWrite(r, "denied", "idle")
  /\ UNCHANGED <<persistent, restarted, permitted, supported, effects>>

AuditAuthorized(r) ==
  /\ phase[r] = "authorized" /\ AuditWrite(r, "authorized", "audited")
  /\ UNCHANGED <<persistent, restarted, permitted, supported, effects>>

\* The gateway asks again: the registered executors, the approval, its own policies.  The
\* executor may raise before or after its effect; what is no Exception passes every handler.
GatewayExecute(r) ==
  /\ phase[r] = "audited"
  /\ IF supported /\ Allowed(r)
     THEN \/ effects' = [effects EXCEPT ![r] = @ + 1] /\ GoesTo(r, "done")
          \/ /\ effects' = [effects EXCEPT ![r] = @ + 1] \/ UNCHANGED effects
             /\ GoesTo(r, "raised") \/ Interrupted(r)
     ELSE GoesTo(r, "refused") /\ UNCHANGED effects
  /\ UNCHANGED <<persistent, restarted, permitted, supported, audit>>

\* The result is audited; of an exception only the persistent executor leaves a record.
AuditOfRaise(r) ==
  IF persistent THEN AuditWrite(r, "failed", "idle") ELSE UNCHANGED audit /\ GoesTo(r, "idle")
AuditResult(r) ==
  /\ \/ phase[r] = "done" /\ AuditWrite(r, "executed", "idle")
     \/ phase[r] = "refused" /\ AuditWrite(r, "refused", "idle")
     \/ phase[r] = "raised" /\ AuditOfRaise(r)
  /\ UNCHANGED <<persistent, restarted, permitted, supported, effects>>

\* Policies change; register_executor().
ChangePolicies == \E r \in ActionRequests :
  /\ permitted' = IF r \in permitted THEN permitted \ {r} ELSE permitted \cup {r}
  /\ UNCHANGED <<persistent, restarted, supported, phase, effects, audit, interrupted>>
RegisterExecutor ==
  /\ ~supported /\ supported' = TRUE
  /\ UNCHANGED <<persistent, restarted, permitted, phase, effects, audit, interrupted>>

\* The process ends and starts again.
GovRestart ==
  /\ phase' = [r \in ActionRequests |-> "idle"] /\ supported' = FALSE
  /\ interrupted' = [r \in ActionRequests |->
                       IF phase[r] = "idle" THEN interrupted[r] ELSE interrupted[r] + 1]
  /\ audit' = IF persistent THEN audit ELSE [r \in ActionRequests |-> <<>>]
  /\ restarted' = TRUE /\ UNCHANGED <<persistent, permitted, effects>>

GovNext ==
  \/ \E r \in ActionRequests : Evaluate(r) \/ AuditDenied(r) \/ AuditAuthorized(r)
                               \/ GatewayExecute(r) \/ AuditResult(r)
  \/ ChangePolicies \/ RegisterExecutor \/ GovRestart

GovSpec == GovInit /\ [][GovNext]_govVars

-----------------------------------------------------------------------------

GovTypeOK ==
  /\ persistent \in BOOLEAN /\ restarted \in BOOLEAN /\ supported \in BOOLEAN
  /\ permitted \subseteq ActionRequests /\ phase \in [ActionRequests -> Phases]
  /\ effects \in [ActionRequests -> Nat] /\ interrupted \in [ActionRequests -> Nat]
  /\ audit \in [ActionRequests -> Seq(AuditStatus)]

Rows(r, status) == Cardinality({i \in DOMAIN audit[r] : audit[r][i] = status})

\* No executor is called before its authorization is in the audit, which keeps it
\* through the end of the process when it is persistent; what the audit says of an
\* execution follows its authorization, and an execution it reports took place.
EffectsAreAudited == \A r \in ActionRequests :
  /\ (persistent \/ ~restarted) => effects[r] <= Rows(r, "authorized")
  /\ Rows(r, "executed") <= effects[r]
  /\ \A i \in DOMAIN audit[r] : audit[r][i] \in {"executed", "failed", "refused"} =>
       i > 1 /\ audit[r][i - 1] = "authorized"

\* The persistent audit has an end for every authorization that is not under way, whether the
\* action was done, refused or raised, but for those an exception of the audit itself, one that
\* is no Exception, or the end of the process interrupted.
Ends(r) == Rows(r, "executed") + Rows(r, "failed") + Rows(r, "refused")
AuditIsBalanced == \A r \in ActionRequests :
  persistent /\ phase[r] = "idle" =>
    Ends(r) <= Rows(r, "authorized") /\ Rows(r, "authorized") <= Ends(r) + interrupted[r]
=============================================================================
