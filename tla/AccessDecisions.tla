-------------------------- MODULE AccessDecisions --------------------------
(***************************************************************************)
(* office/security: four engines decide about one request whose conditions *)
(* come and go.  SecurityCore (core.py, runtime.py), the zero-trust engine *)
(* behind the identity runtime (identity_runtime.py and what it composes), *)
(* and the unified policy plane with the final boundary, the state and the *)
(* fail-safe behind it (unified_runtime.py and what it composes).          *)
(***************************************************************************)
EXTENDS Integers, Sequences

CONSTANT MaxDecisions

VARIABLES conditions,   \* what holds of the request
          hostState, incidentSeverity, dataState,
          audits        \* the statuses of the audit chain

accessVars == <<conditions, hostState, incidentSeverity, dataState, audits>>

\* "governance" holds when every verdict the caller hands to the plane does (request_valid,
\* host_safe, threat_safe, data_allowed, governance_allowed); "waived" when it hands
\* review_required = FALSE.
Conditions == {"authenticated", "authorized", "device", "session", "governance",
               "approval", "authorization", "waived"}
Grade == [allow |-> 2, review |-> 1, deny |-> 0]

\* SecurityCore.assess(): the first condition that fails decides.
Core(c, threat, device) ==
  IF threat = "high" \/ ~({"authenticated", "authorized"} \subseteq c) THEN "deny"
  ELSE IF ~device \/ threat = "medium" \/ "approval" \notin c THEN "review" ELSE "allow"

\* IdentityGovernanceRuntime.evaluate(): a permission under review counts as granted.
PermissionDecision(c) ==
  IF "authorized" \notin c THEN "deny" ELSE IF "approval" \notin c THEN "review" ELSE "allow"
ZeroTrust(c, threat) ==
  IF \/ "authenticated" \notin c \/ "session" \notin c
     \/ PermissionDecision(c) = "deny" \/ "device" \notin c \/ threat = "high"
  THEN "deny" ELSE IF "approval" \notin c THEN "review" ELSE "allow"

\* SecurityStatePropagator.derive(); the identity is not handed to it.
HostRestricted(host) == host \in {"restricted", "compromised"}
IncidentRestricted(severity) == severity \in {"high", "critical"}
DataRestricted(data) == data \in {"restricted", "blocked"}
Restricted(host, severity, data) ==
  HostRestricted(host) \/ IncidentRestricted(severity) \/ DataRestricted(data)

\* UnifiedSecurityPolicyPlane.evaluate() on the layers UnifiedSecurityRuntime composes: a
\* request whose caller waived the review passes without approval.
Reviewed(c) == "approval" \in c \/ "waived" \in c
Policy(c, host, severity, data) ==
  IF \/ ~({"authenticated", "device", "session", "governance"} \subseteq c)
     \/ Restricted(host, severity, data)
  THEN "deny" ELSE IF Reviewed(c) THEN "allow" ELSE "review"

\* FinalSecurityEnforcementBoundary.evaluate(): it needs an authorization of its own.
Boundary(decision, c) ==
  IF decision = "allow" /\ "authorization" \notin c THEN "review" ELSE decision

\* SecurityFailSafe.evaluate(): recovery is never approved by this runtime.
FailSafe(decision, severity) ==
  IF decision # "deny" THEN "recovery_review"
  ELSE IF IncidentRestricted(severity) THEN "evidence_preservation" ELSE "fail_closed"

----------------------------------------------------------------------------
Decisions(c, host, severity, data) ==
  LET plane == Policy(c, host, severity, data)
      threat == IF IncidentRestricted(severity) THEN "high" ELSE severity
  IN [core |-> Core(c, threat, "device" \in c), zeroTrust |-> ZeroTrust(c, threat),
      plane |-> plane, boundary |-> Boundary(plane, c),
      failSafe |-> FailSafe(plane, severity)]

AccessInit ==
  /\ conditions \in SUBSET Conditions
  /\ hostState = "healthy" /\ incidentSeverity = "low" /\ dataState = "allowed"
  /\ audits = <<>>

Flip(condition) ==
  /\ conditions' = IF condition \in conditions THEN conditions \ {condition}
                   ELSE conditions \cup {condition}
  /\ UNCHANGED <<hostState, incidentSeverity, dataState, audits>>

ChangeHost(state) ==
  /\ hostState' = state
  /\ UNCHANGED <<conditions, incidentSeverity, dataState, audits>>

ChangeSeverity(severity) ==
  /\ incidentSeverity' = severity
  /\ UNCHANGED <<conditions, hostState, dataState, audits>>

ChangeData(state) ==
  /\ dataState' = state
  /\ UNCHANGED <<conditions, hostState, incidentSeverity, audits>>

\* SecurityRuntime.assess() records the decision of the core in the audit chain.
Assess ==
  /\ Len(audits) < MaxDecisions
  /\ audits' = Append(audits, Decisions(conditions, hostState, incidentSeverity, dataState).core)
  /\ UNCHANGED <<conditions, hostState, incidentSeverity, dataState>>

AccessNext ==
  \/ \E condition \in Conditions : Flip(condition)
  \/ \E state \in {"healthy", "restricted"} : ChangeHost(state)
  \/ \E severity \in {"low", "medium", "critical"} : ChangeSeverity(severity)
  \/ \E state \in {"allowed", "blocked"} : ChangeData(state)
  \/ Assess

----------------------------------------------------------------------------
Now == Decisions(conditions, hostState, incidentSeverity, dataState)

AccessTypeOK ==
  /\ conditions \subseteq Conditions
  /\ \A k \in 1..Len(audits) : audits[k] \in DOMAIN Grade

\* The state the unified runtime reports and the decision it takes are computed
\* apart: a restricted state is never cleared, the final boundary never grants
\* what the plane did not, the fail-safe closes exactly when it denies, and nothing is
\* allowed without an authorization, nor without an approval unless its review was waived.
RestrictedIsDenied ==
  /\ Restricted(hostState, incidentSeverity, dataState) => Now.boundary = "deny"
  /\ Grade[Now.boundary] <= Grade[Now.plane]
  /\ Now.failSafe = "recovery_review" <=> Now.boundary # "deny"
  /\ Now.boundary = "allow" => "authorization" \in conditions /\ Reviewed(conditions)

\* The core and the zero-trust engine, which share no code, never contradict each
\* other: what one allows the other does not deny, unless a session or a device is
\* missing, which only the zero-trust engine refuses outright.
EnginesAgree ==
  /\ Now.zeroTrust = "allow" => Now.core # "deny"
  /\ Now.core = "allow" /\ "session" \in conditions => Now.zeroTrust = "allow"
  /\ Now.core = "deny" => Now.zeroTrust = "deny"

\* A request that loses a condition is never decided more favourably by any engine.
LosingNeverHelps ==
  [conditions' \subseteq conditions /\ hostState' = hostState
     /\ incidentSeverity' = incidentSeverity /\ dataState' = dataState
   => \A engine \in {"core", "zeroTrust", "plane", "boundary"} :
        Grade[Now'[engine]] <= Grade[Now[engine]]]_accessVars
=============================================================================
