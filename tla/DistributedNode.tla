--------------------------- MODULE DistributedNode ---------------------------
(***************************************************************************)
(* One node of a deployment as DistributedRuntime composes it              *)
(* (yoma/office/distributed_runtime.py): its trust record                  *)
(* (distributed_node_security.py), the plans it submits for approval       *)
(* (distributed_central_governance.py) and the embedded runtime under an   *)
(* edge worker and a service host (distributed_edge_worker.py,             *)
(* service_host.py), whose start and stop may raise at every save.         *)
(***************************************************************************)
EXTENDS Naturals

CONSTANTS
  GovernedIds, \* request ids
  NotGoverned  \* no request under this id

VARIABLES
  trust,     \* DistributedNodeSecurityManager._trust, "none" before register()
  requests,  \* DistributedCentralGovernance._requests: whether it names this node
  results,   \* DistributedCentralGovernance._results
  running,   \* DistributedRuntime._running
  host,      \* ServiceHost._state
  embedded   \* YomaEmbeddedRuntime: running, state, and its scheduler

trustVars == <<trust>>
requestVars == <<requests, results>>
hostVars == <<running, host, embedded>>
nodeVars == <<trust, requests, results, running, host, embedded>>

TrustState == {"none", "unknown", "trusted", "suspended", "revoked"}
WorkflowStatus == {"pending", "approved", "rejected", "modified"}
GovernanceResult ==
  [status : {"approved_for_review", "rejected_by_governance"}, issues : BOOLEAN,
   workflow : WorkflowStatus, reviews : Nat]
HostState == {"stopped", "starting", "running", "stopping", "failed"}
EmbeddedState == {"stopped", "booting", "license_expired", "running", "failed", "stopping"}

ASSUME GovernedAssumption == NotGoverned \notin GovernanceResult /\ NotGoverned \notin BOOLEAN

NodeInit ==
  /\ trust = "none"
  /\ requests = [r \in GovernedIds |-> NotGoverned]
  /\ results = [r \in GovernedIds |-> NotGoverned]
  /\ running = FALSE /\ host = "stopped"
  /\ embedded = [on |-> FALSE, state |-> "stopped", scheduler |-> FALSE]

-----------------------------------------------------------------------------
\* Trust.  trust_node(), suspend_node() and revoke_node() register a node that is not,
\* and take it from any state.
SetTrust(state) == trust' = state /\ UNCHANGED <<requestVars, hostVars>>
ChangeTrust == \E state \in TrustState \ {"none"} : SetTrust(state)

\* validate() with the ids of this node or others, and status().
TrustIssues(own) ==
  {x \in {"mismatch"} : ~own} \cup {x \in {"state"} : trust # "trusted"}
Validated(own) == TrustIssues(own) = {}
NodeTrusted == trust = "trusted"

-----------------------------------------------------------------------------
\* Governance.  submit(): a request with issues is recorded and answered anew every time,
\* one without only when there is no result under its id.
NewResult(valid) ==
  [status |-> IF valid THEN "approved_for_review" ELSE "rejected_by_governance",
   issues |-> ~valid, workflow |-> "pending", reviews |-> 0]

MayRecord(r, valid) == ~valid \/ results[r] = NotGoverned

Submit(r, valid) ==
  /\ IF MayRecord(r, valid)
     THEN /\ requests' = [requests EXCEPT ![r] = valid]
          /\ results' = [results EXCEPT ![r] = NewResult(valid)]
     ELSE UNCHANGED requestVars
  /\ UNCHANGED <<trustVars, hostVars>>

\* ActionApprovalEngine._decide(): pending workflows only, and only once.
AnyWorkflow(result) == TRUE
Undecided(result) == result.workflow = "pending"
Decision(result, status) ==
  [result EXCEPT !.workflow = status, !.reviews = @ + 1, !.status = "approved_for_review"]

Eligible(r) == results[r] # NotGoverned /\ results[r].status = "approved_for_review"

Approve(r) ==
  /\ Eligible(r) /\ Undecided(results[r])
  /\ results' = [results EXCEPT ![r] = Decision(results[r], "approved")]
  /\ UNCHANGED <<trustVars, requests, hostVars>>

\* reject() and modify() do not ask for eligibility, and answer "approved_for_review".
RejectOrModify(r) == \E status \in {"rejected", "modified"} :
  /\ results[r] # NotGoverned /\ Undecided(results[r])
  /\ results' = [results EXCEPT ![r] = Decision(results[r], status)]
  /\ UNCHANGED <<trustVars, requests, hostVars>>

-----------------------------------------------------------------------------
\* YomaEmbeddedRuntime.start(): its result, and whether it raises.  It is not running any more
\* when its scheduler was started and a save raised.
\* Mutant: it still says that it is running.
StillOn == [on |-> TRUE, state |-> "failed", scheduler |-> TRUE]
SchedulerLeft == [on |-> FALSE, state |-> "failed", scheduler |-> TRUE]

EmbeddedStarts ==
  IF embedded.on THEN {[runtime |-> embedded, raised |-> FALSE]}
  ELSE {[runtime |-> [embedded EXCEPT !.state = "booting"], raised |-> TRUE],
        [runtime |-> [embedded EXCEPT !.state = "license_expired"], raised |-> FALSE],
        [runtime |-> [embedded EXCEPT !.state = "failed"], raised |-> TRUE],
        [runtime |-> SchedulerLeft, raised |-> TRUE],
        [runtime |-> [on |-> TRUE, state |-> "running", scheduler |-> TRUE], raised |-> FALSE]}

\* stop(): the save of "stopping" may raise before the scheduler is stopped, the save of
\* "stopped" after it.
EmbeddedStops ==
  LET down == [on |-> FALSE, state |-> "stopped",
               scheduler |-> embedded.scheduler /\ ~embedded.on] IN
  {[runtime |-> down, raised |-> raised] : raised \in BOOLEAN}
  \cup (IF embedded.on
        THEN {[runtime |-> [embedded EXCEPT !.state = "stopping"], raised |-> TRUE]} ELSE {})

\* DistributedRuntime.start() over DistributedEdgeWorker.start() and ServiceHost.start().
StartedHost(raised) == host' = IF raised THEN "failed" ELSE "running"
StartNode ==
  /\ ~running /\ host # "running"
  /\ \E result \in EmbeddedStarts :
       /\ embedded' = result.runtime
       /\ StartedHost(result.raised) /\ running' = ~result.raised
  /\ UNCHANGED <<trustVars, requestVars>>

\* stop(): both end as stopped, whether the runtime below raised or not.
StoppedBoth(raised) == host' = "stopped" /\ running' = FALSE
StopNode ==
  /\ running
  /\ \E result \in EmbeddedStops : embedded' = result.runtime /\ StoppedBoth(result.raised)
  /\ UNCHANGED <<trustVars, requestVars>>

\* ServiceHost.health().
Healthy == host = "running" /\ embedded.on /\ embedded.state = "running"

NodeNext ==
  \/ ChangeTrust \/ StartNode \/ StopNode
  \/ \E r \in GovernedIds : Approve(r) \/ RejectOrModify(r) \/ \E v \in BOOLEAN : Submit(r, v)

NodeSpec == NodeInit /\ [][NodeNext]_nodeVars

-----------------------------------------------------------------------------

NodeTypeOK ==
  /\ trust \in TrustState /\ running \in BOOLEAN /\ host \in HostState
  /\ \A r \in GovernedIds : /\ requests[r] = NotGoverned \/ requests[r] \in BOOLEAN
                            /\ results[r] = NotGoverned \/ results[r] \in GovernanceResult
  /\ embedded \in [on : BOOLEAN, state : EmbeddedState, scheduler : BOOLEAN]

\* No request that governance refused is ever approved, although a rejection or a
\* modification of it by a reviewer makes it read "approved_for_review"; and the request
\* kept under an id is the one its result is about.
ApprovedWasEligible == \A r \in GovernedIds : results[r] # NotGoverned =>
  /\ requests[r] = ~results[r].issues
  /\ results[r].workflow = "approved" => ~results[r].issues
  /\ results[r].issues /\ results[r].status = "approved_for_review" =>
       results[r].workflow \in {"rejected", "modified"}
  /\ results[r].reviews = IF results[r].workflow = "pending" THEN 0 ELSE 1

\* What a human decided stands, and the same request submitted again changes nothing: only
\* a request with issues under the same id replaces it, and leaves it refused.
HumanDecisionLasts ==
  [\A r \in GovernedIds :
     (results[r] # NotGoverned /\ results[r].workflow # "pending") =>
       \/ results'[r] = results[r]
       \/ results'[r] = NewResult(FALSE) /\ requests'[r] = FALSE]_nodeVars

\* The node and its host agree after every start and stop, those that raise included, and the
\* runtime state in their answers says whether the runtime below is on, with its scheduler.
\* A node runs over a runtime that is off only when the license had expired; below a node that
\* does not run a runtime is on only after a stop() that raised halfway, never after a start()
\* that failed; and a node that runs is healthy unless its license expired or it was started over
\* such a stop.  The two answers about the trust of the node agree as well.
StatusIsTrue ==
  /\ running <=> host = "running"
  /\ host \notin {"starting", "stopping"}
  /\ embedded.on <=> embedded.state \in {"running", "stopping"}
  /\ embedded.on => embedded.scheduler
  /\ running /\ ~embedded.on => embedded.state = "license_expired"
  /\ ~running /\ embedded.on => host = "stopped" /\ embedded.state = "stopping"
  /\ running /\ ~Healthy => embedded.state \in {"license_expired", "stopping"}
  /\ Validated(TRUE) = NodeTrusted /\ ~Validated(FALSE)
=============================================================================
