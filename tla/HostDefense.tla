---------------------------- MODULE HostDefense -----------------------------
(***************************************************************************)
(* The defence of a host, in three parts that share no state: the blocks   *)
(* and the restriction a source of signals earns, the sliding window of    *)
(* requests, and an incident from its events to its recovery.              *)
(***************************************************************************)
EXTENDS Integers, FiniteSetsExt, Sequences, FiniteSets, Functions

-----------------------------------------------------------------------------
(***************************************************************************)
(* office/security: repeated signals of a source block it for a while      *)
(* (adaptive_defense.py), a block restricts the host (containment.py,      *)
(* host_runtime.py) and is kept among its incidents.                       *)
(***************************************************************************)

CONSTANTS Sources,        \* sources of signals
          Signals,        \* signals a source may show
          Weight,         \* the weight of a signal
          BlockSeconds,
          LastMoment, MaxSignals

ASSUME HostDefenseAssumption ==
  /\ BlockSeconds \in Nat \ {0} /\ LastMoment \in Nat /\ MaxSignals \in Nat
  /\ \A signal \in Signals : Weight[signal] \in Nat \ {0}

VARIABLES moment, scores, failures, blockedUntil, containment, incidents

defenseVars == <<moment, scores, failures, blockedUntil, containment, incidents>>

HostStates == {"normal", "restricted", "incident"}

DefenseInit ==
  /\ moment = 0
  /\ scores = [s \in Sources |-> 0] /\ failures = [s \in Sources |-> 0]
  /\ blockedUntil = [s \in Sources |-> 0]
  /\ containment = "normal" /\ incidents = {}

\* AdaptiveAttackDefense.observe(), and the restriction host_runtime makes of a block.
AboveThreshold(score, severity) == severity = "critical" \/ score > 70
Blocks(score, severity) == severity = "critical" \/ score >= 70
Longer(until, now) == Max({until, now + BlockSeconds})

ObserveAttack(source, signal, severity) ==
  LET score == scores[source] + Weight[signal] IN
  /\ failures[source] < MaxSignals
  /\ scores' = [scores EXCEPT ![source] = score]
  /\ failures' = [failures EXCEPT ![source] = @ + 1]
  /\ \/ /\ Blocks(score, severity)
        /\ blockedUntil' = [blockedUntil EXCEPT ![source] = Longer(@, moment)]
        /\ containment' = "restricted"
        /\ incidents' = incidents \cup {[source |-> source, severity |->
                                IF severity = "critical" THEN "critical" ELSE "high"]}
     \/ /\ ~Blocks(score, severity)
        /\ UNCHANGED <<blockedUntil, containment, incidents>>
  /\ UNCHANGED moment

\* What check() answers, whatever the score says.
Answer(source) == IF blockedUntil[source] > moment THEN "blocked" ELSE "allowed"

ClearAfterReview(source) ==
  /\ scores' = [scores EXCEPT ![source] = 0]
  /\ failures' = [failures EXCEPT ![source] = 0]
  /\ blockedUntil' = [blockedUntil EXCEPT ![source] = 0]
  /\ UNCHANGED <<moment, containment, incidents>>

DeclareIncident ==
  /\ containment' = "incident"
  /\ UNCHANGED <<moment, scores, failures, blockedUntil, incidents>>

\* recover() without an approval answers and changes nothing.
Recover(approved) ==
  /\ containment' = IF approved THEN "normal" ELSE containment
  /\ UNCHANGED <<moment, scores, failures, blockedUntil, incidents>>

DefenseTick ==
  /\ moment < LastMoment
  /\ moment' = moment + 1
  /\ UNCHANGED <<scores, failures, blockedUntil, containment, incidents>>

DefenseNext ==
  \/ \E source \in Sources, signal \in Signals, severity \in {"medium", "critical"} :
       ObserveAttack(source, signal, severity)
  \/ \E source \in Sources : ClearAfterReview(source)
  \/ DeclareIncident
  \/ \E approved \in BOOLEAN : Recover(approved)
  \/ DefenseTick

----------------------------------------------------------------------------
DefenseTypeOK ==
  /\ moment \in 0..LastMoment
  /\ scores \in [Sources -> Nat] /\ failures \in [Sources -> 0..MaxSignals]
  /\ blockedUntil \in [Sources -> 0..(LastMoment + BlockSeconds)]
  /\ containment \in HostStates
  /\ incidents \subseteq [source : Sources, severity : {"high", "critical"}]

\* A source whose score reached the threshold has been blocked since its last
\* review, and its block is among the incidents (observe_attack() records what
\* observe() blocks): no order of signals slips past the threshold.
HeavyWasBlocked ==
  \A s \in Sources :
    /\ scores[s] >= 70 => blockedUntil[s] > 0
    /\ blockedUntil[s] > 0 => \E i \in incidents : i.source = s

\* A further signal may make a block longer and never shorter (observe() takes
\* the maximum); only a review ends it early.
BlockNeverShortens ==
  [\A s \in Sources : blockedUntil'[s] >= blockedUntil[s] \/ scores'[s] = 0]_defenseVars

-----------------------------------------------------------------------------
(***************************************************************************)
(* The sliding window of one identity (RateLimiter, security/              *)
(* request_guard.py).                                                      *)
(***************************************************************************)

CONSTANTS Window, Limit, LastRequest

ASSUME LimiterAssumption ==
  Window \in Nat \ {0} /\ Limit \in Nat \ {0} /\ LastRequest \in Nat

VARIABLES requestClock,      \* time.monotonic()
          window,            \* the requests the limiter remembers
          grantedRequests,   \* history: every request it ever granted
          answer             \* what allow() answered last at this time

limiterVars == <<requestClock, window, grantedRequests, answer>>

\* A request that was granted; the number tells those of one time apart.
GrantedRequest == [number : Nat, at : 0..LastRequest]

LimiterInit ==
  requestClock = 0 /\ window = {} /\ grantedRequests = {} /\ answer = "none"

\* RateLimiter.allow(): what left the window is dropped, then the rest is counted.
Since(requests, time) == {r \in requests : r.at > time}
Recent(requests, now) == Since(requests, now - Window)

Allow ==
  LET kept == Recent(window, requestClock)
      request == [number |-> Cardinality(grantedRequests), at |-> requestClock]
  IN /\ UNCHANGED requestClock
     /\ \/ /\ Cardinality(kept) >= Limit
           /\ window' = kept /\ answer' = "refused" /\ UNCHANGED grantedRequests
        \/ /\ Cardinality(kept) < Limit
           /\ window' = kept \cup {request} /\ answer' = "granted"
           /\ grantedRequests' = grantedRequests \cup {request}

LimiterTick ==
  /\ requestClock < LastRequest
  /\ requestClock' = requestClock + 1
  /\ answer' = "none"
  /\ UNCHANGED <<window, grantedRequests>>

LimiterNext == Allow \/ LimiterTick

----------------------------------------------------------------------------
LimiterTypeOK ==
  /\ requestClock \in 0..LastRequest
  /\ window \subseteq grantedRequests /\ grantedRequests \subseteq GrantedRequest
  /\ Cardinality(window) <= Limit /\ answer \in {"none", "granted", "refused"}

\* No window, wherever it begins, holds more granted requests than the limit:
\* what allow() forgets could not have counted any more.
NoWindowExceedsTheLimit ==
  \A t \in 0..requestClock :
    Cardinality({r \in grantedRequests : r.at > t - Window /\ r.at <= t}) <= Limit

\* A refusal is earned: when allow() refuses, the window that ends now is full.
RefusedIsFull ==
  answer = "refused" => Cardinality(Recent(grantedRequests, requestClock)) >= Limit

-----------------------------------------------------------------------------
(***************************************************************************)
(* office/security/operations_runtime.py: the security events of an        *)
(* incident, what the detector, the correlator and the advisor make of     *)
(* them, the workflow a person decides and the recovery.                   *)
(***************************************************************************)

CONSTANTS EventSources, EventTypes, MaxEvents, NoAnalysis

VARIABLES events,     \* the events handed in so far
          analysis,   \* the workflow and the recovery of the last analysis
          approval    \* a person's answer to the workflow

operationsVars == <<events, analysis, approval>>

Severities == <<"info", "low", "medium", "high", "critical">>

----------------------------------------------------------------------------
\* IncidentDetector.detect(), SecurityEventCorrelator.correlate() and the advisor.
Rank(severity) == CHOOSE k \in 1..Len(Severities) : Severities[k] = severity
TypesOf(items) == {e.type : e \in Range(items)}
\* The ranks detect() takes the maximum of; the rank of an integrity failure is assigned.
RanksOf(items) ==
  {Rank("info")}
  \cup {Rank("high") : t \in TypesOf(items) \cap
          {"configuration_tamper", "privilege_attempt", "process_anomaly"}}
  \cup {Rank("critical") : t \in TypesOf(items) \cap {"integrity_failure"}}
  \cup {rank \in {Rank("medium")} : Len(items) >= 3}
DetectedRank(items) == Max(RanksOf(items))
Detected(items) == DetectedRank(items) > Rank("info")

ResponseActions ==
  {"preserve_evidence", "review_source", "review_credentials", "review_processes",
   "review_configuration", "temporary_source_isolation", "recovery_review"}
Recommended(items) ==
  {a \in {"preserve_evidence", "review_source"} : Detected(items)}
  \cup {a \in {"review_credentials", "review_configuration", "temporary_source_isolation"} :
          DetectedRank(items) >= Rank("high")}
  \cup {a \in {"recovery_review"} : DetectedRank(items) = Rank("critical")}

TypeScore == [authentication_failure |-> 15, privilege_attempt |-> 30,
              configuration_tamper |-> 30, integrity_failure |-> 30, suspicious_file |-> 15]
Score(items) ==
  IF items = <<>> THEN 0
  ELSE Min({100, (IF Len(items) >= 2 THEN 20 ELSE 0)
               + (IF Cardinality({e.source : e \in Range(items)}) = 1 THEN 20 ELSE 0)
               + MapThenSumSet(LAMBDA t : TypeScore[t], TypesOf(items) \cap DOMAIN TypeScore)})
Correlated(items) == Score(items) >= 30

----------------------------------------------------------------------------
\* The workflow and the recovery an analysis begins with.
Analysis ==
  [count : 0..MaxEvents, rank : 1..Len(Severities), recommended : SUBSET ResponseActions,
   recovery : {"assessment", "recovered"}, preserved : BOOLEAN]

ASSUME OperationsAssumption == MaxEvents \in Nat /\ NoAnalysis \notin Analysis

OperationsInit == events = <<>> /\ analysis = NoAnalysis /\ approval = "not_required"

Report(type, source) ==
  /\ Len(events) < MaxEvents
  /\ events' = Append(events, [type |-> type, source |-> source])
  /\ UNCHANGED <<analysis, approval>>

\* analyze(): the workflow is pending when something is recommended.
ApprovalOf(items) == IF Recommended(items) = {} THEN "not_required" ELSE "pending"

AnalyzeIncident ==
  /\ analysis' = [count |-> Len(events), rank |-> DetectedRank(events),
                  recommended |-> Recommended(events),
                  recovery |-> "assessment", preserved |-> events # <<>>]
  /\ approval' = ApprovalOf(events)
  /\ UNCHANGED events

\* approve() and reject() test no state: a decision may be taken again.
DecideResponse(reply) ==
  /\ analysis # NoAnalysis
  /\ approval' = reply
  /\ UNCHANGED <<events, analysis>>

MarkRecovered ==
  /\ analysis # NoAnalysis
  /\ analysis' = [analysis EXCEPT !.recovery = "recovered"]
  /\ UNCHANGED <<events, approval>>

OperationsNext ==
  \/ \E type \in EventTypes, source \in EventSources : Report(type, source)
  \/ AnalyzeIncident
  \/ \E reply \in {"approved", "rejected"} : DecideResponse(reply)
  \/ MarkRecovered

----------------------------------------------------------------------------
OperationsTypeOK ==
  /\ Range(events) \subseteq [type : EventTypes, source : EventSources]
  /\ approval \in {"not_required", "pending", "approved", "rejected"}
  /\ analysis = NoAnalysis \/ analysis \in Analysis

\* A workflow waits for a person only when the detector found an incident, and
\* an incident is never left without recommendations to decide on: detector,
\* advisor and workflow, three components, agree about every set of events.
PendingIsDetected ==
  approval = "pending" => /\ analysis.rank > Rank("info") /\ analysis.preserved
                          /\ {"preserve_evidence", "review_source"} \subseteq analysis.recommended

\* Another event never lowers the severity of an incident nor withdraws a
\* recommendation, although each reason of detect() is looked at in turn and the
\* severity is assigned, not raised, by an integrity failure.
SeverityNeverFalls ==
  [/\ DetectedRank(events') >= DetectedRank(events)
   /\ Recommended(events) \subseteq Recommended(events')]_operationsVars
=============================================================================
