----------------------------- MODULE MCPlatform -----------------------------
(***************************************************************************)
(* What the platform around the runtime keeps, on small instances: the     *)
(* trial and the licenses, integrations, identities and history, the node, *)
(* its synchronization and its defence, the workforce and its devices, and *)
(* what it concludes: predictions, fused decisions, background             *)
(* recommendations, the organization graph, the reporting structure and    *)
(* the IT edition, of which `topic` selects one.                           *)
(* The parts share no state: an initial state selects the one explored.    *)
(***************************************************************************)
EXTENDS TrialSubscription, LicenseActivation, IntegrationLifecycle, IdentityProviders,
        OperationalHistory, OfflineSync, DistributedNode, ControlPlane, HostDefense,
        AccessDecisions, Workforce, BackgroundIntelligence, Predictions,
        DecisionFusion, OrganizationGraph, ReportingStructure, ITEdition

CONSTANTS d1, d2, l1, l2

VARIABLES part, topic

\* Events 1 and 2 are of one user, whose situations the organization connects too.
MCReportedAt == [e \in Reports |-> IF e = 1 THEN 0 ELSE 1]
MCOffset == [e \in Reports |-> IF e = 2 THEN 1 ELSE 0]
MCReportUser == [e \in Reports |-> IF e = 4 THEN "u2" ELSE "u1"]
MCUnitsOf == [u1 |-> {<<"team", 1>>, <<"organization", 1>>}, u2 |-> {<<"organization", 1>>}]
\* Weights that add up to the threshold exactly.
MCWeight == [rate_limit |-> 20, configuration_tamper |-> 50]
MCPressure == <<0, 100>>

analysisVars ==
  <<topic, predictionVars, fusionVars, backgroundVars, graphVars, structureVars, itVars>>

\* Ids that run against the days, and runtimes asked about one, two and three situations.
MCIdRank == [c \in Cells |-> HistoryDays - c[2]]
MCAskable == {{<<"a", 0>>}, {<<"a", 0>>, <<"a", 2>>}, {<<"a", 2>>, <<"b", 1>>}}

\* Two signals of one scope, hence of one id, and one of another; a history and a prediction
\* that match by a shorter name or an alias, and some that match nothing of their scope.
High == <<"workload", "high">>
MCCurrent ==
  {[signal |-> 1, scope |-> 1, type |-> High, score |-> 4000],
   [signal |-> 1, scope |-> 1, type |-> <<"security">>, score |-> 9000],
   [signal |-> 2, scope |-> 2, type |-> High, score |-> 6600]}
MCHistorical ==
  {[id |-> 1, scope |-> 1, type |-> <<"workload">>, count |-> 2, deviation |-> 12000],
   [id |-> 2, scope |-> 2, type |-> High, count |-> 3, deviation |-> 10000],
   [id |-> 3, scope |-> 1, type |-> High, count |-> 1, deviation |-> 0],
   [id |-> 4, scope |-> 1, type |-> High, count |-> 2, deviation |-> 500]}
MCPredictive ==
  {[id |-> 1, scope |-> 1, type |-> <<"workload_pressure">>, probability |-> 3000,
    confidence |-> 2500, severity |-> "info", priority |-> "info"],
   [id |-> 2, scope |-> 2, type |-> <<"workload_pressure">>, probability |-> 7000,
    confidence |-> 9000, severity |-> "critical", priority |-> "critical"],
   [id |-> 3, scope |-> 1, type |-> <<"security">>, probability |-> 6200,
    confidence |-> 5000, severity |-> "warning", priority |-> "high"]}

\* A department listed twice with another organization, an employee who manages a team and
\* reports to nobody else, and an employee whose id is that of the team.
NoRefs == [ref \in RefKinds |-> None]
MCEntries ==
  {[kind |-> "organization", id |-> "o1", refs |-> NoRefs],
   [kind |-> "organization", id |-> "o2", refs |-> NoRefs],
   [kind |-> "location", id |-> "l1", refs |-> [NoRefs EXCEPT !["organization"] = "o2"]],
   [kind |-> "department", id |-> "d1",
    refs |-> [NoRefs EXCEPT !["organization"] = "o1", !["location"] = "l1"]],
   [kind |-> "department", id |-> "d1", refs |-> [NoRefs EXCEPT !["organization"] = "o2"]],
   [kind |-> "team", id |-> "t1",
    refs |-> [NoRefs EXCEPT !["organization"] = "o2", !["department"] = "d1", !["manager"] = "e1"]],
   [kind |-> "employee", id |-> "e1",
    refs |-> [NoRefs EXCEPT !["organization"] = "o1", !["department"] = "d1"]],
   [kind |-> "employee", id |-> "e1",
    refs |-> [NoRefs EXCEPT !["department"] = "d1", !["team"] = "t1", !["manager"] = "e1"]],
   [kind |-> "employee", id |-> "t1", refs |-> [NoRefs EXCEPT !["organization"] = "o1"]]}

\* Three nodes with a cycle of two and of three; two capacities listed for one member.
MCNodes ==
  {[id |-> i, status |-> s] : i \in 1..3, s \in {"open", "blocked"}}
    \cup {[id |-> 1, status |-> "completed"]}
MCDependencies ==
  {[source |-> 1, target |-> 2], [source |-> 2, target |-> 1], [source |-> 2, target |-> 3],
   [source |-> 3, target |-> 1], [source |-> 3, target |-> 2]}
MCWork ==
  {[id |-> i, member |-> m, hours |-> i + 1, status |-> "planned"] : i \in 1..2, m \in {"m1", "m2"}}
    \cup {[id |-> 3, member |-> Unassigned, hours |-> 4, status |-> "planned"],
          [id |-> 3, member |-> "m1", hours |-> 4, status |-> "completed"]}
MCCapacities ==
  {[member |-> "m1", hours |-> 1], [member |-> "m1", hours |-> 5], [member |-> "m2", hours |-> 4]}
MCRisks ==
  {[id |-> i, level |-> l, escalation |-> (i = 1)] : i \in 1..3, l \in {"low", "high", "critical"}}
    \cup {[id |-> 2, level |-> "normal", escalation |-> FALSE]}
MCChanges ==
  {[kind |-> "incident", status |-> s, severity |-> "critical"] : s \in {"open", "closed"}}
    \cup {[kind |-> k, status |-> "failed", severity |-> "minor"] : k \in {"deployment", "release"}}

AnalysisInit ==
  /\ topic \in {"predictions", "decisions", "background", "graph", "structure", "it"}
  /\ PredictionInit /\ FusionInit /\ BackgroundInit /\ GraphInit /\ StructureInit /\ ITInit
  /\ topic # "graph" => ~listening
  /\ topic # "it" => domain = "risks"

AnalysisNext ==
  /\ UNCHANGED topic
  /\ \/ topic = "predictions" /\ PredictionNext
     \/ topic = "decisions" /\ FusionNext
     \/ topic = "background" /\ BackgroundNext
     \/ topic = "graph" /\ GraphNext
     \/ topic = "structure" /\ StructureNext
     \/ topic = "it" /\ ITNext
  /\ topic # "predictions" => UNCHANGED predictionVars
  /\ topic # "decisions" => UNCHANGED fusionVars
  /\ topic # "background" => UNCHANGED backgroundVars
  /\ topic # "graph" => UNCHANGED graphVars
  /\ topic # "structure" => UNCHANGED structureVars
  /\ topic # "it" => UNCHANGED itVars

-----------------------------------------------------------------------------
PlatformInit ==
  /\ part \in {"trial", "license", "integration", "identity", "history", "sync", "node",
               "plane", "defence", "limiter", "incidents", "access", "provisioning",
               "workforce", "devices", "analysis"}
  /\ TrialInit /\ LicenseInit /\ IntegrationInit /\ MappingInit /\ HistoryInit /\ SyncInit
  /\ NodeInit /\ PlaneInit /\ DefenseInit /\ LimiterInit /\ OperationsInit /\ AccessInit
  /\ ProvisioningInit /\ WorkforceInit /\ DeviceInit /\ AnalysisInit
  /\ part # "trial" => clock = 0
  /\ part # "access" => conditions = {}
  /\ part # "analysis" => topic = "predictions"

PlatformNext ==
  /\ UNCHANGED part
  /\ \/ part = "trial" /\ TrialNext
     \/ part = "license" /\ LicenseNext
     \/ part = "integration" /\ IntegrationNext
     \/ part = "identity" /\ MappingNext
     \/ part = "history" /\ HistoryNext
     \/ part = "sync" /\ SyncNext
     \/ part = "node" /\ NodeNext
     \/ part = "plane" /\ PlaneNext
     \/ part = "defence" /\ DefenseNext
     \/ part = "limiter" /\ LimiterNext
     \/ part = "incidents" /\ OperationsNext
     \/ part = "access" /\ AccessNext
     \/ part = "provisioning" /\ ProvisioningNext
     \/ part = "workforce" /\ WorkforceNext
     \/ part = "devices" /\ DeviceNext
     \/ part = "analysis" /\ AnalysisNext
  /\ part # "trial" => UNCHANGED subVars
  /\ part # "license" => UNCHANGED licenseVars
  /\ part # "integration" => UNCHANGED integrationVars
  /\ part # "identity" => UNCHANGED mappingVars
  /\ part # "history" => UNCHANGED historyVars
  /\ part # "sync" => UNCHANGED syncVars
  /\ part # "node" => UNCHANGED nodeVars
  /\ part # "plane" => UNCHANGED planeVars
  /\ part # "defence" => UNCHANGED defenseVars
  /\ part # "limiter" => UNCHANGED limiterVars
  /\ part # "incidents" => UNCHANGED operationsVars
  /\ part # "access" => UNCHANGED accessVars
  /\ part # "provisioning" => UNCHANGED provisioningVars
  /\ part # "workforce" => UNCHANGED workforceVars
  /\ part # "devices" => UNCHANGED deviceVars
  /\ part # "analysis" => UNCHANGED analysisVars

Analyzed(about) == part = "analysis" /\ topic = about

PlatformSpec ==
  PlatformInit /\ [][PlatformNext]_<<part, subVars, licenseVars, integrationVars, mappingVars,
    historyVars, syncVars, nodeVars, planeVars, defenseVars, limiterVars, operationsVars,
    accessVars, provisioningVars, workforceVars, deviceVars, analysisVars>>

----------------------------------------------------------------------------
\* The properties of the parts, by what they are about. A part that is not explored stays as it
\* was initially.

\* The file of a license, the row and the adapter of an integration, the table of identities and
\* the two files of provisioning say what memory says, but for the failures that are known.
IntegrationsKept ==
  /\ part = "license" => LicenseTypeOK /\ FileFollowsMemory /\ AssessmentAgrees
  /\ part = "integration" =>
       IntegrationTypeOK /\ RowIsCurrent /\ QuietIsConsistent /\ ConnectedIsEnabled
  /\ part = "identity" => MappingTypeOK /\ OneExternalEach
  /\ part = "provisioning" => ProvisioningTypeOK /\ ProgressIsBacked

\* The history: a clearing leaves nothing without what it rests on, situations partition the
\* signals, ranges agree and patterns connect.
HistoryKept ==
  part = "history" =>
    /\ HistoryTypeOK /\ NothingDangles
    /\ CorrelationPartitions /\ RangesAgree /\ PatternsConnect

\* A node: the two queues of its synchronization agree, no request that governance refused is
\* approved, its status tells what is on below it, and chains of authority are whole.
NodesGoverned ==
  /\ part = "sync" => SyncTypeOK /\ BufferMirrorsQueue /\ ExposedIsOpen /\ CollectedIsQueued
  /\ part = "node" => NodeTypeOK /\ ApprovedWasEligible /\ StatusIsTrue
  /\ part = "plane" => PlaneTypeOK /\ ChainsAreWhole

\* The defence of a host: heavy sources were blocked, no window exceeds the limit and none is
\* refused that does not, what waits for a human was detected, engines that decide the same
\* request agree and a restricted host denies.
HostDefended ==
  /\ part = "defence" => DefenseTypeOK /\ HeavyWasBlocked
  /\ part = "limiter" => LimiterTypeOK /\ NoWindowExceedsTheLimit /\ RefusedIsFull
  /\ part = "incidents" => OperationsTypeOK /\ PendingIsDetected
  /\ part = "access" => AccessTypeOK /\ RestrictedIsDenied /\ EnginesAgree

\* Sessions are disjoint, alerts have reasons, and every device is found once.
WorkforceMeasured ==
  /\ part = "workforce" => WorkforceTypeOK /\ SessionsAreDisjoint /\ AlertsHaveReasons
  /\ part = "devices" => DeviceTypeOK /\ EveryDeviceOnce

\* Predictions of one scope agree, and alarms have a recurrence behind them. In the background,
\* contexts hold the latest observations, the stages stay in step, and a recurrence is
\* recommended on once per context, for events that were observed.
PredictionsBacked ==
  /\ Analyzed("predictions") => PredictionTypeOK /\ ScopesAgree /\ AlarmsAreBacked
  /\ Analyzed("background") =>
       /\ BackgroundTypeOK /\ ContextsHoldLatest /\ StagesAgree
       /\ ContextsAreReportedOnce /\ RecommendationsAreEarned

\* Decisions are of their scope alone, a prediction never lowers one, the stronger comes first and
\* is explained by its own evidence.
DecisionsGrounded ==
  Analyzed("decisions") =>
    /\ FusionTypeOK /\ ScopesAreApart /\ PredictionNeverLowers
    /\ StrongerComesFirst /\ ExplanationsAgree

\* What the graph drops is reported and where nothing is reported its paths agree with the
\* entries; the analyses of the reporting structure agree wherever all of them answer.
OrganizationUnderstood ==
  /\ Analyzed("graph") => GraphTypeOK /\ DroppedIsReported /\ ValidPathsAgree
  /\ Analyzed("structure") => StructureTypeOK /\ DepthIsExact /\ AnalysesAgree /\ HighRiskIsRare

\* Cycles and impact are exact, a shortfall is somebody's, and critical attention is drawn
\* wherever there is a reason.
ITUnderstood ==
  Analyzed("it") =>
    ITTypeOK /\ CyclesAreExact /\ ImpactIsTransitive /\ ShortfallIsSomebodys /\ AttentionIsDrawn

\* What a step of a part does not do, whatever fails: each is stated with its part.
DoesNoHarm ==
  /\ part = "license" => StaleFileStays /\ ActivationKeepsItsDay
  /\ part = "integration" => RestoredIsFrozen
  /\ part = "identity" => AnswersAreStable
  /\ part = "sync" => AttemptsAreKept
  /\ part = "node" => HumanDecisionLasts
  /\ part = "plane" => NodesNeedAToken
  /\ part = "defence" => BlockNeverShortens
  /\ part = "incidents" => SeverityNeverFalls
  /\ part = "access" => LosingNeverHelps
  /\ part = "provisioning" => NothingIsTakenBack
  /\ part = "workforce" => ClosedSessionsStand
  /\ part = "devices" => PortsAreKept
  /\ Analyzed("predictions") => OnlyInstantsFail /\ SurerWithMore

\* No step of any part does harm.
PlatformSteps ==
  [][DoesNoHarm]_<<part, subVars, licenseVars, integrationVars, mappingVars, historyVars, syncVars,
                   nodeVars, planeVars, defenseVars, limiterVars, operationsVars, accessVars,
                   provisioningVars, workforceVars, deviceVars, analysisVars>>
=============================================================================
