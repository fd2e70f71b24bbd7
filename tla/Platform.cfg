SPECIFICATION PlatformSpec
CONSTANTS
    d1 = d1  d2 = d2  l1 = l1  l2 = l2
    Deployments = {d1, d2}
    TrialDays = 2
    Durations = {1, 3}
    MaxTime = 5
    Horizon = 9
    MaxFaults = 1
    NoSub = NoSub
    Licenses = {l1, l2}
    Perpetual = {l2}
    Entitled = {l1}
    LastDay = 2
    NoLicense = NoLicense
    NoFile = NoFile
    Unreadable = Unreadable
    Settings = {1, 2}
    Unset = Unset
    NoIntegration = NoIntegration
    MaxTroubles = 2
    Mappers = {1, 2}
    Externals = {"a", "b"}
    MaxIdentities = 3
    Unmapped = Unmapped
    NotSaving = NotSaving
    Reports = {1, 2, 3, 4}
    ReportedAt <- MCReportedAt
    Offset <- MCOffset
    ReportUser <- MCReportUser
    Workload = {1, 2, 4}
    UnitsOf <- MCUnitsOf
    LastInstant = 2
    Events = {1, 2, 3}
    Foreign = {3}
    Malformed = {2}
    MaxAttempts = 2
    MaxSequence = 3
    GovernedIds = {1, 2}
    NotGoverned = NotGoverned
    Roles = {1}
    Permissions = {1}
    MaxOrganizations = 1
    MaxUsers = 3
    MaxTokens = 1
    MaxNodes = 1
    Lifetime = 1
    LastHour = 1
    Nobody = Nobody
    Stranger = Stranger
    Sources = {"a", "b"}
    Signals = {"rate_limit", "configuration_tamper"}
    Weight <- MCWeight
    BlockSeconds = 2
    LastMoment = 2
    MaxSignals = 2
    Window = 3
    Limit = 2
    LastRequest = 7
    EventSources = {1, 2}
    EventTypes = {"integrity_failure", "privilege_attempt", "authentication_failure", "rate_limit"}
    MaxEvents = 3
    NoAnalysis = NoAnalysis
    MaxDecisions = 1
    CredentialFiles = {1, 2}
    NoCredentials = NoCredentials
    Employees = {1, 2}
    Departments = {1, 2}
    Pressure <- MCPressure
    Instants = {1, 2, 3}
    HoursPerInstant = 6
    MaxAttendance = 3
    MaxRoster = 2
    NotOpen = 0
    Names = {1}
    Ports = {1, 2}
    NoName = NoName
    MaxDevices = 2
    Scopes = {"a", "b"}
    HistoryDays = 2
    WindowDays = 1
    ForecastDays = 7
    Bursts = {1, 4}
    MaxBursts = 3
    IdRank <- MCIdRank
    Askable <- MCAskable
    NoPrediction = NoPrediction
    CurrentContexts <- MCCurrent
    HistoricalContexts <- MCHistorical
    PredictiveContexts <- MCPredictive
    MaxContexts = 2
    MaxAnalyses = 1
    NoDecisions = NoDecisions
    PresentedEvents <- FewEvents
    MaxBatch = 3
    LastCycle = 1
    WatchedTypes = {"service.outage", "incident.created", "file.changed"}
    WatchedSources = {"ops"}
    MaxObservations = 3
    RepetitionThreshold = 3
    EscalationThreshold = 2
    CriticalThreshold = 2
    HighThreshold = 3
    UrgentThreshold = 3
    Entries <- MCEntries
    MaxEntries = 4
    None = "none"
    MemberIds = {"m1", "m2", "m3", "m4"}
    Strangers = {"x"}
    Workloads = {0, 2}
    CapacityThreshold = 2
    CriticalDependents = 3
    ElevatedDependents = 2
    NoManager = "nobody"
    NoMember = "absent"
    NodeItems <- MCNodes
    DependencyItems <- MCDependencies
    WorkItems <- MCWork
    CapacityItems <- MCCapacities
    RiskItems <- MCRisks
    ChangeItems <- MCChanges
    MaxItems = 8
    Unassigned = "unassigned"
INVARIANTS TrialSafe PaidTimeKept IntegrationsKept HistoryKept NodesGoverned HostDefended
INVARIANTS WorkforceMeasured PredictionsBacked DecisionsGrounded OrganizationUnderstood
INVARIANTS ITUnderstood
PROPERTIES PlatformSteps
\* Histories, queues and clocks are bounded, and an expired trial may stay so.
CHECK_DEADLOCK FALSE
