SPECIFICATION ActionsSpec
CONSTANTS
    p1 = p1  p2 = p2  s1 = s1  s2 = s2  i1 = i1  i2 = i2
    r1 = r1  r2 = r2  a1 = a1  a2 = a2
    Alternatives = {1, 2}
    Confidences = {0, 8}
    Constrained = {4}
    MaxConstraints = 1
    ActionCount = 3
    IdRank <- MCIdRank
    Systems = {s1, s2}
    Unspecified = Unspecified
    Integrations = {s1}
    NoAction = NoAction
    Plans = {p1, p2}
    Targeted = {p1}
    EndTime = 1
    MaxCalls = 2
    Decisions = {"approved", "rejected"}
    NoPlan = NoPlan
    NoTime = NoTime
    Idle = Idle
    Approvals = {i1, i2}
    ActionTotal = 2
    ExecPlans = {p1}
    EventCounts = {0, 1, 2}
    Expected <- MCExpected
    ActionRequests = {r1, r2}
    MaxAudits = 2
    MaxExecutions = 12
    ControlPlans = {p1, p2}
    Reviewers = {a1, a2}
    OutcomeStatus = {"observed", "failed"}
    MaxNotes = 2
    MaxLessons = 1
    NoResult = NoResult
INVARIANTS PlansAgree PipelineKept ExecutionsKept
PROPERTIES ActionSteps
\* Plans are decided and executed once, histories are bounded.
CHECK_DEADLOCK FALSE
