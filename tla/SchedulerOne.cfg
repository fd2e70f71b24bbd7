SPECIFICATION SchedFairSpec
CONSTANTS
    Callers = {c1}
    Loops = {l1, l2}
    Adapters = {a1}
    MaxRetries = 1
    MaxCycles = 2
    MaxBatch = 2
    NoThread = NoThread
    NoAdapter = NoAdapter
INVARIANTS SchedulerKept StoppedStaysQuiet EventsExact
PROPERTIES StopEndsLoops SurvivesFailures
