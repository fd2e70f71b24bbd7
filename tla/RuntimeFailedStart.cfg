SPECIFICATION Spec
CONSTANTS
    Callers = {c1}
    Loops = {l1}
    Adapters = {}
    MaxRetries = 0
    MaxCycles = 2
    MaxBatch = 0
    NoThread = NoThread
    NoAdapter = NoAdapter
    MaxFaults = 1
    MaxCrashes = 0
INVARIANTS FailedStartHasNoLoop
