SPECIFICATION Spec
CONSTANTS
    Callers = {c1, c2}
    Loops = {l1, l2}
    Adapters = {}
    MaxRetries = 0
    MaxCycles = 0
    MaxBatch = 0
    NoThread = NoThread
    NoAdapter = NoAdapter
    MaxFaults = 1
    MaxCrashes = 0
INVARIANTS RunningIsShown
