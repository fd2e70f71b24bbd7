SPECIFICATION FairSpec
CONSTANTS
    Callers = {c1}
    Loops = {l1, l2}
    Adapters = {}
    MaxRetries = 0
    MaxCycles = 2
    MaxBatch = 0
    NoThread = NoThread
    NoAdapter = NoAdapter
    MaxFaults = 2
    MaxCrashes = 1
INVARIANTS RuntimeKept
PROPERTIES StartsLicensed StopCompletes
