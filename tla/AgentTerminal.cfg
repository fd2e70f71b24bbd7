SPECIFICATION Spec
CONSTANTS
    t1 = t1  t2 = t2
    r1 = r1  r2 = r2
    alice = alice  x1 = x1
    Threads = {t1, t2}
    Runs = {r1}
    Targets = {x1}
    Users = {alice}
    NoRun = NoRun
    Kind <- AllWrite
    Target <- MCTarget
    Owner <- MCOwner
    MaxRuns = 1
    MaxFaults = 0
SYMMETRY Symmetry
PROPERTIES TerminalIsFinal
\* Every run id may be used up and every run finished: no request is left.
CHECK_DEADLOCK FALSE
