SPECIFICATION Spec
CONSTANTS
    t1 = t1  t2 = t2
    r1 = r1  r2 = r2
    alice = alice  x1 = x1
    Threads = {t1, t2}
    Runs = {r1, r2}
    Targets = {x1}
    Users = {alice}
    NoRun = NoRun
    Kind <- WriteAndDirectory
    Target <- MCTarget
    Owner <- MCOwner
    MaxRuns = 2
    MaxFaults = 0
SYMMETRY Symmetry
INVARIANTS EffectsGoverned CompletedHasEffect
PROPERTIES CreateOnly CancelStopsSteps ImplementsGovernance
\* Every run id may be used up and every run finished: no request is left.
CHECK_DEADLOCK FALSE
