SPECIFICATION Spec
CONSTANTS
    Conn = {c1, c2}
    NoConn = NoConn
    MaxGen = 2
    MaxJobs = 3
    MaxFaults = 1
INVARIANTS
    AccessIsCurrent
    LifecycleConsistent
    QueueMatchesOutbox
    ServedWhenSettled
    CutOffWhenSettled
SYMMETRY ConnSymmetry
CHECK_DEADLOCK FALSE
