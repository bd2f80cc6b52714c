SPECIFICATION Spec
CONSTANTS
    Conn = {c1}
    NoConn = NoConn
    MaxGen = 1
    MaxJobs = 4
    MaxFaults = 1
INVARIANTS
    ClosedWhileSuspending
CHECK_DEADLOCK FALSE
