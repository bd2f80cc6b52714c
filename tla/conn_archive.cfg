SPECIFICATION Spec
CONSTANTS
    Conn = {c1}
    NoConn = NoConn
    MaxGen = 1
    MaxJobs = 4
    MaxFaults = 1
INVARIANTS
    ArchiveCleansEngines
CHECK_DEADLOCK FALSE
