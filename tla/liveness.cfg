SPECIFICATION LivenessSpec
CONSTANTS
    Conn = {c1}
    NoConn = NoConn
    MaxGen = 3
    MaxJobs = 5
    MaxFaults = 3
    MaxVersion = 3
    MaxInstallFaults = 2
INVARIANT
    RecordIsLinked
PROPERTIES
    ArchivedIsFinal
    JobsSettle
    ImplementsAccess
    InstallationsEnd
CHECK_DEADLOCK FALSE
