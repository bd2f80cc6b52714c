SPECIFICATION Spec
CONSTANTS
    Update = {u1}
    NoUpdate = NoUpdate
    MaxVersion = 1
    MaxFaults = 1
INVARIANTS
    FailureRestores
CHECK_DEADLOCK FALSE
