SPECIFICATION Spec
CONSTANTS
    Update = {u1, u2}
    NoUpdate = NoUpdate
    MaxVersion = 2
    MaxFaults = 1
INVARIANTS
    CompletedMeansInstalled
    RollbackRestores
    JournalIsTrue
PROPERTIES
    HistoryKept
SYMMETRY UpdateSymmetry
CHECK_DEADLOCK FALSE
