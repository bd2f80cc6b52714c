SPECIFICATION ServicesSpec
CONSTANTS
    MaxDiagnostics = 2
    MaxRunners = 2
    Method = {m1, m2}
    Version <- SomeVersions
    MaxEdition = 2
    MaxRequests = 2
    MaxRestoreFaults = 2
    Tag = {"direct", "block"}
    MaxBody = 2
    MaxItems = 2
    MaxTemplates = 3
    MethodName = {"mine", "yours"}
    MethodPort = {443, 1443, 8443}
    FirstExtras <- SomeExtras
    MaxMethodEdits = 2
    MaxTokens = 1
    MaxEvents = 3
    MaxTime = 2
    MaxLoads = 3
    PageSize = 1
    Conn = {c1}
    NoConn = NoConn
    MaxGen = 2
    MaxJobs = 3
    MaxFaults = 1
INVARIANTS
    OffersAreServed
    OfferIsSound
    RestoreIsWhole
    UpgradeKeepsEdits
    CallsAreAuthorised
    JournalIsWhole
PROPERTIES
    ResultsAreFinal
CHECK_DEADLOCK FALSE
