SPECIFICATION Spec
CONSTANTS
    Template <- MCTemplate
    Methods <- MCMethods
    Stock = "t1"
    Default = "m1"
    MaxRevisions = 1
    MaxMishaps = 1
    Code = {c1, c2}
    MaxBundle = 2
    Retain = 0
    MaxRevision = 2
    MaxHarm = 1
    UserCondition = {"a", "b"}
    MaxEdits = 3
    MaxPublished = 2
    Domain = {d1, d2}
    NoDomain = none
    MaxScripts = 2
    MaxSetupFaults = 3
    Name = {"b1"}
    MaxConfirmations = 2
    MaxOperationFaults = 2
    MaxLabel = 3
    MaxDomain = 7
    MinDomain = 4
    MaxVersion = 6
    MinPassphrase = 2
    MaxPassphrase = 4
    MaxText = 7
INVARIANTS
    RunsWhatIsStored
    RoutesAreServed
    SetupIsWhole
    CompletedIsDone
    AdmittedAlike
PROPERTY ProfilesAgree
CHECK_DEADLOCK FALSE
