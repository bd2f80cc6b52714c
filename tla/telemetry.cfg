SPECIFICATION Spec
CONSTANTS
    Counter = {c1, c2}
    Session = {c1}
    MaxBytes = 2
    Horizon = 2
    Hour = 2
    Day = 2
    KeepFine = 0
    KeepHourly = 1
    MaxCrashes = 1
    User = {u1}
    Engine = {e1}
    SessionEngine = {e1}
    Window = 0
    Absence = 1
    LastTick = 1
    MaxRestarts = 1
    Service = {s1}
    Probe = {timer, request}
    MaxDeaths = 1
    MaxChanges = 2
    MaxMishaps = 2
    Entry <- MCEntry
    SiteSize = 2
    Asked = 2
    Address = {"a"}
    SessionWindow = 2
    MaxLines = 3
    EventLimit = 2
    MaxLog = 4
    Job = {"j1"}
    MaxPublished = 2
    MaxKills = 2
INVARIANTS
    NeverOvercounted
    TotalsKept
    EventsMatchState
    IncidentsMatchState
    PanelIsCurrent
    CategoriesAreExact
    EventsAreGrouped
PROPERTIES
    AbsenceIsObserved
    OpenedIsComplete
CHECK_DEADLOCK FALSE
