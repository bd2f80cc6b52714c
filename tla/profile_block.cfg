SPECIFICATION ProfilesSpec
CONSTANTS
    UserCondition = {"a", "b"}
    MaxEdits = 3
    MaxPublished = 2
INVARIANT TargetsAreDefined
CHECK_DEADLOCK FALSE
