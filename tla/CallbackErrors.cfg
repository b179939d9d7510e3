\* Two aggregates and a function, up to three rows in groups.
SPECIFICATION Spec
CONSTANTS
    Aggregate = {a1, a2}
    Function = f
    Nil = nil
    Unsupported = TRUE
    MaxRows = 3
CHECK_DEADLOCK FALSE
INVARIANTS
    NoExceptionLost
    OwnException
    InstancesReleased
    GroupsAreWhole
