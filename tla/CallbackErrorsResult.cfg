\* A finalizer that returns a value of an unsupported type.
SPECIFICATION Spec
CONSTANTS
    Aggregate = {a1, a2}
    Function = f
    Nil = nil
    Unsupported = TRUE
    MaxRows = 2
CHECK_DEADLOCK FALSE
INVARIANTS
    ReleasedAfterJump
