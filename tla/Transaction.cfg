\* Two connections, two calls each.
SPECIFICATION Spec
CONSTANTS
    Conn = {c1, c2}
    MaxCalls = 2
CHECK_DEADLOCK FALSE
INVARIANTS
    ReturnedIsCommitted
    StandardErrorUndoesAll
