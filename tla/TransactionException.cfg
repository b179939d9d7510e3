\* The comment on blocks that raise.
SPECIFICATION Spec
CONSTANTS
    Conn = {c1, c2}
    MaxCalls = 2
CHECK_DEADLOCK FALSE
INVARIANTS
    RollbackOnException
