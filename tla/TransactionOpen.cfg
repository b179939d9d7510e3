\* The comment on blocks that terminate.
SPECIFICATION Spec
CONSTANTS
    Conn = {c1, c2}
    MaxCalls = 2
CHECK_DEADLOCK FALSE
INVARIANTS
    NothingLeftOpen
