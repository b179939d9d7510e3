\* The comment on the exception that step raises again.
SPECIFICATION Spec
CONSTANTS
    Aggregate = {a1, a2}
    Function = f
    Nil = nil
    Unsupported = FALSE
    MaxRows = 2
INVARIANTS
    InnerRaisesNothing
