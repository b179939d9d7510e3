\* The comment on the message given to the library.
SPECIFICATION Spec
CONSTANTS
    Aggregate = {a1, a2}
    Function = f
    Nil = nil
    Unsupported = FALSE
    MaxRows = 2
INVARIANTS
    MessageNeverSeen
