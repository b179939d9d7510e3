\* Every text of up to two statements and a comment; the call is over at pc = "end".
SPECIFICATION Spec
CHECK_DEADLOCK FALSE
CONSTANTS
    MaxLength = 2
    MaxParams = 2
    MaxRows = 2
    Nil = Nil
INVARIANTS
    EverythingClosed
    AllOrPrefix
    VariablesBound
    ReturnsWhatItRan
PROPERTIES
    Ends
