\* The bind variables and a text whose statements differ in their parameters.
SPECIFICATION Spec
CHECK_DEADLOCK FALSE
CONSTANTS
    MaxLength = 2
    MaxParams = 2
    MaxRows = 1
    Nil = Nil
INVARIANTS
    GivenToEachStatement
