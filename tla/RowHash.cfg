\* Three columns, four changes of the schema.
SPECIFICATION HashSpec
CONSTANTS
    a = a
    b = b
    c = c
    Column = {a, b, c}
    MaxAlters = 4
INVARIANTS
    NamesFitUntilAltered
