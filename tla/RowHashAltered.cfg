\* The comment on rows that are hashes.
SPECIFICATION HashSpec
CONSTANTS
    a = a
    b = b
    c = c
    Column = {a, b, c}
    MaxAlters = 4
INVARIANTS
    ColumnNamesAreKeys
