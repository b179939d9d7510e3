\* Three result sets on one statement, two parameters, the machine started four times.
SPECIFICATION Spec
CONSTANTS
    r1 = r1
    r2 = r2
    r3 = r3
    x1 = x1
    x2 = x2
    v1 = v1
    v2 = v2
    null = null
    ResultSet = {r1, r2, r3}
    Param = {x1, x2}
    Value = {v1, v2, null}
    Null = null
    RowCount <- MCRowCount
    MaxRuns = 4
SYMMETRY Symmetry
INVARIANTS
    DoneAgrees
    SoleReaderReadsAll
PROPERTIES
    RowStreamPromise
