\* The claim of Database#close about connections carried across a fork.
SPECIFICATION Spec
CONSTANTS
    c1 = c1
    s1 = s1
    Proc = {1, 2}
    Root = 1
    Conn = {c1}
    Stmt = {s1}
CHECK_DEADLOCK FALSE
INVARIANTS
    NotCompletelyClosed
