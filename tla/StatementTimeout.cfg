\* Two queries, three timeouts; the functions of one query prepare statements.
SPECIFICATION FairSpec
CONSTANTS
    s1 = s1
    s2 = s2
    Stmt = {s1, s2}
    Preparing = {s2}
    Limits = {0, 2, 3}
PROPERTIES
    LongQueryEnds
