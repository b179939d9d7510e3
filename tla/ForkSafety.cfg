\* A parent and a child, two connections, one statement.
SPECIFICATION LineSpec
CONSTANTS
    c1 = c1
    c2 = c2
    s1 = s1
    Proc = {1, 2}
    Root = 1
    Conn = {c1, c2}
    Stmt = {s1}
CHECK_DEADLOCK FALSE
INVARIANTS
    HookLeavesNoWriter
    NoForeignClose
    NoForeignUse
    DiscardIsExact
    NoDanglingPointer
    ZombieHasStatement
    IInv
PROPERTIES
    CopiesPromise
    HookEnds
    ExitReleases
