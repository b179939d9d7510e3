\* A Backup is used in a child after the hook.
SPECIFICATION Spec
CONSTANTS
    c1 = c1
    c2 = c2
    b1 = b1
    b2 = b2
    Conn = {c1, c2}
    Backups = {b1, b2}
    Pages = 2
SYMMETRY Symmetry
CHECK_DEADLOCK FALSE
INVARIANTS
    NoUseOfDiscarded
