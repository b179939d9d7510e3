\* A name for a function and a collation of two spellings.
SPECIFICATION Spec
CONSTANTS
    b1 = b1
    b2 = b2
    w1 = w1
    w2 = w2
    i1 = i1
    s1 = s1
    s2 = s2
    name = name
    nil = nil
    Block = {b1, b2}
    Wrapper = {w1, w2}
    Instance = {i1}
    Name = {name}
    Spelling = {s1, s2}
    Fold <- OneName
    Nil = nil
SYMMETRY Symmetry
INVARIANTS
    HeldAreSound
PROPERTIES
    BlocksAreKept
