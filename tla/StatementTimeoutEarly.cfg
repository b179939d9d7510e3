\* A query that lasts less than the timeout.
SPECIFICATION Spec
CONSTANTS
    s1 = s1
    s2 = s2
    Stmt = {s1, s2}
    Preparing = {s2}
    Limits = {0, 2, 3}
PROPERTIES
    ShortQuerySurvives
