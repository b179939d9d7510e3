\* Two threads share a connection whose busy handler raises.
SPECIFICATION Spec
CONSTANTS
    t1 = t1
    t2 = t2
    c1 = c1
    c2 = c2
    nobody = nobody
    elsewhere = elsewhere
    Thread = {t1, t2}
    Conn = {c1, c2}
    Nobody = nobody
    Elsewhere = elsewhere
    Setups <- RaisingHandler
    MaxRetries = 2
INVARIANTS
    NoMutexWait
