\* A thread forks while another one sleeps in its busy handler.
SPECIFICATION Spec
CONSTANTS
    t1 = t1
    t2 = t2
    c1 = c1
    c2 = c2
    nobody = nobody
    elsewhere = elsewhere
    Thread = {t1, t2}
    Conn = {c1, c2}
    Nobody = nobody
    Elsewhere = elsewhere
    Setups <- SleepingApart
    MaxRetries = 2
INVARIANTS
    HookNeverWaits
