SPECIFICATION FairSpec
CONSTANTS
    c1 = c1
    c2 = c2
    d1 = d1
    d2 = d2
    Callers = {c1, c2}
    Daemons = {d1, d2}
    Nobody = Nobody
    ClaimWait = 1
    Timeout = 1
CHECK_DEADLOCK FALSE
PROPERTIES
    Promise
    CallerReturns
