SPECIFICATION InboxFairSpec
CONSTANTS
    r1 = r1
    Requests = {r1}
    Daemons = 2
    MaxClaims = 3
CHECK_DEADLOCK FALSE
INVARIANTS
    
    UnnoticedWasMissed
PROPERTIES
    
    Answered
