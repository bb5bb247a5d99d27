SPECIFICATION FairLaneSpec
CONSTANTS
    c1 = c1
    c2 = c2
    c3 = c3
    commit = commit
    push = push
    Claims <- MCClaims
    Nobody = Nobody
    Identities <- MCIdentities
    IdentityOf <- MCIdentityOf
    Network <- MCNetwork
    Budget <- MCBudget
    Stale = 1
    Yield = 2
    Ttl = 4
    MinHeld = 2
    MaxAge = 4
CHECK_DEADLOCK FALSE
INVARIANTS
    LaneSound
    FirstIsAwake
PROPERTIES
    LaneWaitEnds
