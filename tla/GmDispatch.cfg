SPECIFICATION FairSpec
CONSTANTS
    a = a
    b = b
    c = c
    x = x
    y = y
    Tasks <- MCTasks
    Claims <- MCTasks
    Dispatches = {a, b}
    Bounded = {a, b}
    Raw = {}
    ReadOnly = {b}
    Hung = {a}
    Converted = {c}
    Limit = 2
    RunMax = 2
    MaxTickets = 3
    Nobody = Nobody
    Identities <- MCIdentities
    IdentityOf <- MCIdentityOf
    Network = {}
    Budget <- MCBudget
    ToolBudget <- MCToolBudget
    Stale = 1
    Yield = 1
    Ttl = 2
    MinHeld = 1
    MaxAge = 2
CHECK_DEADLOCK FALSE
INVARIANTS
    DispatchesSound
PROPERTIES
    OthersEnd
