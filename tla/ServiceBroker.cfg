SPECIFICATION FairSpec
CONSTANTS
    p1 = p1
    p2 = p2
    p3 = p3
    c1 = c1
    Providers <- MCProviders
    Dispatches = {c1}
    NoLease = NoLease
    Full = 2
INVARIANTS
    CountsAreLeases
    
PROPERTIES
    StaysRoutable
    NobodyStarves
