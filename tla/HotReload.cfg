CONSTANTS
    v1 = v1
    v2 = v2
    s1 = s1
    s2 = s2
    d1 = d1
    c1 = c1
    t1 = t1
    t2 = t2
    None = None
    Hashes <- MCHashes
    FirstHash = v1
    Slots <- MCSlots
    Dispatchers <- MCDispatchers
    Callers <- MCCallers
    Threads <- MCThreads
    MaxPublish = 2
    MaxFails = 1
SPECIFICATION Spec
INVARIANTS
    StoresAreOwed
    CurrentIsKept
    BytesAreTheirHash
PROPERTY DiskGetsLoaded
