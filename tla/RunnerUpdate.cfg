SPECIFICATION Spec
CONSTANTS
    t1 = t1
    t2 = t2
    Builds = {1, 2, 3}
    VersionOf <- MCVersionOf
    NeedsRunner <- MCNeedsRunner
    Threads <- MCThreads
    Runners = {1, 2, 3}
    MaxEvents = 3
CHECK_DEADLOCK FALSE

    
PROPERTIES
    
    WorksInTheEnd
    NewestInTheEnd
    RunnerSettles
