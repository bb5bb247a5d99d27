SPECIFICATION FairQueueSpec
CONSTANTS
    d1 = d1
    d2 = d2
    d3 = d3
    d4 = d4
    Dispatches <- MCDispatches
    Bounded <- MCBounded
    MaxTickets = 5
INVARIANTS
    QueueSound
PROPERTIES
    QueueWaitEnds
