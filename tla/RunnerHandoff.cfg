SPECIFICATION Spec
CONSTANTS
    Execs <- MCExecs
    Spawns <- MCSpawns
    Workers = 1
    MaxClaims = 1
CHECK_DEADLOCK FALSE
INVARIANTS
    AnswersSurvive
    StoppedStaysStopped
    StagedIsAwaited
PROPERTIES
    NoStartUnderGuard
    DrainEnds
