CONSTANTS
    Requests = {r1, r2}
    Environments <- SomeEnvironments
    Unset = Unset
    NotADuration = NotADuration
    Grace = 5
    FlushTimeout = 1
SPECIFICATION Spec
INVARIANTS
    TypeOK
    ExitCodeIsTruthful
    TracesAreComplete
PROPERTIES
    DrainIsLongEnough
    EveryHandlerEnds
    SignalEndsProcess
CHECK_DEADLOCK FALSE
