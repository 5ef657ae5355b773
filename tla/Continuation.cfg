SPECIFICATION Spec
CONSTANTS
    Action = {a1}
    MaxAttempt = 3
    MaxGeneration = 5
    EventsAt = 2
    MaxEvents = 3
    MaxUnresolved = 2
    MaxSettled = 2
CHECK_DEADLOCK FALSE
INVARIANTS
    TypeOK
    FoldKept
    AdmittedOnce
    AckedIsReached
    NoRungSkipped
    ReopensUnlessResumed
PROPERTIES
    OnlyTheLiveIsWritten
