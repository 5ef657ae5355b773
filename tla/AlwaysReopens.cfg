SPECIFICATION Spec
CONSTANTS
    Action = {a1}
    MaxAttempt = 1
    MaxGeneration = 2
    EventsAt = 1
    MaxEvents = 2
    MaxUnresolved = 2
    MaxSettled = 2
CHECK_DEADLOCK FALSE
INVARIANT
    AlwaysReopens
