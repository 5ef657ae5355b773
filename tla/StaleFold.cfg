SPECIFICATION Spec
CONSTANTS
    c1 = c1
    c2 = c2
    a1 = a1
    a2 = a2
    ch1 = ch1
    ch2 = ch2
    event = event
    value = value
    Controller = {c1, c2}
    Action = {a1, a2}
    Chain = {ch1, ch2}
    Input = {event, value}
    EventInput = {event}
    Entries <- TwoChains
    Delivers <- DeliversEach
    Wants <- WantsAll
    Key <- MCKey
    Budget = 1
    MaxAttempt = 1
    Capacity = 8
    Exclusive = FALSE
SYMMETRY ControllerSymmetry
CHECK_DEADLOCK FALSE
INVARIANTS
    UnknownIsHeld
