SPECIFICATION Spec
CONSTANTS
    c1 = c1
    c2 = c2
    a1 = a1
    a2 = a2
    ch1 = ch1
    ch2 = ch2
    event = event
    value = value
    Controller = {c1}
    Action = {a1}
    Chain = {ch1}
    Input = {event, value}
    EventInput = {}
    Entries <- OneEntry
    Delivers <- DeliversAll
    Wants <- WantsAll
    Key <- MCKey
    Budget = 2
    MaxAttempt = 3
    Capacity = 8
    Exclusive = TRUE
CHECK_DEADLOCK FALSE
INVARIANTS
    LatestIsLast
