SPECIFICATION Spec
CONSTANTS
    k1 = k1
    k2 = k2
    w1 = w1
    w2 = w2
    Key = {k1, k2}
    Writer = {w1, w2}
    Capacity = 7
INVARIANTS
    IndexAgrees
    OutcomeIndexAgrees
    LadderOrder
PROPERTIES
    Implements
