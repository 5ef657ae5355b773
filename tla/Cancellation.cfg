SPECIFICATION FairSpec
CONSTANTS
    root = root
    mid = mid
    leaf = leaf
    None = None
    t1 = t1
    t2 = t2
    Node = {root, mid, leaf}
    Root = root
    Parent <- ChainParent
    Main = t1
    Thread = {t1, t2}
CHECK_DEADLOCK FALSE
INVARIANTS
    AliveIsNeeded
    NoLostWake
PROPERTIES
    SeesCancel
    CancelReaches
