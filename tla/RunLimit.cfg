SPECIFICATION Spec
CONSTANTS
    c1 = c1
    c2 = c2
    c3 = c3
    c4 = c4
    r1 = r1
    r2 = r2
    k1 = k1
    k2 = k2
    k3 = k3
    v1 = v1
    ours = ours
    None = None
    Request = {c1, c2, c3, c4}
    Run = {r1, r2}
    Key = {k1, k2, k3}
    Value = {v1}
    Tenant = {ours}
    Definition = {d1}
    Step <- MCStep
    Yields <- MCYields
    QueueDepth = 1
    MaxWaiting = 1
    MaxBatch = 2
    MaxRecords = 1
    MaxStore = 3
    MaxRestarts = 1
CHECK_DEADLOCK FALSE
INVARIANTS
    HealthyIndexIsTheFile
    LimitPassedByOneBatch
