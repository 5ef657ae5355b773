SPECIFICATION Spec
CONSTANTS
    c1 = c1
    c2 = c2
    c3 = c3
    r1 = r1
    k1 = k1
    k2 = k2
    v1 = v1
    v2 = v2
    ours = ours
    theirs = theirs
    None = None
    Request = {c1, c2, c3}
    Run = {r1}
    Key = {k1, k2}
    Value = {v1, v2}
    Tenant = {ours, theirs}
    Definition = {d1, d2}
    Step <- MCStep
    Yields <- MCYields
    QueueDepth = 1
    MaxWaiting = 1
    MaxBatch = 2
    MaxRecords = 2
    MaxStore = 2
    MaxRestarts = 1
CHECK_DEADLOCK FALSE
INVARIANTS
    TypeOK
    RecordedIsDurable
    OneRecordPerStep
    OneDefinitionPerRun
    HealthyIndexIsTheFile
    IndexIsWritten
    FailureFindsPoison
PROPERTIES
    Answered
