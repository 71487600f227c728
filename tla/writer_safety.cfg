CONSTANTS
    v1 = v1
    v2 = v2
    u1 = u1
    t1 = t1
    t2 = t2
    bad = bad
    c1 = c1
    c2 = c2
    Imeis = {v1, v2}
    Registered = {v1, v2}
    Times = {t1}
    Malformed = bad
    Payloads <- MCPayloads
    MaxEntries = 3
    MaxLen = 2
    BatchSize = 2
    PendingCount = 2
    StableName = TRUE
    BatchMaxRows = 2
    Timers = {c1, c2}
    Faults = {"redis", "resolve", "db", "xack", "crash", "signal"}
SPECIFICATION Spec
CHECK_DEADLOCK FALSE
SYMMETRY Symmetry
INVARIANTS TypeOK AckedIsStored HeldOnce StateHasPoint
PROPERTY ImplementsIngest
