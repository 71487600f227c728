CONSTANTS
    v1 = v1
    v2 = v2
    u1 = u1
    t1 = t1
    t2 = t2
    bad = bad
    c1 = c1
    c2 = c2
    Imeis = {v1, v2, u1}
    Registered = {v1, v2}
    Times = {t1}
    Malformed = bad
    Payloads <- MCPayloads
    MaxEntries = 2
    MaxLen = 3
    BatchSize = 2
    PendingCount = 3
    StableName = TRUE
    BatchMaxRows = 2
    Timers = {c1}
    Faults = {"db", "crash", "signal"}
SPECIFICATION SlowFleetSpec
CHECK_DEADLOCK FALSE
INVARIANT PendingIsHeld
PROPERTY EventuallyAcked
