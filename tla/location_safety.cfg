CONSTANTS
    v1 = v1
    u1 = u1
    Imeis = {v1, u1}
    Registered = {v1}
    Payloads <- MixedReports
    MaxEntries = 2
    MaxLen = 1
    BatchSize = 2
    PendingCount = 2
    StableName = TRUE
    Steps <- MCSteps
    Faults = {"redis", "db", "xack", "crash", "expiry"}
SPECIFICATION Spec
CHECK_DEADLOCK FALSE
INVARIANTS TypeOK AckedIsStored ShownIsStored FenceAlertFollowsKey CrossingRaised
PROPERTY AckedIsFinal
