CONSTANTS
    v1 = v1
    u1 = u1
    Payloads = {v1, u1}
    Registered = {v1}
    MaxEntries = 3
    MaxLen = 2
    BatchSize = 2
    PendingCount = 2
    StableName = TRUE
    Many = 2
    Steps = {"resolve", "save", "notify"}
    Faults = {"redis", "db", "xack", "crash"}
SPECIFICATION Spec
CHECK_DEADLOCK FALSE
INVARIANTS TypeOK AckedIsSaved SentIsSaved
PROPERTY AckedIsFinal
