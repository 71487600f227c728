CONSTANTS
    v1 = v1
    u1 = u1
    Imeis = {v1, u1}
    Registered = {v1}
    Payloads <- MixedReports
    MaxEntries = 1
    MaxLen = 1
    BatchSize = 1
    PendingCount = 2
    StableName = TRUE
    Steps <- MCSteps
    Faults = {"crash"}
SPECIFICATION Spec
CHECK_DEADLOCK FALSE
INVARIANT AlertsSurviveRetry
