CONSTANTS
    None = None
    Now = Now
    Damage = {10, 65, 120, 121}
    Chunks = {1, 7, 1000}
    Limit = 10240
    TextNone = TextNone
    TextNow = TextNow
    TextChunks = {1, 5, 1000}
    TextLimit = 1000
SPECIFICATION Spec
CHECK_DEADLOCK FALSE
INVARIANTS TypeOK IntactFramesArrive OthersUnharmed
