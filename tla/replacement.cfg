CONSTANTS
    x1 = x1
    x2 = x2
    y1 = y1
    y2 = y2
    Xs = {x1, x2}
    Ys = {y1, y2}
    Transactions = {t1, t2, t3}
    Tables = {"error", "nothing", "update"}
    Lists <- MCLists
    Dangling = TRUE
SPECIFICATION FairSpec
CHECK_DEADLOCK FALSE
INVARIANTS TypeOK OlderRowsAreGone AskedIsThere
PROPERTIES EveryReplacementEnds
