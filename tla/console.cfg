CONSTANTS
    None = None
    Gone = Gone
    Records = {i1, i2}
    Shown = {v1, v2}
    OwnOrg = {v1}
    SeesAll = FALSE
    Versions = 2
    Cuts = 1
    Visits = 2
    InFlight = 3
    Users = {"admin", "dealer", "customer"}
    Under <- AboveEachOther
    Tabs = {t1, t2}
    Issues = 3
    Loads = 1
    AtOnce = 2
    ForReports <- SmallReports
    ForPages <- SmallPages
    ForViews <- SmallViews
    ForFeeds <- SmallFeeds
    ForQueries <- SmallQueries
    ForRanges <- SmallRanges
    ForPlayback <- SmallPlayback
    ForOnboarding <- SmallOnboarding
    ForRenewals <- SmallRenewals
    v1 = v1
    v2 = v2
    g1 = g1
    g2 = g2
    o1 = o1
    o2 = o2
    o3 = o3
    k1 = k1
    k2 = k2
    r1 = r1
    r2 = r2
    f1 = f1
    f2 = f2
SPECIFICATION Spec
SYMMETRY Symmetry
CHECK_DEADLOCK FALSE
INVARIANTS TypeOK ReportsHold DashboardHolds SessionHolds PagesHold ViewsHold
