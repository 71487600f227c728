CONSTANTS
    None = None
    Absent = Absent
    Ones = {k1, k2}
    Twos = {u1, u2}
    Askers = {w1, w2}
    Vehicles = {v1}
    GroupIds = {g1}
    Emails = {e1, e2}
    Bodies <- BodiesOfOne
    FirstTables <- DealersAndUsers
    TenancyFaults = {"audit", "db", "crash"}
    Imeis = {x}
    Orgs = {o1, o2}
    Parent <- DealerAndChild
    Users = {o1, "superadmin"}
    Activity = {None}
    Resolvers = {"location", "writer"}
    Caching = "location"
    CacheFaults = {"redis", "groups", "cascade"}
    Addresses = {a1, a2, a3}
    Capacity = 6
    Unit = 3
    Rate = 2
    MaxKeys = 2
    IdleAfter = 3
    LastTick = 5
    Geofences = {g1}
    Routes = {r1}
    Ttl = 1
    Edits = 3
    LastCheck = 3
    Places = {p1, p2}
    Browsers = {b1}
    Handlers = {h1, h2}
    Gap = 2
    Patience = 3
    CacheMax = 1
    LastTime = 5
    Calls = 3
    Saves = {q1, q2}
    Keys = {x}
    Values = {y}
    Passwords = {"a", "b"}
    EnvKey = FALSE
    Restarts = 1
    Devices = {d1, d2}
    Tiers = {"Starter"}
    Tier <- OneTier
    Limits = {0, 1, 2}
    Batches <- AloneAndTogether
    Dealings = {q1, q2, q3}
    o1 = o1
    o2 = o2
    d1 = d1
    d2 = d2
SPECIFICATION Spec
SYMMETRY Symmetry
CHECK_DEADLOCK FALSE
INVARIANTS TypeOK TenancyHolds StaleHasCause LicencesHold ServicesHold
