SPECIFICATION FairSpec
CONSTANTS
    r1 = r1
    r2 = r2
    t1 = t1
    t2 = t2
    d1 = d1
    d2 = d2
    a = a
    b = b
    z = z
    None = None
    Cids = {d1, d2, a, b, z}
    Roots = {d1, d2, a}
    Links <- MCLinks
    Opaque = {z}
    Reqs = {r1, r2}
    Ops <- MCOps
    Cars <- MCCars
    Tasks = {t1, t2}
    TaskOf <- MCTaskOf
    UrlParses = TRUE
    MAX_ENTRIES = 2
    MaxCrashes = 1
PROPERTIES JoinReturns
CHECK_DEADLOCK FALSE
