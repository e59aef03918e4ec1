SPECIFICATION Spec
CONSTANTS
    Keys = {k1, k2}
    Lengths = {1, 3}
    MaxSize = 2
    ExpiryMayFail = FALSE
    Reqs = {r1, r2}
    NoCache = {TRUE, FALSE}
    Nobody = Nobody
    Purger = Purger
    CacheControlMaxSize = 4
    Replies <- MCReplies
    MaxTicks = 1
    MaxPurges = 1
SYMMETRY ReqSymmetry
INVARIANTS MainStopsLast FailsOnlyForTooBig LockIsHeldByTheLiving
