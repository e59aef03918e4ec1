SPECIFICATION FairSpec
CONSTANTS
    Keys = {k1}
    Lengths = {3}
    MaxSize = 2
    ExpiryMayFail = TRUE
    Reqs = {r1}
    NoCache = {FALSE}
    Nobody = Nobody
    Purger = Purger
    CacheControlMaxSize = 4
    Replies <- MCReplies
    MaxTicks = 2
    MaxPurges = 1
PROPERTIES RequestsAnswered CommandsCarriedOut ShutdownCompletes
