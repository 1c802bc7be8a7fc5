SPECIFICATION FairSpec
CONSTANTS
    Job = {j1, j2}
    Order <- MCOrder
    Mirrors = {"mirror"}
    MaxPages = 3
    SnapPages = 2
    MaxConcurrent = 1
    Every = 1
    JobTimeout = 2
    Upstreams <- MCUpstreams
    Stored <- MCStored
    MaxTime = 3
CHECK_DEADLOCK FALSE
INVARIANTS
    TypeOK
    SlotsMatchRequests
    PoliteOverall
    TokensApart
    MirrorComplete
    NotFoundHonest
PROPERTIES
    JobsEnd
