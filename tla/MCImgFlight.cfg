SPECIFICATION FairSpec
CONSTANTS
    Keys = {k1, k2}
    Request = {r1, r2, r3}
    NoRequest = NoRequest
    MaxArrivals = 5
    MaxEvents = 2
CHECK_DEADLOCK FALSE
INVARIANTS
    TypeOK
    OneFlight
PROPERTIES
    Answered
