SPECIFICATION FairRelaySpec
CONSTANTS
    MaxBody = 6
    Frame = 1
    Spelling = {s1, s2}
    Value = {empty, ours}
    Empty = empty
    DefaultUA = default
    Absent = absent
    Asked = {0, 1, 3}
    DefaultTimeout = 1
    MaxTimeout = 2
INVARIANTS
    RelayTypeOK
    WholeOrNothing
PROPERTY AnsweredAtLast
CHECK_DEADLOCK FALSE
