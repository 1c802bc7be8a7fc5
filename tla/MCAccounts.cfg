SPECIFICATION Spec
CONSTANTS
    MaxId = 2
    Client = {c1, c2}
    StaticTokens = TRUE
    MaxIssued = 4
CHECK_DEADLOCK FALSE
SYMMETRY ClientSymmetry
INVARIANTS
    TypeOK
    RefreshOnce
    DevicesOfOwner
    DataOfOwnerUnraced
