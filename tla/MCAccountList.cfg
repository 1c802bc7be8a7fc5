SPECIFICATION ListSpec
CONSTANTS
    MaxId = 4
    Time = {1, 2}
    MaxLimit = 2
    None = None
INVARIANT ListedOnce
