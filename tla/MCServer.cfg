SPECIFICATION FairSpec
CONSTANTS
    Process = {p1, p2}
    Last = 3
    MaxActive = 2
    None = None
INVARIANTS
    SchemaAsRecorded
    ServesWholeSchema
    SuccessCutsNothing
PROPERTY StartsAndStopsEnd
