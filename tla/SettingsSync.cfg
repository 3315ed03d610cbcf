CONSTANTS
    Displays = {a, b}
    Params = {"SCREEN_BRIGHTNESS", "SOUND_SCHEME"}
    absent = absent
    Files <- MCFiles
    MaxMoves = 2
    MaxQueue = 1
SPECIFICATION FairSpec
INVARIANTS
    TypeOK
    StoreIsSaved
PROPERTIES
    LeaderUnmoved
    Converges
    FallsSilent
CHECK_DEADLOCK FALSE
