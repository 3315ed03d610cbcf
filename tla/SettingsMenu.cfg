CONSTANTS
    ShallowSize = 1
    DeepSize = 2
    CancelDelay = 5
    LongPressDelay = 2
    MaxLag = 1
    MaxKeys = 3
    MaxUnplugs = 1
    MaxQueue = 1
SPECIFICATION FairSpec
INVARIANTS
    IndexInRange
    CancelStaleByOne
PROPERTIES
    LongPressMeansHeld
    ShallowCloses
CHECK_DEADLOCK FALSE
