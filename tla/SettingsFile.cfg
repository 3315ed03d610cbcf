CONSTANTS
    Values = {d, v}
    Default = d
    Broken = broken
    MaxSaves = 2
    MaxEdits = 2
    MaxCrashes = 1
SPECIFICATION FairSpec
INVARIANTS
    PathIsWhole
    SavedIsStore
PROPERTIES
    NeverBackToDefault
    Settles
CHECK_DEADLOCK FALSE
