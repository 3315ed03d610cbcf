CONSTANTS
    Values = {d, v}
    Default = d
    Broken = broken
    MaxSaves = 1
    MaxEdits = 1
    MaxCrashes = 0
SPECIFICATION FairSpec
PROPERTY
    EditAfterSaveLoads
CHECK_DEADLOCK FALSE
