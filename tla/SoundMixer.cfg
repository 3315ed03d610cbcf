CONSTANTS
    Kinds = {flyonspeed, stallfence}
    Unknown = unknown
    MaxChanges = 2
SPECIFICATION FairSpec
INVARIANTS
    LayersAlive
PROPERTIES
    HearsSetting
    Joins
CHECK_DEADLOCK FALSE
