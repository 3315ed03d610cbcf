CONSTANTS
    Names = {p, q}
    BankSize = 3
    MaxWrites = 3
    MaxCrashes = 2
SPECIFICATION FileSpec
INVARIANTS
    OldOrNew
CHECK_DEADLOCK FALSE
