CONSTANT MaxTimers = 3
SPECIFICATION FairSpec
INVARIANTS
    TypeOK
    FreedIsQuiet
    OnlySlotLives
PROPERTIES
    NoCallAfterCancel
    OwnerReturns
    TimerSpec
