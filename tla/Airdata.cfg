CONSTANTS
    Samples <- Fields
    Expiry = 2
    NumBalls = 2
    FilterSizes = {2, 3}
    MaxBack = 1
SPECIFICATION FairSpec
INVARIANTS
    SpeedsSurviveNaN
    RateRecovers
PROPERTIES
    LossShows
