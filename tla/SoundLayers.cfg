CONSTANTS
    Frames = 2
    Modulus = 32
    Rate = 12
    Full = 2
    NaN = NaN
    CastOfNone = 0
    Ramp = 2
    PeriodDefault = 2
    ToneFast = 3
    ToneSlow = 4
    FastLDMax = 1
    FastOnspeed = 3
    SlowOnspeed = 2
    SlowStall = 3
    StallWarning = 3
    Tolerance = 5
    AlphaMinTone = 1
    Octaves = 1
    OnOffBase = 2
    PwmMin = 2
    PwmMax = 3
    Amplification = 6
    Settings <- MCSettings
    Airs <- MCAirs
    MaxSamples = 1
SPECIFICATION FairLayersSpec
PROPERTIES
    CyclesFinish
    NoClick
    StallIsHeard
    HearsRegime
CHECK_DEADLOCK FALSE
