CONSTANTS
    Samples <- Angles
    Expiry = 2
    NumBalls = 2
    FilterSizes = {2, 3}
    MaxBack = 1
SPECIFICATION Spec
INVARIANT
    AnglesStayNumbers
