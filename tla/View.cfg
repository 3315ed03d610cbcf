CONSTANTS
    Params <- MCParams
    absent = absent
    Width = 2
    Height = 5
    AltimeterHeight = 3
    DisplayMargin = 1
    NumBalls = 3
    NaN = NaN
    CastsOfNaN = {0, 7}
    Airs <- MCAirs
    Docs <- MCDocs
    Knob <- MCKnob
SPECIFICATION Spec
INVARIANTS
    ScreenTypeOK
    RepaintsPanel
    InItsPlace
    NoDataShows
    StrokesStartFresh
    ReadsBack
