\* detect with up to two cells lit.
SPECIFICATION Spec
CONSTANTS
    Heights = {24}
    Widths = {18}
    MinSizes = {12}
    FactorNum = 7
    FactorDen = 10
    Unit = 64
    AlgType = "TENGINE"
    Scores = {9, 10, 11}
    PNetThreshold = 9
    RNetThreshold = 9
    ONetThreshold = 9
    Shifts <- SomeShifts
    Marks <- EyeAndMouth
    CellColumns = {0, 1, 3}
    CellLines = {0, 2, 6}
    MaxLit = 2
INVARIANTS
    TypeOK
    PatchesInside
    SmallMovesAreSafe
    MarksInBox
    NoneInsideAnother
    FacesInFrame
