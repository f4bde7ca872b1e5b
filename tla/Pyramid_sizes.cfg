\* cal_pyramid_list with the program's factor and MinFaceSize and others.
SPECIFICATION PyramidSpec
CONSTANTS
    Heights <- Long
    Widths <- Sides
    MinSizes = {77, 100, 120}
    FactorNum = 7
    FactorDen = 10
INVARIANTS
    SizesTypeOK
    EveryWindowFits
    EveryFaceSizeSeen
