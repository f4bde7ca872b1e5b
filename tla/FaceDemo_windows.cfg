\* Faces that come, move, meet, leave and cross the edge.
SPECIFICATION Spec
CONSTANTS
    FaceNum = 2
    KeepLimit = 1
    TracePixels = 2
    UnknownMax = 5
    RegistryBase = 10
    RegistryLimit = 13
    MaxRecords = 2
    Feature <- MCFeature
    Score <- MCScore
    ScoreThresh = 6
    Printed <- MCPrinted
    Name = {"n1"}
    Unknown = "unknown"
    NullName = "nullname"
    NoName = ""
    NoTitle = NoTitle
    Frame <- ManyFrames
    RegisterId = {0}
    MaxFrames = 3
INVARIANTS
    EveryFaceReported
    WindowsBounded
    UnknownIdsDistinct
CHECK_DEADLOCK TRUE
