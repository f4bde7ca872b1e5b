\* Every call returns, and the recogniser is a registry; a smaller instance,
\* for the temporal properties.
SPECIFICATION Spec
CONSTANTS
    FaceNum = 2
    KeepLimit = 0
    TracePixels = 2
    UnknownMax = 3
    RegistryBase = 10
    RegistryLimit = 13
    MaxRecords = 2
    Feature <- MCFeature
    Score <- MCScore
    ScoreThresh = 6
    Printed <- MCPrinted
    Name = {"n1"}
    Unknown = "unknown"
    NullName = "nullname"
    NoName = ""
    NoTitle = NoTitle
    Frame <- FewFrames
    RegisterId = {0, 11}
    MaxFrames = 2
PROPERTIES
    CallsReturn
    IsRegistry
CHECK_DEADLOCK TRUE
