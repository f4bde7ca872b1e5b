\* A restart, then a registration: the id, and with it the record, of somebody
\* else is taken over.
SPECIFICATION Spec
CONSTANTS
    FaceNum = 2
    KeepLimit = 1
    TracePixels = 2
    UnknownMax = 4
    RegistryBase = 10
    RegistryLimit = 20
    MaxRecords = 4
    Feature <- MCFeature
    Score <- MCScore
    ScoreThresh = 6
    Printed <- MCPrinted
    Name = {"n1", "n2"}
    Unknown = "unknown"
    NullName = "nullname"
    NoName = ""
    NoTitle = NoTitle
    Frame <- FewFrames
    RegisterId = {0}
    MaxFrames = 1
PROPERTIES
    NameNeverChanges
CHECK_DEADLOCK TRUE
