\* Registering, saving, being killed and loading, with a store for two and a
\* registry counter that goes round.
SPECIFICATION Spec
CONSTANTS
    FaceNum = 2
    KeepLimit = 1
    TracePixels = 2
    UnknownMax = 4
    RegistryBase = 10
    RegistryLimit = 13
    MaxRecords = 2
    Feature <- MCFeature
    Score <- MCScore
    ScoreThresh = 6
    Printed <- MCPrinted
    Name = {"n1", "n2"}
    Unknown = "unknown"
    NullName = "nullname"
    NoName = ""
    NoTitle = NoTitle
    Frame <- FewFrames
    RegisterId = {0, 1, 11}
    MaxFrames = 2
INVARIANTS
    TypeOK
    IdTellsRecognition
    ReportedCanBeRegistered
    TablesAgree
    NullNameOnlyWhenFull
    FileFollowsStore
PROPERTIES
    PeopleKept
CHECK_DEADLOCK TRUE
