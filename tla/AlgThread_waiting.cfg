\* Two unknown faces come, look away, wait, are registered and go, with the
\* smallest number of slots that serves two faces.
SPECIFICATION Spec
CONSTANTS
    FaceNum = 2
    NSlots = 3
    Wait = 1
    IdBound = 10
    RegistryLimit = 12
    MaxRecords = 2
    OldPeople <- SomeOldPeople
    NameBase = 10
    UnknownId = {0, 1}
    EyeX = {1}
    IntHalf = 8
    StartTime = 6
    Step <- AnyStep
    MinTime = 6
    MaxTime = 8
    MaxNames = 1
INVARIANTS
    TypeOK
    NoSlotLeaked
    EveryUnknownFaceWaits
    AtMostTwoSlots
    RegisteredAfterWaiting
    NobodyWaitsTooLong
    PeopleComplete
VIEW LiveView
CHECK_DEADLOCK TRUE
