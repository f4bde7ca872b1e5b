\* start, join and the timed join beside the thread.
SPECIFICATION Spec
CONSTANTS
    MaxMillis = 3
    MaxNap = 2
INVARIANTS
    TypeOK
    JoinWaitsForRun
PROPERTIES
    JoinReturns
