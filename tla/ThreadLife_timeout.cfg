\* The timed join gives up after a tenth of its time.
SPECIFICATION Spec
CONSTANTS
    MaxMillis = 3
    MaxNap = 2
INVARIANTS
    TimedJoinWaits
