\* The bytes of a slice are rounded down: the timers expire before the throttle has
\* granted the size.
CONSTANTS
    SECOND = 10
    MILLI = 5
    LATENESS = 0
    ROOM = 3
    HORIZON = 90
    STALLED = 12
    Tests <- MCTruncated
    Launches <- MCNoLater
SPECIFICATION Spec
CHECK_DEADLOCK FALSE
INVARIANT CompletesInTime
