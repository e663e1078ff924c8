\* Both ends of a transfer against the clock, on hosts that are prompt and on others.
CONSTANTS
    SECOND = 10
    MILLI = 5
    LATENESS = 2
    ROOM = 3
    HORIZON = 90
    STALLED = 9
    Tests <- MCTests
    Launches <- MCLaunches
SPECIFICATION Spec
CHECK_DEADLOCK FALSE
INVARIANTS
    ScheduleInv
    SlowerEndGoverns
    NoDrift
    TimeoutExplained
    StatisticsFaithful
