\* Files of up to three lines, their sockets, and the cores of the threads.
CONSTANTS
    SIZE_VALUES = 1048576
    CORE_VALUES = 4
    MAX_LINES = 3
    INT_VALUES = 512
    HostOf <- MCHostOf
    PortOf <- MCPortOf
    EPHEMERAL = {7, 9}
    Taken <- MCTaken
    CoreOptions <- MCCoreOptions
    Lines <- MCLines
SPECIFICATION ConfigSpec
CHECK_DEADLOCK FALSE
INVARIANTS
    LinesIndependent
    SessionsAccepted
    EndpointsMeet
    CoresListed
