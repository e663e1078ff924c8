\* A whole process: a TCP session, a UDP session, and all that may happen to them.
CONSTANTS
    BYTE_VALUES = 1
    BUFFER_SIZE = 1
    ROOM = 1
    EXCESS = 0
    RECEIVE_BUFFER = 1
    SEND_BUFFER = 1
    DatagramSizes <- MCDatagramSizes
    Datagrams <- MCDatagrams
    Tests <- MCTests
SPECIFICATION FairSpec
CHECK_DEADLOCK FALSE
INVARIANT ZeroMeansTransferred
PROPERTIES
    ImplementsApplication
    AlwaysEnds
