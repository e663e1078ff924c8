\* A UDP session with any network, source of datagrams and interruption.
CONSTANTS
    BYTE_VALUES = 2
    BUFFER_SIZE = 3
    RECEIVE_BUFFER = 1
    SEND_BUFFER = 1
    Configurations <- MCConfigurations
    DatagramSizes <- MCDatagramSizes
    Datagrams <- MCDatagrams
SPECIFICATION FairSpec
CHECK_DEADLOCK FALSE
INVARIANTS
    ControlInv
    VerificationExact
PROPERTIES
    KeepsPromise
    EventuallyEnds
