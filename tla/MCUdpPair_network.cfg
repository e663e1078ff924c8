\* Two testers over an ideal, a lossy or a repeating network of datagrams.
CONSTANTS
    BYTE_VALUES = 2
    BUFFER_SIZE = 4
    RECEIVE_BUFFER = 1
    SEND_BUFFER = 3
    Tests <- MCTests
    DatagramSizes <- MCDatagramSizes
SPECIFICATION FairSpec
CHECK_DEADLOCK FALSE
INVARIANTS
    FirstSuffices
    NothingCutOff
    SuccessIsExact
PROPERTY BothSucceed
