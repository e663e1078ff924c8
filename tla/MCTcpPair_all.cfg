\* Two testers with any policies, a timer that may expire and a process that may
\* exit at any moment, and undisturbed when their policies fit.
CONSTANTS
    BYTE_VALUES = 2
    BUFFER_SIZE = 2
    ROOM = 1
    EXCESS = 1
    Tests <- MCTests
SPECIFICATION FairSpec
CHECK_DEADLOCK FALSE
INVARIANTS
    StreamsAgree
    SuccessConfirmed
    FailuresExplained
    BothWaitForPeer
PROPERTY BothSucceed
