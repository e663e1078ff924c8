\* The control of both directions, with any peer and any interruption.
CONSTANTS
    BYTE_VALUES = 1
    BUFFER_SIZE = 2
    ROOM = 2
    EXCESS = 1
    Configurations <- MCTransfer
SPECIFICATION Spec
CHECK_DEADLOCK FALSE
INVARIANTS
    ControlInv
    HandlerMemoryExclusive
    NeverAbortsItself
    FinishedLeavesNothing
    SuccessMeansTransferred
    FinishedReceivedAll
PROPERTY
    FailureIsFinal
    KeepsPromise
