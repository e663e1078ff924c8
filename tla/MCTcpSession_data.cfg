\* The data of each direction: every split of the stream that a session sends,
\* and all ways to verify the right and wrong bytes that it receives.  And that the
\* session ends, also when the throttles grant no byte.
CONSTANTS
    BYTE_VALUES = 2
    BUFFER_SIZE = 3
    ROOM = 2
    EXCESS = 1
    Configurations <- MCData
SPECIFICATION FairSpec
CHECK_DEADLOCK FALSE
INVARIANTS
    VerificationExact
    SendsPattern
PROPERTY EventuallyEnds
