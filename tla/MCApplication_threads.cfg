\* Failures, signals and the end of the program, over several threads.
CONSTANTS
    Failures <- MCFailures
    Configurations <- MCThreads
SPECIFICATION FairSpec
CHECK_DEADLOCK FALSE
INVARIANTS
    OneFailurePerThread
    StatusOfSessions
PROPERTY ProgramEnds
