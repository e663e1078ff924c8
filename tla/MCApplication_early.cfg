\* A signal before the first session exists.
CONSTANTS
    Failures <- MCFailures
    Configurations <- MCEarly
SPECIFICATION Spec
CHECK_DEADLOCK FALSE
INVARIANT ZeroMeansCompleted
