SPECIFICATION Spec
CONSTANTS
    Replicas = {1, 2}
    RetrySteps = 2
    MaxChanges = 2
INVARIANTS
    TypeOK
    OneConditionPerType
PROPERTIES
    TransitionTimesKept
    ReadyAsAskedFor
    MasterFallsBackForCause
CHECK_DEADLOCK FALSE
