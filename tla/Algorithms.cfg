SPECIFICATION Spec
CONSTANTS
    Release = {"Ubuntu", "Alpine", "Debian"}
    TierInputs <- MCTiers
    LabelInputs <- MCLabels
    ChangeInputs <- MCChanges
    PodInputs <- MCPods
    ScheduleInputs <- MCSchedule
    ShutdownInputs <- MCShutdown
    ParseInputs <- MCParse
CHECK_DEADLOCK FALSE
INVARIANTS
    TiersAreRead
    LabelRoundTrip
    ModesAgree
    MountsAreSeen
    ScheduleOrder
    ShutdownOrder
    FailuresAreReported
