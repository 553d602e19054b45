SPECIFICATION FairSpec
CONSTANTS
    c1 = c1
    Caller = {c1}
    Path = {"/t"}
    Exec = {1, 2}
    Operations <- MCOperations
    Release = {"Ubuntu"}
    NoExec = NoExec
    MaxFailures = 1
INVARIANTS
    TypeOK
    PanicOnlyAfterTimeout
    ClientBuilt
PROPERTIES
    AnswersWithinCall
    GoroutinesEnd
    CallsReturn
CHECK_DEADLOCK FALSE
