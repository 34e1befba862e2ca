SPECIFICATION Spec
CONSTANTS
    MaxWrites = 2
    ThrottleInterval = 2
    Build <- Builds
    Shot = {"s1", "s2"}
    WriteCommand = {"w1", "w2"}
    Query = {"q1"}
    Idle = "idle"
    Workloads <- MCWorkloads
INVARIANTS
    OwnStates
    AnswersAreTrue
PROPERTIES
    StopReturns
    FilesFollow
CHECK_DEADLOCK FALSE
