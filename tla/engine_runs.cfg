\* All small DAGs of sequential nodes, the compiled chains and some parallel groups.
SPECIFICATION EngineFairSpec
CONSTANTS
    Definitions <- All
    MaxNodes = 4
INVARIANTS NothingLost FailureReported PredsFirst
PROPERTIES CancelStops Terminates
