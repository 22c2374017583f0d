\* Two outside events or manual triggers of one workflow with one step.  Every run
\* they can cause fits MaxRunCount and the queue fits MaxQueue, so neither bound
\* disables a fair action.
SPECIFICATION FairSpec
CONSTANTS
    Triggers <- OneOnAlert
    ExtTypes = {"alert"}
    EngineOutcomes = {"completed"}
    MaxRunsPerWindow = 1
    MaxRuns = 1
    PersistLimit = 1
    MaxRunCount = 2
    MaxInputs = 2
    MaxQueue = 8
INVARIANTS NoLeakedKey 
PROPERTIES QuietWhenStopped KeyReleased
CHECK_DEADLOCK FALSE
