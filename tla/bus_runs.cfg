\* Two events from outside, two changes of the subscriptions, a history of two events.
SPECIFICATION FairSpec
CONSTANTS
    Types <- TwoTypes
    FailureType <- Failure
    Patterns <- TwoPatterns
    Callbacks = {c1, c2}
    MaxHistory = 2
    Strict = TRUE
    MaxEvents = 2
    MaxChanges = 2
    MaxFailures = 2
INVARIANTS InOrderOnce 
PROPERTIES ComesToRest
CHECK_DEADLOCK FALSE
