\* One crash, no faults: does a restart after a resolve resolve again?
CONSTANTS
    EvaluateDuration <- MCEvaluateDuration
    EvaluateInterval <- MCEvaluateInterval
    MaxMsgs = 2
    MaxCrashes = 1
    DecodeFaults = FALSE
    StorageFaults = FALSE
    NotFound = NotFound
    None = None
SPECIFICATION Spec
PROPERTY ResolveOnlyActive
