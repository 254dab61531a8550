\* One message, one crash, failing storage reads and writes: redelivery after
\* a crash, and cancellation by shutdown or by a failed bootstrap.
CONSTANTS
    EvaluateDuration <- MCEvaluateDuration
    EvaluateInterval <- MCEvaluateInterval
    MaxMsgs = 1
    MaxCrashes = 1
    DecodeFaults = FALSE
    StorageFaults = TRUE
    NotFound = NotFound
    None = None
SPECIFICATION Spec
PROPERTY EveryMessageApplied
PROPERTY ShutdownCompletes
