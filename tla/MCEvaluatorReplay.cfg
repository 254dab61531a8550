\* One message, one crash, storage that never fails: the restarted subscription.
CONSTANTS
    EvaluateDuration <- MCEvaluateDuration
    EvaluateInterval <- MCEvaluateInterval
    MaxMsgs = 1
    MaxCrashes = 1
    DecodeFaults = FALSE
    StorageFaults = FALSE
    NotFound = NotFound
    None = None
SPECIFICATION Spec
PROPERTY ReplaysOnlyUnacked
