\* Messages may fail to decode; no crashes or storage faults.
CONSTANTS
    EvaluateDuration <- MCEvaluateDuration
    EvaluateInterval <- MCEvaluateInterval
    MaxMsgs = 1
    MaxCrashes = 0
    DecodeFaults = TRUE
    StorageFaults = FALSE
    NotFound = NotFound
    None = None
SPECIFICATION Spec
PROPERTY MalformedMessageIgnored
