\* Evaluator without crashes or storage faults: every message decodes.
CONSTANTS
    EvaluateDuration <- MCEvaluateDuration
    EvaluateInterval <- MCEvaluateInterval
    MaxMsgs = 3
    MaxCrashes = 0
    DecodeFaults = FALSE
    StorageFaults = FALSE
    NotFound = NotFound
    None = None
SPECIFICATION Spec
INVARIANT AlertMatchesIncident
PROPERTY HealthyClearsFiring
PROPERTY ImplementsAlertPolicy
