CONSTANTS
    None = None
    CriticalFields <- MCFields
    TrackedFields  <- MCFields
    Goals    <- LowRiskGoals
    Contents = {"x"}
    Digests  = {"d"}
    Instructions = {"i"}
    Payloads <- LateTrouble
    Commands <- Deliver
    SteeredAt = {}
    Faults   = {}
    MaxRevision = 1
    MaxAttempt  = 1
    MaxCrashes  = 0
    CrashIn <- AnyCall
SPECIFICATION Spec
PROPERTY ResultsOfPresentStage
