CONSTANTS
    None = None
    CriticalFields <- MCFields
    TrackedFields  <- MCFields
    Goals    <- LowRiskGoals
    Contents = {"x"}
    Digests  = {"d"}
    Instructions = {"i"}
    Payloads <- AlwaysPass
    Commands <- Deliver
    SteeredAt = {}
    Faults   = {}
    MaxRevision = 1
    MaxAttempt  = 1
    MaxCrashes  = 1
    CrashIn <- AnyCall
SPECIFICATION Spec
INVARIANT Resumable
