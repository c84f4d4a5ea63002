CONSTANTS
    None = None
    CriticalFields <- MCFields
    TrackedFields  <- MCFields
    Goals    <- LowRiskGoals
    Contents = {"x"}
    Digests  = {"d"}
    Instructions = {"i"}
    Payloads <- AlwaysPass
    Commands <- Deliver
    SteeredAt <- StageKinds
    Faults   = {"alter"}
    MaxRevision = 2
    MaxAttempt  = 1
    MaxCrashes  = 1
    CrashIn <- AnyCall
SPECIFICATION WitnessedSpec
INVARIANT LogCoversSnapshot
PROPERTIES StaleWorkFrozen ImplementsLifecycle TokensComeBack GatedOnFoundEvidence
