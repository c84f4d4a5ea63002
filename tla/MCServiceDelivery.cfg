CONSTANTS
    None = None
    CriticalFields <- MCFields
    TrackedFields  <- MCFields
    Goals    <- LowRiskGoals
    Contents = {"x"}
    Digests  = {"d"}
    Instructions = {"i"}
    Payloads <- BuildTrouble
    Commands <- Stopping
    SteeredAt = {}
    Faults   = {"tamper", "alter"}
    MaxRevision = 1
    MaxAttempt  = 2
    MaxCrashes  = 1
    CrashIn <- AnyCall
SPECIFICATION Spec
INVARIANTS TypeOK MissionsSound StoresCoverLog ReleasedOnEvidence OneGrantPerOperation SnapshotMatchesLog AttemptsMatchLog
PROPERTIES DecisionsKept CheckpointsOfRunning
