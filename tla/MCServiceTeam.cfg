CONSTANTS
    None = None
    CriticalFields <- MCFields
    TrackedFields  <- MCFields
    Goals    <- BothRisks
    Contents = {"x"}
    Digests  = {"d", "e"}
    Instructions = {"i", "j"}
    Payloads <- Disagree
    Commands <- Designers
    SteeredAt = {"scope-risk", "oracle"}
    Faults   = {"rewrite"}
    MaxRevision = 2
    MaxAttempt  = 1
    MaxCrashes  = 1
    CrashIn = {"revise"}
SPECIFICATION Spec
INVARIANT SavedStagesEarned
PROPERTY LoggedInstructionHolds
CHECK_DEADLOCK FALSE
