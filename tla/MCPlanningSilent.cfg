CONSTANTS
    CriticalFields <- MCFields
    TrackedFields  <- MCTracked
SPECIFICATION Spec
INVARIANT InstructionSuffices
