CONSTANTS
    CriticalFields <- MCFields
    TrackedFields  <- MCTracked
SPECIFICATION Spec
INVARIANTS InputsClosed DiscoveryWhenUnresolved EvidenceProducible DutiesSeparated SilenceKeepsFields
