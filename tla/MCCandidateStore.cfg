CONSTANTS
    Processes  = {p1, p2}
    Labels     = {source, design}
    Values     = {v1, v2}
    Absent     = Absent
    MaxChanges = 1
    MaxCalls   = 5
SPECIFICATION Spec
SYMMETRY Exchanges
INVARIANTS TypeOK OneFreezer LineageWhole DecidedAsNamed PackageIsCandidate
PROPERTY SavesFollowTable
CHECK_DEADLOCK FALSE
