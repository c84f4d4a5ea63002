CONSTANTS
    Writers    = {w1, w2}
    CommandIds = {c1, c2, c3}
    Bodies     = {b1, b2}
    MaxEvents  = 3
    NoOne      = NoOne
    Nothing    = Nothing
SPECIFICATION Spec
INVARIANTS ChainHolds OneEventPerCommand RepliesDurable
PROPERTY ImplementsCommandLog
