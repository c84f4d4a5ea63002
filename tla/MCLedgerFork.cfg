CONSTANTS
    Writers   = {w1, w2}
    Artifacts = {a1}
    Targets   = {t1}
    MaxEvents = 3
    NoOne     = NoOne
    None      = None
SPECIFICATION Spec
INVARIANT ChainValid
