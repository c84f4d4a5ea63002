CONSTANTS
    Writers   = {w1, w2}
    Artifacts = {a1, a2}
    Targets   = {t1, t2}
    MaxEvents = 3
    NoOne     = NoOne
    None      = None
SPECIFICATION Spec
INVARIANTS BindingsMatchEvents OneTargetPerArtifact
