SPECIFICATION Spec
CONSTANTS
    Boxes = 2
    Caller = {c1, c2}
    Threshold = 0
    Services <- MCServices
    Nil = Nil
    Named <- MCNamed
    Template = {"base", "other"}
    BaseTemplate = "base"
    Blueprints <- MCBlueprints
    NoPod = NoPod
    Tiers = {"per-user-pvc", "shared-subpath", "empty-dir"}
    Maker = {m1, m2}
    MaxEdits = 1
    MaxMakes = 2
    Missing = Missing
INVARIANTS
    ClaimedWorkKept
    StampTrue
PROPERTIES
    ClaimServesLastWrite
    IdleReleased
CHECK_DEADLOCK FALSE
