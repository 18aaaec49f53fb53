SPECIFICATION Spec
CONSTANTS
    Reaper = {rp}
    Resolver = {r1}
    None = None
    Deployments <- MCVolume
    Finalizer = TRUE
    IdleTTL = 0
    ParkIdle = 0
    ReapIdle = 1
    Grace = 1
CHECK_DEADLOCK FALSE
INVARIANT WorkKeptSheltered
PROPERTIES ColdNeverEmptied OnlyBadSnapshotsLose
