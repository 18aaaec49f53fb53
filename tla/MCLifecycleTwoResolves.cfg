SPECIFICATION Spec
CONSTANTS
    Reaper = {rp}
    Resolver = {r1, r2}
    None = None
    Deployments <- MCTwoResolves
    Finalizer = TRUE
    IdleTTL = 0
    ParkIdle = 0
    ReapIdle = 1
    Grace = 1
CHECK_DEADLOCK FALSE
PROPERTY ServesLastWrite
