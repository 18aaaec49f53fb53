SPECIFICATION FairSpec
CONSTANTS
    Reaper = {rp}
    Resolver = {r1}
    None = None
    Deployments <- MCDeletion
    Finalizer = TRUE
    IdleTTL = 0
    ParkIdle = 1
    ReapIdle = 1
    Grace = 1
CHECK_DEADLOCK FALSE
PROPERTY DeletionCompletes
