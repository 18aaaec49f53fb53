SPECIFICATION Spec
CONSTANTS
    Request = {r1, r2}
    NoOne = NoOne
    Coarse = TRUE
    ReadFaults = FALSE
    MaxKeys = 3
    Lanes <- MCLanes
    ParkIdle = 2
    TouchDelay = 1
    TouchFaults = FALSE
    MaxQueue = 1
    Chat = {c1, c2}
    RateLimitPerSecond = 2
    RateLimitBurst = 2
    RateLimitUserMultiplier = 2
    Getter = {g1, g2}
    Nobody = Nobody
    CacheTTL = 2
    FetchTimeout = 1
    Name = {u, s}
    Absent = Absent
    Blank = Blank
    DefaultProfile = "persistent"
INVARIANTS
    CurrentKeyAccepted
    BurstsServed
    ConfigSound
    SameSandbox
PROPERTIES
    JudgedByFile
    ListsOnlyQuiet
    RelayEnds
CHECK_DEADLOCK FALSE
