SPECIFICATION TasksSpec
CONSTANTS
    Id = {i1, i2}
    Session = {s1, s2}
    Relay = {r1, r2}
    None = None
    MaxTerminals = 1
    DetachTTL = 0
    OutChan = 1
    MaxOutput = 0
    MaxRestarts = 1
    Files = 3
    Depth = 1
    Limits = {2, 5}
    MaxChanges = 2
    Proc = {sh, p1, p2}
    Shell = sh
    MaxOutputBytes = 1
    MaxWritten = 2
CHECK_DEADLOCK FALSE
INVARIANTS
    RestoredWhole
    NothingLeftBehind
PROPERTIES
    
    
    CommandEnds
