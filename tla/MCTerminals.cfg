SPECIFICATION Spec
CONSTANTS
    Id = {i1}
    Session = {s1, s2}
    Relay = {r1, r2}
    None = None
    MaxTerminals = 1
    DetachTTL = 0
    OutChan = 1
    MaxOutput = 2
    MaxRestarts = 1
SYMMETRY MCSymmetry
CHECK_DEADLOCK FALSE
INVARIANTS
    NoOutputLost
    NoOrphanShell
