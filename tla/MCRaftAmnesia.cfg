SPECIFICATION Spec
CONSTANTS
    N = 3
    Command = {a, b}
    MaxTerm = 1
    MaxLog = 1
    MaxRestarts = 1
    MaxSpawned = 1
    MaxBeats = 2
    MaxOrphans = 0
INVARIANT LogMatching
SYMMETRY CommandSymmetry
CONSTRAINT Reelected
CHECK_DEADLOCK FALSE
