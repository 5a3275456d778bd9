SPECIFICATION Spec
CONSTANTS
    N = 3
    Command = {a}
    MaxTerm = 3
    MaxLog = 2
    MaxRestarts = 0
    MaxSpawned = 1
    MaxBeats = 1
    MaxOrphans = 0
INVARIANT LogMatching
PROPERTY LeaderAppendOnly
CONSTRAINT Rota
CHECK_DEADLOCK FALSE
