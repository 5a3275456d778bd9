SPECIFICATION Spec
CONSTANTS
    N = 3
    Command = {a}
    MaxTerm = 2
    MaxLog = 1
    MaxRestarts = 0
    MaxSpawned = 1
    MaxBeats = 2
    MaxOrphans = 0
INVARIANT StateMachineSafety
CONSTRAINT Chain
CHECK_DEADLOCK FALSE
