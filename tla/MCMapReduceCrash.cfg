SPECIFICATION RestartSpec
CONSTANTS
    Worker = {w1, w2}
    NMap = 2
    NReduce = 2
    Key <- MCKey
    Hash <- MCHash
    Emits <- TwoFiles
    MaxCrashes = 1
PROPERTY CrashesTolerated
CHECK_DEADLOCK FALSE
