SPECIFICATION FairSpec
CONSTANTS
    Worker = {w1, w2, w3}
    NMap = 2
    NReduce = 2
    Key <- MCKey
    Hash <- MCHash
    Emits <- TwoFiles
    MaxCrashes = 2
INVARIANTS TypeOK OutputCorrect FilesListedOnce NoReadBeforeWrite
PROPERTY JobFinishes
CHECK_DEADLOCK FALSE
