SPECIFICATION FairSpec
CONSTANTS
    Station = {s1, s2}
    MaxBatch = 2
INVARIANTS TypeOK AverageOfBatch
PROPERTY EveryBatchReported
CHECK_DEADLOCK FALSE
