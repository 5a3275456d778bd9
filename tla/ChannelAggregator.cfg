SPECIFICATION FairSpec
CONSTANTS
    Station = {s1, s2}
    MaxBatch = 1
INVARIANTS TypeOK BatchesDontMix RoomForAnswer
PROPERTIES NoGoroutineLeak EveryBatchReported
CHECK_DEADLOCK FALSE
