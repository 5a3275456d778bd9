SPECIFICATION Spec
CONSTANTS
    Node = {n1, n2}
    Clerk = {c1}
    MaxCalls = 2
    MaxOps = 2
    Crasher = n1
INVARIANTS TypeOK PositiveReplyDurable PartitionRespected
PROPERTIES OldInstanceIsolated CallReturns DispatchEnds
CONSTRAINT OneCrasher
CHECK_DEADLOCK FALSE
