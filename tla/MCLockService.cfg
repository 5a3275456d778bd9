SPECIFICATION Spec
CONSTANTS
    Server = {s1, s2}
    NoServer = none
    Clerk = {c1, c2}
    MaxLog = 3
    MaxElections = 2
    MaxRequests = 2
    MaxOrphans = 1
    MaxRestarts = 1
CONSTRAINT BoundedFaults
SYMMETRY Symmetry
INVARIANTS TypeOK ExactlyOnce Linearizable ApplyNeverBlocks
CHECK_DEADLOCK FALSE
