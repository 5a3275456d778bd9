SPECIFICATION Spec
CONSTANTS
    N = 3
    Command = {a}
    MaxTerm = 2
    MaxLog = 1
    MaxRestarts = 1
    MaxSpawned = 1
    MaxBeats = 1
    MaxOrphans = 1
INVARIANTS TypeOK ElectionSafety VoteOnce LogDurable LogTermsOrdered
CONSTRAINT TwoCandidates
CHECK_DEADLOCK FALSE
