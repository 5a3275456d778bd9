SPECIFICATION FairSpec
CONSTANTS
    Thread = {t1, t2}
    Account <- MCAccount
    Request <- CustomerRequests
    MaxCalls = 3
INVARIANT TypeOK
PROPERTIES Atomic EveryCallReturns
CHECK_DEADLOCK FALSE
