SPECIFICATION FairSpec
CONSTANTS
    Threads = {t1, t2}
    MaxEvents = 3
    Early = {t1}
    MayFail = TRUE
    MaySwap = TRUE
CHECK_DEADLOCK FALSE
INVARIANTS NumbersInUse NothingVanishes InOrder
PROPERTY EventuallyHandled
