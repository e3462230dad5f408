SPECIFICATION FairSpec
CONSTANTS
    Sockets = {s1}
    Listener = listener
    MaxOps = 2
    MaxInput = 1
    MaxOut = 2
    ListenErrors = FALSE
CHECK_DEADLOCK FALSE
INVARIANTS
    JobsMatchPoll
PROPERTIES EverythingServed
