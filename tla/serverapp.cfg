SPECIFICATION FairSpec
CONSTANTS
    Requests = {"suspend", "reset", "reconnect"}
    Restartable = TRUE
    Calm = TRUE
    MaxUnavailable = 1
    MaxServers = 3
    MaxQueue = 3
CHECK_DEADLOCK FALSE
INVARIANTS StateTellsObjects StoppedOnce RunsUnlessSuspended
PROPERTY StopEnds
