SPECIFICATION Spec
CONSTANTS
    Clients = {c1, c2}
    MaxTransfers = 2
    Sizes = {0, 2}
    MaxMoves = 3
SYMMETRY Symmetry
CHECK_DEADLOCK FALSE
INVARIANTS
    AcceptedIsWhole
    RejectedHadCause
