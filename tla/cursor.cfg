SPECIFICATION Spec
CONSTANTS
    P = P
    A = A
    B = B
    C = C
    Nil = Nil
    Primary = P
    Screens = {P, A, B, C}
    Connected = {P, A, B}
    Org <- MCOrg
    Size <- MCSize
    Links <- FarLinks
    Whole = 2
    JumpZone = 1
    Deltas <- MCDeltas
    MaxHops = 6
    Delays = {TRUE, FALSE}
    Corners <- TopRight
    CornerSize = 1
    LeaveMayFail = FALSE
INVARIANTS PositionOnScreen RoundTrip WaitWhole
PROPERTIES NoBounce
