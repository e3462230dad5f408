SPECIFICATION Spec
CONSTANTS
    HeaderSize = 2
    BodySize = 2
    MaxMessages = 3
    Positions = {1, 2}
    MaxReads = 3
CHECK_DEADLOCK FALSE
INVARIANTS
    CursorWhereMeant
    NothingForgotten
