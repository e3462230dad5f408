SPECIFICATION Spec
CONSTANTS
    Primary = p
    Clients = {a, b}
    Values = {v1, v2, big}
    Big = {big}
    Users <- CarefulUsers
CHECK_DEADLOCK FALSE
INVARIANTS FromOwner CleanHasClipboard OwnersAgree  LatestCopy
SYMMETRY Symmetry
