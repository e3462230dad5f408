SPECIFICATION FairSpec
CONSTANTS
    Primary = p
    Clients = {a, b, o}
    Old = {o}
    Copiers = {p, b, o}
    Pasters = {a}
    MayTimeOut = TRUE
    Prompt = TRUE
    MaxPastes = 2
    MaxCopies = 1
    MaxDrops = 1
CHECK_DEADLOCK FALSE
INVARIANTS PastesConnected WaitsForSomething PastedWasDelivered
PROPERTY PasteEnds
