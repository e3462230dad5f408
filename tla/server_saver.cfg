SPECIFICATION Spec
CONSTANTS
    p1 = p1
    p2 = p2
    p3 = p3
    n0 = n0
    n1 = n1
    n2 = n2
    Proxies = {p1, p3}
    Primary = primary
    Nil = nil
    NoName = noName
    NoDirection = noDirection
    Dirs = {left}
    SaverQuiet = FALSE
    WaitQuiet = TRUE
    Names <- MCNames
    NameOf <- MCNameOf
    Configs <- CoreConfigs
INVARIANT ActiveConnected
