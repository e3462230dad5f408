SPECIFICATION FairSpec
CONSTANTS
  Conns = {c1, c2}
  Addresses = {a1, a2}
  None = None
  MaxFaults = 1
  MaxSuspends = 1
INVARIANTS OneOwner KeepsTrying
PROPERTY EventuallyConnected
CHECK_DEADLOCK FALSE
