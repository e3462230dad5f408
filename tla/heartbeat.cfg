SPECIFICATION Spec
CONSTANTS
  MaxTime = 4
  KeepAliveRate = 3
  Rates = {0, 2}
  MaxDelay = 1
  MaxLag = 1
  MaxReloads = 2
INVARIANTS NoFalseDeath DeadDetected
CHECK_DEADLOCK FALSE
