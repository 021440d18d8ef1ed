CONSTANTS
  Outputs = {d1}
  FingerprintEnabled = FALSE
  MaxLocks = 1
  MaxRequests = 0
  MaxAuth = 0
  MaxSignals = 0
SPECIFICATION Spec
INVARIANT LockedNeverDestroyed
CHECK_DEADLOCK FALSE
