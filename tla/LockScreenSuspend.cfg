CONSTANTS
  Outputs = {d1}
  FingerprintEnabled = FALSE
  MaxLocks = 2
  MaxRequests = 1
  MaxAuth = 0
  MaxSignals = 0
SPECIFICATION Spec
PROPERTY SuspendAfterLock
CHECK_DEADLOCK FALSE
