CONSTANTS
  Outputs = {d1, d2}
  FingerprintEnabled = TRUE
  MaxLocks = 2
  MaxRequests = 1
  MaxAuth = 2
  MaxSignals = 1
SPECIFICATION FairSpec
INVARIANTS
  TypeOK
  LockCoherent
  CompositorAgrees
PROPERTIES
  UnlockIsAuthorised
  SuspendFollowsLock
  LockRequestKept
CHECK_DEADLOCK FALSE
