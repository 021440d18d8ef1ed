CONSTANTS
  Contents = {mail}
  Filters <- SomeFilters
  MaxHistory = 2
  MaxId = 3
  MaxRestarts = 1
SPECIFICATION Spec
INVARIANTS
  TypeOK
  RestartSafe
  ClientsAreAnswered
PROPERTY DeferredNotOrphaned
CHECK_DEADLOCK FALSE
