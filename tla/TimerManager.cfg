CONSTANTS
  Timers = {t1, t2}
  TimerDelays = {0, 1}
  NoEntry = NoEntry
  MaxId = 4
  MaxClock = 2
SPECIFICATION TMFairSpec
INVARIANTS
  TMTypeOK
  BookkeepingConsistent
PROPERTIES
  KeepsPromise
  DueTimerRings
