CONSTANTS
  Behaviors = {screen_off, lock_session}
  Locks = {lock_session}
  Clients = {c1, c2}
  LockSettings = {TRUE}
  FadeSettings = {TRUE, FALSE}
  MaxIdles = 2
  MaxHeld = 2
  MaxCookies = 2
SPECIFICATION FairSpec
INVARIANTS
  TypeOK
  FadeCoherent
  IdlePeriodsAreHeard
  IdlingIsUndone
PROPERTIES
  FadeRunsItsTime
  EveryFadeEnds
CHECK_DEADLOCK FALSE
