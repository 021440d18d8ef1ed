CONSTANTS
  Workers = 2
  Scripts <- SomeScripts
  MaxQueue = 2
  MaxConsecutive = 2
  MaxTimeouts = 2
  MaxErrors = 2
  MaxReloads = 2
  MaxStamp = 3
  MaxSettings = 1
SPECIFICATION Spec
INVARIANTS
  TypeOK
  QueueCoherent
  EffectsBelong
PROPERTY ControlTakesEffect
CHECK_DEADLOCK FALSE
