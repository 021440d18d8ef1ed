CONSTANTS
  Ids = {a, b}
  NoId = none
  Contents <- SomeContents
  Surfaces <- ShortAndTall
  Collapse = TRUE
  MaxUpdates = 1
  MaxDeferred = 1
  MaxRebuilds = 1
SPECIFICATION Spec
SYMMETRY Permuted
INVARIANTS
  TypeOK
  StackIsLaidOut
  PopupAndNoteAgree
PROPERTY HoveredStaysPut
CHECK_DEADLOCK FALSE
