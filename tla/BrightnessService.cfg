CONSTANTS
  Displays = {dp1}
  FailureThreshold = 2
  MaxAsks = 3
  MaxGenerations = 3
  MaxAnswers = 2
SPECIFICATION FairSpec
INVARIANTS
  TypeOK
  ShownIsTrue
PROPERTY WishesSettle
