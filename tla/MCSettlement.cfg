SPECIFICATION MCSpec
CONSTANTS
  NumSeats = 3
  RakePercent = 25
  RakeCap = 1
  MaxCommit = 4
  Deals <- AllDeals
INVARIANT
  EvaluatorAgrees
  NothingLost
PROPERTY
  ImplementsAtomicShowdown
  ShowdownEnds
CHECK_DEADLOCK FALSE
