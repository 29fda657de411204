SPECIFICATION Spec
CONSTANTS
  User = {u1}
  Request = {r1, r2}
  Amount = {2}
  WelcomeSeed = 3
  DebitsOverlap = TRUE
INVARIANTS
  NeverNegative
CHECK_DEADLOCK FALSE
