SPECIFICATION FairSpec
CONSTANTS
  User = {u1, u2}
  Request = {r1, r2, r3}
  Amount = {2}
  WelcomeSeed = 3
  DebitsOverlap = FALSE
INVARIANT
  AnswersMatchEntries
PROPERTIES
  ImplementsChipLedger
  RequestsAnswered
CHECK_DEADLOCK FALSE
