SPECIFICATION Spec
CONSTANTS
  Club = {k1}
  User = {u1, u2}
  Request = {r1, r2}
  PoolSize = 2
INVARIANTS
  TypeOK
  OwnersStay
PROPERTIES
  ImplementsClubRegistry
  ChangesAllowed
  RequestsAnswered
CHECK_DEADLOCK FALSE
