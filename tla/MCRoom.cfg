SPECIFICATION Spec
CONSTANTS
  Player = {p1, p2}
  Client = {c1}
  MaxVersion = 7
  MaxSeq = 6
SYMMETRY RoomSymmetry
INVARIANTS
  TimerMatchesTurn
  ShownIsCurrent
  ReadyIsSaid
CHECK_DEADLOCK FALSE
