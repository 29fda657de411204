SPECIFICATION Spec
CONSTANTS
  Player = {p1, p2}
  Client = {c1}
  MaxVersion = 7
  MaxSeq = 6
SYMMETRY RoomSymmetry
PROPERTY
  PayoutIsSent
CHECK_DEADLOCK FALSE
