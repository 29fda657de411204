SPECIFICATION FairSpec
CONSTANTS
  Player = {p1, p2}
  Request = {r1, r2}
  Seats = 2
  Opening = 1
  SeatAsked = {0, 2}
  MinBuyIn = 1
  MaxBuyIn = 1
  Amount = {1, 2}
  MaxRake = 0
  Faults = TRUE
INVARIANTS
  OwnChips
  NoChipsFromNothing
  OneSeatEach
PROPERTIES
  OnlyHandsExceedMax
  ChipsArrive
