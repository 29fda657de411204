SPECIFICATION Spec
CONSTANTS
  NumSeats = 3
  Player = {p1, p2, p3}
  NoPlayer = NoPlayer
  SmallBlind = 1
  BigBlind = 2
  MinBuyIn = 2
  MaxBuyIn = 4
  MaxChips = 10
  RakePercent = 25
  RakeCap = 1
  NoFlopNoRake = TRUE
SYMMETRY PlayerSymmetry
INVARIANT
  IncompleteRaiseDoesNotReopen
