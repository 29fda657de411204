SPECIFICATION Spec
CONSTANTS
  NumSeats = 3
  Player = {p1, p2, p3}
  NoPlayer = NoPlayer
  SmallBlind = 1
  BigBlind = 2
  MinBuyIn = 2
  MaxBuyIn = 4
  MaxChips = 11
  RakePercent = 25
  RakeCap = 1
  NoFlopNoRake = TRUE
SYMMETRY PlayerSymmetry
INVARIANTS
  TypeOK
  BetsComeFromStacks
  PayoutConservesChips
  TableStakes
  AskedWhileOpen
  EarlierStreetsMatched
  NoOrphanPot
  BoardMatchesStreet
  OffersAreTaken
PROPERTIES
  EveryoneHadTheTurn
  RaisesInFull
  HandsProgress
