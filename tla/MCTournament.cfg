SPECIFICATION TournamentSpec
CONSTANTS
  Player = {p1, p2, p3, p4, p5, p6}
  Registration = {r1}
  BuyIn = 2
  SeatsPerTable = 4
  MinPlayers = 2
  MaxPlayers = 6
  MaxDebits = 6
INVARIANTS
  SeatedOnce
  PairsBalanced
  PlacesMatchOrder
  PrizesFromBuyIns
CHECK_DEADLOCK FALSE
