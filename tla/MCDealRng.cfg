SPECIFICATION Spec
CONSTANTS
  Hand = {h1, h2}
  DeckSize = 2
  MaxSeed = 3
SYMMETRY HandSymmetry
INVARIANTS
  CommittedBeforeDealt
  ResultsHoldEveryDraw
  ResultsAreFinal
