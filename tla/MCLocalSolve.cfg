SPECIFICATION LocalSpec
CONSTANTS
  p1 = p1
  p2 = p2
  Point = {p1, p2}
  Grid <- MCGrid
  MaxIter = 3
  One = 8
  Full = 12
  Decks <- MCDecks
  Repeated <- MCAllButCure
  MaxAccepts <- MCMaxAccepts
  Dim = 2
INVARIANTS ReturnsSolve DerivativesAreOfThisPoint SystemIsPacked ArraysCarryTensors
PROPERTIES HistoryOnlyGrows
CHECK_DEADLOCK FALSE
