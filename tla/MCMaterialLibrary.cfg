SPECIFICATION Spec
CONSTANTS
  Decks <- MCDecks
  Updates = 2
INVARIANTS
  NothingWaitsForItself
  UpdateIsCurrent
  FoldedIsFixed
  
CHECK_DEADLOCK FALSE
