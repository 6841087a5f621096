\* The edges of small decks, their order and what is found constant.
SPECIFICATION BuildSpec
CONSTANTS
  Material <- MCMaterial
  Owner <- MCOwner
  Decks <- MCDecks
  Node <- MCNode
  Rankings <- MCRankings
  Graphs <- MCGraphs
INVARIANTS BuildInv ReadsAreFresh RefusesRealCycles OnceFillsConstants FindsAllConstants
CHECK_DEADLOCK FALSE
