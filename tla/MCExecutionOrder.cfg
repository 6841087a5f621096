\* The sort and the search for a cycle, over all small graphs.
SPECIFICATION Spec
CONSTANTS
  Node <- MCNode
  Rankings <- MCRankings
  Graphs <- MCGraphs
INVARIANTS IInv OrderIsLeast SortDecides ReportedIsCycle
PROPERTIES BuildEnds
CHECK_DEADLOCK FALSE
