SPECIFICATION Spec
CONSTANTS
  Blueprint <- MCBlueprint
  Excludes <- MCExcludes
  MaxObjects = 3
  MaxSteps = 2
  Lost = Lost
  None = None
INVARIANTS ContextInv HistoryIsOfOneStep
PROPERTY RefinesDurableHistory
CHECK_DEADLOCK FALSE
