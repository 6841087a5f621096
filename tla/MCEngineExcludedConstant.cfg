\* A host excludes a constant callback from a partial update.
SPECIFICATION Spec
CONSTANTS
  p = p
  x = x
  Modulus = 3
  HasChecker = FALSE
  PerturbedInput = x
  RoutedInput = FALSE
  RevertedHistories = {}
  N <- MCN
  Parameter <- MCParameter
  External <- MCExternal
  History <- MCHistory
  Reads <- MCReads
  OldReads <- MCOldReads
  Constant <- MCConstant
  Once <- MCOnce
  Checker <- MCChecker
  Target <- MCTarget
  Input <- MCInput
  Routed <- MCRouted
  HistSrc <- MCHistSrc
  Checks <- MCChecks
  Value <- MCValue
  NotFinite = {2}
  Default = 0
  Compute <- MCCompute
  Fails <- MCFails
  Excludes <- ConstantExclusion
  Trials = 2
  Writable <- FewWrites
PROPERTIES UpdateMatchesReference
