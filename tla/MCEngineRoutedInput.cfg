\* A checker perturbs an output that another output's callback fills in.
SPECIFICATION Spec
CONSTANTS
  p = p
  x = x
  Modulus = 2
  HasChecker = TRUE
  PerturbedInput = 1
  RoutedInput = TRUE
  RevertedHistories = {4}
  N <- MCN
  Parameter <- MCParameter
  External <- MCExternal
  History <- MCHistory
  Reads <- MCReads
  OldReads <- MCOldReads
  Constant <- MCConstant
  Once <- MCOnce
  Checker <- MCChecker
  Target <- MCTarget
  Input <- MCInput
  Routed <- MCRouted
  HistSrc <- MCHistSrc
  Checks <- MCChecks
  Value <- MCValue
  NotFinite = {}
  Default = 0
  Compute <- MCCompute
  Fails <- MCFails
  Excludes <- NoExclusion
  Trials = 2
  Writable <- Cell
PROPERTIES TrialHoldsInput
