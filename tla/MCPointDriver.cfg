SPECIFICATION FairSpec
CONSTANTS
  Load <- MCLoad
  Unloaded = 0
  Iterates = TRUE
  MaxPasses = 3
  Strain <- MCStrain
  Perturbed <- MCPerturbed
  Probe <- MCProbe
  Path <- MCPath
  MaxIter = 2
  TangentEvery = 2
  MaxRetries = 2
INVARIANTS DriverInv AcceptedIsRecorded TrialStands NoTraceOfTrials
PROPERTIES CallsEnd
CHECK_DEADLOCK FALSE
