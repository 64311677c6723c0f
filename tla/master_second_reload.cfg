CONSTANTS
  MaxWorkers = 3
  MaxSignals = 2
  MaxCrashes = 0
  MaxStops = 0
  OperatorSigs = {"HUP"}
  EarlyEvents = FALSE
  ForkMayFail = FALSE
SPECIFICATION FairSpec
PROPERTIES ServingWorkerQuits
\* the master may exit and the workers be gone
CHECK_DEADLOCK FALSE
