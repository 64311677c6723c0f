CONSTANTS
  MaxWorkers = 2
  MaxSignals = 1
  MaxCrashes = 0
  MaxStops = 0
  OperatorSigs = {"QUIT"}
  EarlyEvents = TRUE
  ForkMayFail = FALSE
SPECIFICATION FairSpec
PROPERTIES QuitStopsMaster
\* the master may exit and the workers be gone
CHECK_DEADLOCK FALSE
