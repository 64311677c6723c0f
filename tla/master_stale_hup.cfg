CONSTANTS
  MaxWorkers = 4
  MaxSignals = 1
  MaxCrashes = 1
  MaxStops = 0
  OperatorSigs = {"HUP"}
  EarlyEvents = FALSE
  ForkMayFail = FALSE
SPECIFICATION Spec
PROPERTIES FailureAlwaysStopsMaster
\* the master may exit and the workers be gone
CHECK_DEADLOCK FALSE
