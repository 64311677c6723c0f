CONSTANTS
  MaxWorkers = 4
  MaxSignals = 2
  MaxCrashes = 1
  MaxStops = 1
  OperatorSigs = {"HUP", "QUIT", "INT"}
  EarlyEvents = TRUE
  ForkMayFail = TRUE
SPECIFICATION FairSpec
INVARIANTS TypeOK SleepsOnlyWhenServed
PROPERTIES Supervises InitFailureStopsMaster QuitStopsMaster CrashReplaced
\* the master may exit and the workers be gone
CHECK_DEADLOCK FALSE
