CONSTANTS
  ThrdN = 2
  MaxQuits = 0
  EarlyQuit = TRUE
  CreateMayFail = TRUE
  OpenMayFail = FALSE
SPECIFICATION FairSpec
PROPERTIES MainBecomesWorker
