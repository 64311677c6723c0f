CONSTANTS
  ThrdN = 3
  MaxQuits = 2
  EarlyQuit = FALSE
  CreateMayFail = FALSE
  OpenMayFail = FALSE
SPECIFICATION FairSpec
PROPERTIES QuitNotUndone QuitStops MainBecomesWorker
