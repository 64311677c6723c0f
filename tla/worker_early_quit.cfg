CONSTANTS
  ThrdN = 2
  MaxQuits = 1
  EarlyQuit = TRUE
  CreateMayFail = FALSE
  OpenMayFail = FALSE
SPECIFICATION FairSpec
PROPERTIES QuitStops
