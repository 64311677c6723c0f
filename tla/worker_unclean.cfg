CONSTANTS
  ThrdN = 2
  MaxQuits = 1
  EarlyQuit = FALSE
  CreateMayFail = FALSE
  OpenMayFail = FALSE
SPECIFICATION Spec
INVARIANTS QuitIsClean
