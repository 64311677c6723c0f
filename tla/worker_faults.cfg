CONSTANTS
  ThrdN = 4
  MaxQuits = 1
  EarlyQuit = TRUE
  CreateMayFail = TRUE
  OpenMayFail = TRUE
SPECIFICATION Spec
INVARIANTS SlotsUnique CtxOutlivesThreads
