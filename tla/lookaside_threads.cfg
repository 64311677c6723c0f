CONSTANTS
  Threads = {t0, t1, t2}
  Main = t0
  Objs = {o1, o2, o3}
  Null = Null
  HighLevel = 0
  ZeroMem = TRUE
  TagCheck = TRUE
  Racing = FALSE
  MaxOps = 4
SPECIFICATION Spec
INVARIANTS OnePlace ZeroedWithThreads
PROPERTY Allocates
SYMMETRY MCSymmetry
