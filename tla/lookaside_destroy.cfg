CONSTANTS
  Threads = {t0, t1, t2}
  Main = t0
  Objs = {o1, o2}
  Null = Null
  HighLevel = 1
  ZeroMem = TRUE
  TagCheck = TRUE
  Racing = TRUE
  MaxOps = 4
SPECIFICATION Spec
INVARIANTS OnePlace
SYMMETRY MCSymmetry
