CONSTANTS
  Threads = {t1, t2}
  Fds = {1, 2}
  Conns = {c1, c2}
  Bufs = {b1, b2}
  Null = Null
  Backends = 2
  CurrMax = 2
  AllocMayFail = TRUE
  CtlMayFail = TRUE
  MaxConns = 2
  MaxSends = 3
  MaxResets = 1
SPECIFICATION Spec
INVARIANTS FreedOnce
SYMMETRY MCSymmetry
\* the clients stop sending
CHECK_DEADLOCK FALSE
