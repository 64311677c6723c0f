CONSTANTS
  Threads = {t1, t2}
  FdN = 2
  Fds <- MCFds
  MaxFd = 2
  Clients = {c1, c2}
  Null = Null
  EchoStr = TRUE
  MaxConns = 2
  MaxSends = 0
  ZeroTable = TRUE
  CtlMayFail = FALSE
  AllocMayFail = FALSE
SPECIFICATION Spec
INVARIANTS FdsInTable
SYMMETRY ClientSymmetry
\* clients may stop coming
CHECK_DEADLOCK FALSE
