CONSTANTS
  Threads = {t1, t2}
  FdN = 1
  Fds <- MCFds
  MaxFd = 2
  Clients = {c1, c2}
  Null = Null
  EchoStr = TRUE
  MaxConns = 2
  MaxSends = 1
  ZeroTable = TRUE
  CtlMayFail = TRUE
  AllocMayFail = FALSE
SPECIFICATION Spec
INVARIANTS AssertionsNeverFail
SYMMETRY ClientSymmetry
\* clients may stop coming
CHECK_DEADLOCK FALSE
