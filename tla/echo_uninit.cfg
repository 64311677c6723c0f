CONSTANTS
  Threads = {t1, t2}
  FdN = 1
  Fds <- MCFds
  MaxFd = 2
  Clients = {c1}
  Null = Null
  EchoStr = TRUE
  MaxConns = 1
  MaxSends = 0
  ZeroTable = FALSE
  CtlMayFail = FALSE
  AllocMayFail = FALSE
SPECIFICATION Spec
INVARIANTS AssertionsNeverFail
SYMMETRY ClientSymmetry
\* clients may stop coming
CHECK_DEADLOCK FALSE
