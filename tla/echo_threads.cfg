CONSTANTS
  Threads = {t1, t2}
  FdN = 2
  Fds <- MCFds
  MaxFd = 3
  Clients = {c1, c2, c3}
  Null = Null
  EchoStr = FALSE
  MaxConns = 3
  MaxSends = 2
  ZeroTable = FALSE
  CtlMayFail = TRUE
  AllocMayFail = TRUE
SPECIFICATION Spec
INVARIANTS
  OneAcceptor
  AssertionsHold
  ClientsExclusive
  ArmedIsServed
  NothingLost
SYMMETRY ClientSymmetry
\* clients may stop coming
CHECK_DEADLOCK FALSE
