CONSTANTS
  Threads = {t1, t2}
  FdN = 2
  Fds <- MCFds
  MaxFd = 3
  Clients = {c1, c2}
  Null = Null
  EchoStr = TRUE
  MaxConns = 2
  MaxSends = 2
  ZeroTable = TRUE
  CtlMayFail = FALSE
  AllocMayFail = FALSE
SPECIFICATION FairSpec
PROPERTIES PeerCloseNoticed BacklogServed
\* clients may stop coming
CHECK_DEADLOCK FALSE
