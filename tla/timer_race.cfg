CONSTANTS
  Threads = {t1, t2}
  Deltas = {1, 2}
  Idle = 2
  UseDel = FALSE
  MaxTimers = 1
  MaxClock = 3
SPECIFICATION Spec
INVARIANTS NeverSleepsForever
SYMMETRY MCSymmetry
\* the clock and the timers are bounded
CHECK_DEADLOCK FALSE
