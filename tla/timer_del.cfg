CONSTANTS
  Threads = {t1}
  Deltas = {1, 2}
  Idle = 2
  UseDel = TRUE
  MaxTimers = 2
  MaxClock = 2
SPECIFICATION Spec
INVARIANTS DropsOnlyAsked
SYMMETRY MCSymmetry
\* the clock and the timers are bounded
CHECK_DEADLOCK FALSE
