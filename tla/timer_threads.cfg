CONSTANTS
  Threads = {t1, t2}
  Deltas = {0, 1}
  Idle = 2
  UseDel = TRUE
  MaxTimers = 2
  MaxClock = 2
SPECIFICATION FairSpec
INVARIANTS RunsOnce NeverLate EndlessOnlyIfMoved
PROPERTY TimersRun
\* the clock and the timers are bounded
CHECK_DEADLOCK FALSE
