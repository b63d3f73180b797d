\* Main and two threads that sleep, yield, join and exit; no symmetry, for the
\* leads-to properties.
SPECIFICATION FairSpec
CONSTANTS
  Threads = {main, t1, t2}
  Main = main
  Mutexes = {}
  Conds = {}
  NULL = NULL
  Wild = Wild
  Delays = {0, 1, 2}
  MaxClock = 3
  DirtyHeap = FALSE
INVARIANT
  NoEarlyWake
PROPERTIES
  RunnableRuns
  JoinReturns
  SleeperWakesWhenIdle
