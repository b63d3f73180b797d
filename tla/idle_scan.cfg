\* Two threads sleep, the first for less time than the second.
SPECIFICATION Spec
CONSTANTS
  Threads = {main, t1}
  Main = main
  Mutexes = {}
  Conds = {}
  NULL = NULL
  Wild = Wild
  Delays = {1, 2}
  MaxClock = 3
  DirtyHeap = FALSE
INVARIANT
  ScanReachesDue
