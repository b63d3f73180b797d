\* One thread sleeps while the other keeps yielding.
SPECIFICATION FairSpec
CONSTANTS
  Threads = {main, t1}
  Main = main
  Mutexes = {}
  Conds = {}
  NULL = NULL
  Wild = Wild
  Delays = {1}
  MaxClock = 2
  DirtyHeap = FALSE
PROPERTY
  SleeperWakes
