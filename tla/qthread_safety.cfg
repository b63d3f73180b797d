\* Main and three more threads over one mutex and one condition variable.
SPECIFICATION Spec
CONSTANTS
  Threads = {main, t1, t2, t3}
  Main = main
  Mutexes = {m}
  Conds = {c}
  NULL = NULL
  Wild = Wild
  Delays = {1}
  MaxClock = 1
  DirtyHeap = FALSE
SYMMETRY Symmetry
INVARIANTS
  TypeOK
  NoDoubleQueue
  NoThreadLost
  NeverSkipped
  LockWordCountsOwners
  CrashOnlyWhenStuck
PROPERTY
  MutexesAreFair
