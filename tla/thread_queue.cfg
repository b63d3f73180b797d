SPECIFICATION Spec
CONSTANTS
  Threads = {t1, t2, t3}
  InitQueues = {runnable}
  SyncQueues = {mutex}
  NULL = NULL
  Wild = Wild
INVARIANTS
  TypeOK
  LinksSpellQueue
PROPERTIES
  NextTellsMore
  IsFifo
