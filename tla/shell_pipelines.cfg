\* Two lines of every other form that comes back to the prompt, and ^C.
\* A hang would be a deadlock: it is left to PipelineReturns.
SPECIFICATION FairSpec
CHECK_DEADLOCK FALSE
CONSTANTS
  NULL = NULL
  Procs = {0, 1, 2, 3, 4}
  MainShell = 0
  Adopter = 9
  Pipes = {1, 2, 3}
  Capacity = 1
  Emitters = {"echo"}
  Output = 2
  Endless = {"yes"}
  Filters = {"cat"}
  Takers = {"head"}
  Failing = {"false"}
  Lines <- LongLines
  MaxLines = 2
  Codes = {"0", "1", "2"}
  OpenFails = {"locked"}
  ChmodFails = {"foreign"}
  UnsetIsZero = {FALSE, TRUE}
  CtrlC = TRUE
INVARIANTS
  TypeOK
  WaitsForItsChildren
  OnlyStageWrites
  StagesConnected
PROPERTY
  PipelineReturns
