\* A writer whose reader is gone.
SPECIFICATION FairSpec
CHECK_DEADLOCK FALSE
CONSTANTS
  NULL = NULL
  Procs = {0, 1, 2, 3}
  MainShell = 0
  Adopter = 9
  Pipes = {1, 2, 3}
  Capacity = 1
  Emitters = {"echo"}
  Output = 2
  Endless = {"yes"}
  Filters = {"cat"}
  Takers = {"head"}
  Failing = {"false"}
  Lines <- UnreadOutput
  MaxLines = 1
  Codes = {"0", "1", "2"}
  OpenFails = {"locked"}
  ChmodFails = {"foreign"}
  UnsetIsZero = {FALSE}
  CtrlC = FALSE
PROPERTY
  PipelineReturns
