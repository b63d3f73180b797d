\* Four lines, most of one or two commands; no ^C; a third command finds no
\* process.  What a program writes fits into a pipe.
SPECIFICATION Spec
CONSTANTS
  NULL = NULL
  Procs = {0, 1, 2}
  MainShell = 0
  Adopter = 9
  Pipes = {1, 2, 3}
  Capacity = 1
  Emitters = {"echo"}
  Output = 1
  Endless = {"yes"}
  Filters = {"cat"}
  Takers = {"head"}
  Failing = {"false"}
  Lines <- ShortLines
  MaxLines = 4
  Codes = {"0", "1", "2"}
  OpenFails = {"locked"}
  ChmodFails = {"foreign"}
  UnsetIsZero = {FALSE}
  CtrlC = FALSE
INVARIANTS
  StatusIsLast
  DescriptorsClosed
