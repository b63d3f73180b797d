\* Every instruction, assembled, loaded, run and traced.
SPECIFICATION Spec
CONSTANTS
  Sessions <- MachineSessions
  Data <- MachineData
INVARIANTS
  TypeOK
  LabelsResolved
  AtMostOneBehind
  WellBehaved
PROPERTIES
  TraceShowsProgram
  RunsProgram
