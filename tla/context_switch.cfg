\* Main and two threads, each in up to two calls.  The last thread that exits
\* leaves nobody to run: QThread shows what happens then.
SPECIFICATION Spec
CHECK_DEADLOCK FALSE
CONSTANTS
  Threads = {main, t1, t2}
  Main = main
  Funs = {f}
  Args = {x}
  Loads <- Marks
  Low <- Stacks
  StackWords = 16
  MaxCalls = 1
  NULL = NULL
  Flag = Flag
  Guard = Guard
  MainCode = MainCode
  Wrapper = Wrapper
  Exiting = Exiting
  Junk = Junk
INVARIANTS
  StacksApart
  EntryAligned
PROPERTY
  KeepsContext
