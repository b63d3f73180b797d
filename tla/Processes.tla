----------------------------- MODULE Processes -----------------------------
(***************************************************************************)
(* What the shell uses of the operating system: processes with their       *)
(* descriptors and pipes, and the programs its children become.  Nothing   *)
(* here is the shell's own code; Shell composes it with that.              *)
(***************************************************************************)
EXTENDS Naturals, FiniteSets

CONSTANTS Procs,      \* process slots, one of them the user's shell
          MainShell,
          Adopter,    \* process 1: it adopts orphans and waits for them
          Pipes,
          Capacity    \* bytes a pipe holds

\* Names of programs that exist, by what they do.
CONSTANTS Emitters,   \* write Output bytes and exit with 0
          Output,
          Endless,    \* write for ever
          Filters,    \* copy their input to their output
          Takers,     \* read one byte and exit with 0
          Failing     \* exit with 1

Programs == Emitters \cup Endless \cup Filters \cup Takers \cup Failing

ASSUME ProcessesOK ==
  /\ MainShell \in Procs /\ Adopter \notin Procs
  /\ Capacity \in Nat \ {0} /\ Output \in Nat

VARIABLES mode,       \* of each process: free, shell, child, program, zombie
          parent,
          stdin,      \* what descriptors 0 and 1 refer to
          stdout,
          held,       \* the pipe ends other descriptors refer to
          sigint,     \* the processes ^C terminates
          status,     \* how a zombie ended: its exit status as text, or killed
          program,    \* the program it runs, and the bytes it has still to write
          todo,
          bytes       \* in each pipe
processVars == <<mode, parent, stdin, stdout, held, sigint, status, program, todo, bytes>>

ReadEnd(k) == <<"read", k>>
WriteEnd(k) == <<"write", k>>
Ends == {"read", "write"} \X Pipes
Terminal == <<"terminal", 0>>
File == <<"file", 0>>

\* Who may read from pipe k, and who may write to it.
Open(p) == held[p] \cup ({stdin[p], stdout[p]} \cap Ends)
Alive == {p \in Procs : mode[p] \in {"shell", "child", "program"}}
Readers(k) == {p \in Alive : ReadEnd(k) \in Open(p)}
WritersOf(k) == {p \in Alive : WriteEnd(k) \in Open(p)}

FreeProcs == {p \in Procs : mode[p] = "free"}
FreePipes == {k \in Pipes : Readers(k) = {} /\ WritersOf(k) = {}}
NewProc == CHOOSE p \in FreeProcs : TRUE
NewPipe == CHOOSE k \in FreePipes : TRUE
Children(p) == {c \in Procs : mode[c] # "free" /\ parent[c] = p}

KernelInit ==
  /\ mode = [p \in Procs |-> IF p = MainShell THEN "shell" ELSE "free"]
  /\ parent = [p \in Procs |-> Adopter]
  /\ stdin = [p \in Procs |-> Terminal]
  /\ stdout = [p \in Procs |-> Terminal]
  /\ held = [p \in Procs |-> {}]
  /\ sigint = {}
  /\ status = [p \in Procs |-> "0"]
  /\ program = [p \in Procs |-> "none"]
  /\ todo = [p \in Procs |-> 0]
  /\ bytes = [k \in Pipes |-> 0]

\* p opens some pipe ends, forks c and closes some: c inherits what was open.
Fork(p, c, opened, closed) ==
  /\ mode' = [mode EXCEPT ![c] = "child"]
  /\ parent' = [parent EXCEPT ![c] = p]
  /\ stdin' = [stdin EXCEPT ![c] = stdin[p]]
  /\ stdout' = [stdout EXCEPT ![c] = stdout[p]]
  /\ held' = [held EXCEPT ![c] = held[p] \cup opened,
                          ![p] = (held[p] \cup opened) \ closed]
  /\ UNCHANGED <<sigint, status, program, todo>>

\* c becomes a program.
Exec(c, name) ==
  /\ mode' = [mode EXCEPT ![c] = "program"]
  /\ program' = [program EXCEPT ![c] = name]
  /\ todo' = [todo EXCEPT ![c] = IF name \in Emitters THEN Output ELSE 0]
  /\ UNCHANGED <<parent, status, bytes>>

\* The processes of S end.  Their descriptors are closed; a zombie stays for a
\* parent of Procs to wait for, and their own children are adopted.
Exit(S, st) ==
  LET Unseen(q) == parent[q] \in S \cup {Adopter} IN
  /\ mode' = [q \in Procs |->
       IF q \in S THEN IF Unseen(q) THEN "free" ELSE "zombie"
       ELSE IF mode[q] = "zombie" /\ Unseen(q) THEN "free" ELSE mode[q]]
  /\ parent' = [q \in Procs |-> IF parent[q] \in S THEN Adopter ELSE parent[q]]
  /\ status' = [q \in Procs |->
       IF mode'[q] = "free" THEN "0" ELSE IF q \in S THEN st ELSE status[q]]
  /\ held' = [q \in Procs |-> IF q \in S THEN {} ELSE held[q]]
  /\ stdin' = [q \in Procs |-> IF q \in S THEN Terminal ELSE stdin[q]]
  /\ stdout' = [q \in Procs |-> IF q \in S THEN Terminal ELSE stdout[q]]
  /\ program' = [q \in Procs |-> IF q \in S THEN "none" ELSE program[q]]
  /\ todo' = [q \in Procs |-> IF q \in S THEN 0 ELSE todo[q]]
  /\ sigint' = sigint \ S
  /\ bytes' = bytes

\* Child c of p is waited for.
Reap(c) ==
  /\ mode' = [mode EXCEPT ![c] = "free"]
  /\ parent' = [parent EXCEPT ![c] = Adopter]
  /\ status' = [status EXCEPT ![c] = "0"]
  /\ UNCHANGED <<stdin, stdout, held, sigint, program, todo, bytes>>

-----------------------------------------------------------------------------
\* The programs.  Terminals and files take any output and give no input.

Runs(p, kind) == mode[p] = "program" /\ program[p] \in kind

HasByte(p) == \E k \in Pipes : stdin[p] = ReadEnd(k) /\ bytes[k] > 0
AtEndOfInput(p) ==
  \A k \in Pipes : stdin[p] = ReadEnd(k) => bytes[k] = 0 /\ WritersOf(k) = {}
CanWrite(p) ==
  \A k \in Pipes : stdout[p] = WriteEnd(k) => bytes[k] < Capacity /\ Readers(k) # {}
BrokenPipe(p) == \E k \in Pipes : stdout[p] = WriteEnd(k) /\ Readers(k) = {}

After(reads, writes) ==
  bytes' = [k \in Pipes |->
    bytes[k] + Cardinality({p \in writes : stdout[p] = WriteEnd(k)})
             - Cardinality({p \in reads : stdin[p] = ReadEnd(k)})]
SameProcesses == UNCHANGED <<mode, parent, stdin, stdout, held, sigint, status, program>>

\* A write to a pipe nobody can read from ends the writer.
Write(p, reads) ==
  IF BrokenPipe(p) THEN Exit({p}, "killed")
  ELSE /\ CanWrite(p)
       /\ todo' = [todo EXCEPT ![p] = IF program[p] \in Emitters THEN @ - 1 ELSE @]
       /\ After(reads, {p})
       /\ SameProcesses

emit(p) ==
  /\ Runs(p, Emitters \cup Endless)
  /\ program[p] \in Emitters => todo[p] > 0
  /\ Write(p, {})

copy(p) ==
  /\ Runs(p, Filters) /\ HasByte(p)
  /\ Write(p, {p})

\* A taker's byte is gone; it exits next.
take(p) ==
  /\ Runs(p, Takers) /\ todo[p] = 0 /\ HasByte(p)
  /\ todo' = [todo EXCEPT ![p] = 1]
  /\ After({p}, {})
  /\ SameProcesses

finish(p) ==
  \/ /\ \/ Runs(p, Emitters) /\ todo[p] = 0
        \/ Runs(p, Filters) /\ AtEndOfInput(p)
        \/ Runs(p, Takers) /\ (todo[p] = 1 \/ AtEndOfInput(p))
     /\ Exit({p}, "0")
  \/ /\ Runs(p, Failing)
     /\ Exit({p}, "1")

ProgramStep(p) == emit(p) \/ copy(p) \/ take(p) \/ finish(p)

\* The user types ^C.
Interrupt ==
  /\ sigint # {}
  /\ Exit(sigint, "killed")

==============================================================================
