------------------------------ MODULE ShellProofs ------------------------------
(***************************************************************************)
(* The shell and its children, whatever lines are typed: types, what a step*)
(* does, who holds the ends of a pipe, and which stages they join; and for *)
(* lines of a certain form, children, $? and descriptors.                  *)
(***************************************************************************)
EXTENDS Shell, SequenceTheorems, FiniteSetTheorems, TLAPS

ReadEnds == {ReadEnd(k) : k \in Pipes}
WriteEnds == {WriteEnd(k) : k \in Pipes}
Waits == {"wait", "runExternal", "runRedirectExternal"}

(***************************************************************************)
(* Types.                                                                  *)
(***************************************************************************)
ShellState(s) ==
  /\ s = [ pc |-> s.pc, list |-> s.list, at |-> s.at, prev |-> s.prev, kids |-> s.kids,
           qbuf |-> s.qbuf ]
  /\ s.pc \in {"prompt", "list"} \cup Waits
  /\ s.qbuf \in Codes \cup {Unwritten}
  /\ s.kids \in Seq(Procs) /\ s.at \in Nat
  /\ s.prev \in {NULL} \cup ReadEnds

\* At a prompt nothing of a line is left.  In a list there is a child for each
\* command behind, and the pipe from the last of them.
PlaceOK(s) ==
  /\ s.pc = "prompt" => s.at = 1 /\ s.kids = <<>> /\ s.prev = NULL
  /\ s.pc = "list" => s.at = Len(s.kids) + 1 /\ (s.prev = NULL <=> s.at = 1)
  /\ s.pc \in Waits => s.kids # <<>> /\ (s.pc # "wait" => Tail(s.kids) = <<>>)

JobOK(j) ==
  /\ j.by \in {"runPipe", "runExternal", "runRedirectExternal"}
  /\ j.by = "runPipe" => j.in \in {NULL} \cup ReadEnds /\ j.out \in {NULL} \cup WriteEnds

\* Who is no shell has no line to go on with; only programs end at ^C; only
\* programs read from pipes, or write to them, as descriptors 0 and 1.
ProcessOK(p) ==
  /\ ShellState(sh[p]) /\ PlaceOK(sh[p])
  /\ mode[p] # "shell" => sh[p].pc = "prompt"
  /\ mode[p] = "child" => JobOK(job[p])
  /\ p \in sigint => mode[p] = "program"
  /\ mode[p] \in {"shell", "child"} => stdin[p] \in {Terminal, File} /\ stdout[p] \in {Terminal, File}

TypeInv ==
  /\ KernelTypes
  /\ sh = [p \in Procs |-> sh[p]] /\ job = [p \in Procs |-> job[p]]
  /\ \A p \in Procs : ProcessOK(p)

(***************************************************************************)
(* What a step does.                                                       *)
(***************************************************************************)

\* What becomes of $? when p comes back with text in qbuf, having waited for
\* nobody.
TalkStatus(p, text) ==
  \/ text = sh[p].qbuf /\ last' = last
  \/ last' = [last EXCEPT ![p] = text]
  \/ Builtin(p, "pwd") /\ text = sh[p].qbuf /\ last' = [last EXCEPT ![p] = "0"]

\* Shell p takes a line, or comes back to the prompt; nobody else is concerned.
TalkStep(p) ==
  /\ mode[p] = "shell" /\ UNCHANGED <<processVars, job>> /\ lines' \in lines .. MaxLines
  /\ sh' = [sh EXCEPT ![p] = sh'[p]]
  /\ \/ sh'[p] = sh[p] /\ last' = last
     \/ /\ sh[p].pc = "prompt" /\ sh'[p] = [sh[p] EXCEPT !.pc = "list", !.list = sh'[p].list]
        /\ sh'[p].list # <<>> /\ last' = last
        /\ \E tokens \in Lines : sh'[p].list = buildCommandList(Expand(tokens, sh[p].qbuf))
     \/ /\ sh[p].pc = "list" /\ (sh[p].at = 1 \/ Current(p).command = NULL)
        /\ \E text \in Codes \cup {Unwritten} : sh'[p] = AtPrompt(text) /\ TalkStatus(p, text)

\* Shell p forks c: for a command with one behind it and pipe k between them, for
\* the last command of several, for the only command of a list.
StageStep(p, c, k) ==
  /\ mode[p] = "shell" /\ sh[p].pc = "list" /\ HasNext(p)
  /\ mode[c] = "free" /\ k \in FreePipes
  /\ Fork(p, c, {ReadEnd(k), WriteEnd(k)}, {WriteEnd(k)})
  /\ job' = [job EXCEPT ![c] = [ by |-> "runPipe", command |-> Current(p),
                                 in |-> sh[p].prev, out |-> WriteEnd(k) ]]
  /\ NextStage(p, c, k) /\ NewBytes(k) /\ UNCHANGED <<lines, last>>
LastStep(p, c) ==
  /\ mode[p] = "shell" /\ sh[p].pc = "list" /\ sh[p].at > 1 /\ mode[c] = "free"
  /\ Fork(p, c, {}, {sh[p].prev})
  /\ job' = [job EXCEPT ![c] = [ by |-> "runPipe", command |-> Current(p),
                                 in |-> sh[p].prev, out |-> NULL ]]
  /\ sh' = [sh EXCEPT ![p].pc = "wait", ![p].kids = Append(@, c)]
  /\ UNCHANGED <<bytes, lines, last>>
LaunchStep(p, c) ==
  /\ mode[p] = "shell" /\ sh[p].pc = "list" /\ sh[p].at = 1 /\ mode[c] = "free"
  /\ Fork(p, c, {}, {}) /\ UNCHANGED <<bytes, lines>>
  /\ job' = [job EXCEPT ![c] = job'[c]] /\ job'[c].by \in {"runExternal", "runRedirectExternal"}
  /\ job'[c].by = "runRedirectExternal" => Redirected(p)
  /\ sh' = [sh EXCEPT ![p].pc = job'[c].by, ![p].kids = <<c>>, ![c] = AtPrompt(sh[p].qbuf)]
  /\ last' = [last EXCEPT ![c] = last[p]]

\* Shell p has waited for its first child, c, and comes back with text in qbuf.
ReapStatus(p, c, text) ==
  /\ last' = [last EXCEPT ![p] = WEXITSTATUS(status[c])]
  /\ sh[p].pc = "wait" \/ (sh[p].pc = "runExternal" /\ WIFEXITED(status[c])) =>
       text = WEXITSTATUS(status[c])
ReapStep(p) ==
  /\ mode[p] = "shell" /\ sh[p].pc \in Waits
  /\ mode[Head(sh[p].kids)] = "zombie" /\ Reap(Head(sh[p].kids))
  /\ UNCHANGED <<job, lines>> /\ sh' = [sh EXCEPT ![p] = sh'[p]]
  /\ \E text \in Codes \cup {Unwritten} :
       IF Tail(sh[p].kids) = <<>> \/ sh[p].pc # "wait"
       THEN sh'[p] = AtPrompt(text) /\ ReapStatus(p, Head(sh[p].kids), text)
       ELSE /\ sh'[p] = [sh[p] EXCEPT !.kids = Tail(sh[p].kids), !.qbuf = text]
            /\ last' = last

\* Child c runs its program; or it goes back to the loop.
ExecStep(c) ==
  /\ mode[c] = "child" /\ mode' = [mode EXCEPT ![c] = "program"]
  /\ stdin' = [stdin EXCEPT ![c] = stdin'[c]] /\ stdout' = [stdout EXCEPT ![c] = stdout'[c]]
  /\ held' = [held EXCEPT ![c] = held'[c]] /\ sigint' \in {sigint, sigint \cup {c}}
  /\ IF job[c].by = "runPipe"
     THEN /\ IF job[c].in # NULL THEN stdin'[c] = job[c].in ELSE stdin'[c] \in {Terminal, File}
          /\ IF job[c].out # NULL THEN stdout'[c] = job[c].out ELSE stdout'[c] \in {Terminal, File}
          /\ held'[c] = held[c] \ {job[c].in, job[c].out}
     ELSE stdin'[c] \in {Terminal, File} /\ stdout'[c] \in {Terminal, File} /\ held' = held
  /\ job' = [job EXCEPT ![c] = NoJob] /\ sh' = [sh EXCEPT ![c] = sh'[c]]
  /\ sh'[c] \in {sh[c], AtPrompt(Unwritten)}
  /\ UNCHANGED <<parent, status, bytes, lines, last>>
LoopStep(c) ==
  /\ mode[c] = "child" /\ job[c].by = "runRedirectExternal"
  /\ mode' = [mode EXCEPT ![c] = "shell"]
  /\ stdin' = [stdin EXCEPT ![c] = stdin'[c]] /\ stdout' = [stdout EXCEPT ![c] = stdout'[c]]
  /\ stdin'[c] \in {Terminal, File} /\ stdout'[c] \in {Terminal, File}
  /\ job' = [job EXCEPT ![c] = NoJob]
  /\ UNCHANGED <<parent, held, sigint, status, bytes, sh, lines, last>>

\* The processes of S end; a shell forgets what it was about.  A signal ends who
\* writes to a pipe, or is at the mercy of ^C.
EndStep(S, st) ==
  /\ S \subseteq Alive /\ st \in Codes \cup {"killed"} /\ Exit(S, st)
  /\ sh' = [p \in Procs |-> sh'[p]] /\ job' = [p \in Procs |-> job'[p]]
  /\ \A p \in Procs : \/ sh'[p] = sh[p] /\ (p \in S => mode[p] # "shell")
                      \/ sh'[p] = AtPrompt(Unwritten) /\ p \in S
  /\ \A p \in Procs \ S : job'[p] = job[p]
  /\ st = "killed" => \A p \in S : stdout[p] \in WriteEnds \/ CtrlC
  /\ UNCHANGED <<lines, last>>

\* A program reads or writes.
DataStep ==
  /\ UNCHANGED <<mode, parent, stdin, stdout, held, sigint, status, shellVars>>
  /\ bytes' \in [Pipes -> 0 .. Capacity]

Step ==
  \/ \E p \in Procs : TalkStep(p) \/ ReapStep(p) \/ ExecStep(p) \/ LoopStep(p)
  \/ \E p, c \in Procs : (\E k \in Pipes : StageStep(p, c, k)) \/ LastStep(p, c) \/ LaunchStep(p, c)
  \/ \E S \in SUBSET Procs, st \in Codes \cup {"killed"} : EndStep(S, st)
  \/ DataStep

LEMMA NewOnes ==
  /\ FreeProcs # {} => NewProc \in Procs /\ mode[NewProc] = "free"
  /\ FreePipes # {} => NewPipe \in Pipes /\ NewPipe \in FreePipes
BY DEF FreeProcs, FreePipes, NewProc, NewPipe

LEMMA CountOne ==
  ASSUME NEW T, NEW p, T \subseteq {p}
  PROVE  Cardinality(T) = IF p \in T THEN 1 ELSE 0
<1>1. CASE p \in T
  BY <1>1, FS_Singleton, T = {p}
<1>2. CASE p \notin T
  BY <1>2, FS_EmptySet, T = {}
<1> QED BY <1>1, <1>2

LEMMA ListSteps ==
  ASSUME TypeInv, NEW p \in Procs, mode[p] = "shell",
         \/ read_line(p) \/ no_command(p) \/ only_and(p) \/ runpwd(p) \/ runcd(p)
         \/ Standalone(p) /\ CannotRun(p)
  PROVE  TalkStep(p)
<1>1. /\ sh = [q \in Procs |-> sh[q]] /\ ShellState(sh[p]) /\ {"0", "1"} \subseteq Codes
      /\ PlaceOK(sh[p])
      /\ lines \in 0 .. MaxLines /\ MaxLines \in Nat
  BY ShellOK DEF TypeInv, ProcessOK, KernelTypes
<1>2. ASSUME read_line(p) PROVE TalkStep(p)
  <2>1. /\ UNCHANGED <<processVars, job, last>> /\ lines' = lines + 1 /\ lines < MaxLines
        /\ sh[p].pc = "prompt"
    BY <1>2 DEF read_line
  <2>2. PICK list : /\ \E tokens \in Lines : list = buildCommandList(Expand(tokens, sh[p].qbuf))
                    /\ \/ sh' = sh
                       \/ list # <<>> /\ sh' = [sh EXCEPT ![p].pc = "list", ![p].list = list]
    BY <1>2 DEF read_line
  <2>3. CASE sh' = sh
    BY <1>1, <2>1, <2>3 DEF TalkStep
  <2>4. CASE list # <<>> /\ sh' = [sh EXCEPT ![p].pc = "list", ![p].list = list]
    <3>1. sh'[p] = [sh[p] EXCEPT !.pc = "list", !.list = list]
      BY <1>1, <2>4
    <3>2. sh'[p] = [sh[p] EXCEPT !.pc = "list", !.list = sh'[p].list] /\ sh'[p].list = list
      BY <1>1, <3>1 DEF ShellState
    <3>3. sh' = [sh EXCEPT ![p] = sh'[p]]
      BY <1>1, <2>4, <3>1
    <3>4. lines' \in lines .. MaxLines
      BY <1>1, <2>1
    <3> QED BY <2>1, <2>2, <2>4, <3>2, <3>3, <3>4 DEF TalkStep
  <2> QED BY <2>2, <2>3, <2>4
<1>3. ASSUME NEW text \in Codes \cup {Unwritten}, Returns(p, text), InList(p),
             sh[p].at = 1 \/ Current(p).command = NULL,
             UNCHANGED <<processVars, job, lines>>, TalkStatus(p, text)
      PROVE  TalkStep(p)
  <2>1. sh'[p] = AtPrompt(text) /\ sh' = [sh EXCEPT ![p] = sh'[p]]
    BY <1>1, <1>3 DEF Returns
  <2>2. lines' \in lines .. MaxLines
    BY <1>1, <1>3
  <2> QED BY <1>3, <2>1, <2>2 DEF TalkStep, InList
<1>4. InList(p) /\ ~HasPrev(p) => sh[p].at = 1
  BY <1>1 DEF InList, HasPrev, ShellState, PlaceOK
<1>5. ASSUME no_command(p) \/ only_and(p) \/ runpwd(p) \/ (Standalone(p) /\ CannotRun(p))
      PROVE  TalkStep(p)
  <2>1. Returns(p, sh[p].qbuf) /\ InList(p) /\ UNCHANGED <<processVars, job, lines>>
    BY <1>5 DEF no_command, only_and, runpwd, CannotRun, Builtin, Standalone
  <2>2. ~HasPrev(p) \/ Current(p).command = NULL
    BY <1>5 DEF no_command, only_and, runpwd, Builtin, Standalone
  <2>3. TalkStatus(p, sh[p].qbuf)
    BY <1>5 DEF no_command, only_and, runpwd, CannotRun, Ended, WEXITSTATUS, TalkStatus
  <2> QED BY <1>1, <1>3, <1>4, <2>1, <2>2, <2>3 DEF ShellState
<1>6. ASSUME runcd(p) PROVE TalkStep(p)
  <2>1. InList(p) /\ ~HasPrev(p) /\ UNCHANGED <<processVars, job, lines>>
    BY <1>6 DEF runcd, Builtin, Standalone
  <2>2. PICK text \in {"0", "1"} : Returns(p, text) /\ Ended(p, text)
    BY <1>6 DEF runcd
  <2>3. TalkStatus(p, text)
    BY <2>2 DEF Ended, WEXITSTATUS, TalkStatus
  <2> QED BY <1>1, <1>3, <1>4, <2>1, <2>2, <2>3
<1> QED BY <1>2, <1>5, <1>6

LEMMA ForkSteps ==
  ASSUME TypeInv, NEW p \in Procs, mode[p] = "shell",
         first_stage(p) \/ middle_stage(p) \/ last_stage(p)
  PROVE  \E c \in Procs : (\E k \in Pipes : StageStep(p, c, k)) \/ LastStep(p, c)
<1>1. ShellState(sh[p]) /\ PlaceOK(sh[p])
  BY DEF TypeInv, ProcessOK
<1>2. CASE first_stage(p)
  <2> DEFINE c == NewProc
             k == NewPipe
  <2>1. c \in Procs /\ mode[c] = "free" /\ k \in Pipes /\ k \in FreePipes
    BY <1>2, NewOnes DEF first_stage
  <2>2. sh[p].pc = "list" /\ sh[p].at = 1 /\ sh[p].prev = NULL /\ HasNext(p)
    BY <1>1, <1>2 DEF first_stage, PipeStage, InList, HasPrev, ShellState, PlaceOK
  <2>3. /\ runPipe(p, c, NULL, WriteEnd(k), {ReadEnd(k), WriteEnd(k)}, closes(p, k))
        /\ NextStage(p, c, k) /\ NewBytes(k)
    BY <1>2 DEF first_stage
  <2> HIDE DEF c, k
  <2>4. closes(p, k) = {WriteEnd(k)}
    BY <2>1, ShellOK DEF closes
  <2> QED BY <2>1, <2>2, <2>3, <2>4 DEF StageStep, runPipe
<1>3. CASE middle_stage(p)
  <2> DEFINE c == NewProc
             k == NewPipe
  <2>1. c \in Procs /\ mode[c] = "free" /\ k \in Pipes /\ k \in FreePipes
    BY <1>3, NewOnes DEF middle_stage
  <2>2. sh[p].pc = "list" /\ HasNext(p)
    BY <1>3 DEF middle_stage, PipeStage, InList
  <2>3. /\ runPipe(p, c, sh[p].prev, WriteEnd(k), {ReadEnd(k), WriteEnd(k)}, closes(p, k))
        /\ NextStage(p, c, k) /\ NewBytes(k)
    BY <1>3 DEF middle_stage
  <2> HIDE DEF c, k
  <2>4. closes(p, k) = {WriteEnd(k)}
    BY <2>1, ShellOK DEF closes
  <2> QED BY <2>1, <2>2, <2>3, <2>4 DEF StageStep, runPipe
<1>4. CASE last_stage(p)
  <2> DEFINE c == NewProc
  <2>1. c \in Procs /\ mode[c] = "free"
    BY <1>4, NewOnes DEF last_stage
  <2>2. sh[p].pc = "list" /\ sh[p].at > 1
    BY <1>4 DEF last_stage, InList, HasPrev
  <2>3. /\ runPipe(p, c, sh[p].prev, NULL, {}, closes(p, NULL))
        /\ sh' = [sh EXCEPT ![p].pc = "wait", ![p].kids = Append(@, c)]
        /\ UNCHANGED bytes
    BY <1>4 DEF last_stage
  <2> HIDE DEF c
  <2>4. closes(p, NULL) = {sh[p].prev}
    BY DEF closes
  <2> QED BY <2>1, <2>2, <2>3, <2>4 DEF LastStep, runPipe
<1> QED BY <1>2, <1>3, <1>4

\* A builtin or a program by itself, and what follows it.
LEMMA LaunchSteps ==
  ASSUME TypeInv, NEW p \in Procs, mode[p] = "shell",
         runExternal(p) \/ runRedirectExternal(p)
  PROVE  TalkStep(p) \/ \E c \in Procs : LaunchStep(p, c)
<1>1. ShellState(sh[p]) /\ PlaceOK(sh[p]) /\ job = [q \in Procs |-> job[q]]
  BY DEF TypeInv, ProcessOK
<1>2. sh[p].pc = "list" /\ ~(sh[p].at > 1) /\ Standalone(p)
  BY DEF runExternal, runRedirectExternal, Redirected, Program, Standalone, InList, HasPrev
<1>3. sh[p].at = 1
  BY <1>1, <1>2 DEF ShellState, PlaceOK
<1>4. \/ CannotRun(p)
      \/ FreeProcs # {} /\ \E by \in {"runExternal", "runRedirectExternal"} : \E in, out :
           Launch(p, NewProc, by, in, out) /\ (by = "runRedirectExternal" => Redirected(p))
  BY DEF runExternal, runRedirectExternal
<1>5. CASE CannotRun(p)
  BY <1>2, <1>5, ListSteps
<1>6. ASSUME FreeProcs # {}, NEW by \in {"runExternal", "runRedirectExternal"}, NEW in, NEW out,
             Launch(p, NewProc, by, in, out), by = "runRedirectExternal" => Redirected(p)
      PROVE  \E c \in Procs : LaunchStep(p, c)
  <2> DEFINE c == NewProc
  <2>1. c \in Procs /\ mode[c] = "free"
    BY <1>6, NewOnes
  <2> HIDE DEF c
  <2>2. /\ Fork(p, c, {}, {}) /\ UNCHANGED <<bytes, lines>>
        /\ job' = [job EXCEPT ![c] =
             [ by |-> by, command |-> Current(p), in |-> in, out |-> out ]]
        /\ sh' = [sh EXCEPT ![p].pc = by, ![p].kids = <<c>>, ![c] = AtPrompt(sh[p].qbuf)]
        /\ last' = [last EXCEPT ![c] = last[p]]
    BY <1>6 DEF Launch, c
  <2>3. job' = [job EXCEPT ![c] = job'[c]] /\ job'[c].by = by
    BY <1>1, <2>1, <2>2
  <2> QED BY <1>2, <1>3, <1>6, <2>1, <2>2, <2>3 DEF LaunchStep
<1> QED BY <1>4, <1>5, <1>6

\* A shell that ends.
LEMMA ShellEnds ==
  ASSUME TypeInv, NEW p \in Procs, mode[p] = "shell",
         end_of_input(p) \/ fork_fails(p) \/ (runexit(p) /\ mode'[p] # "shell")
  PROVE  \E st \in Codes \cup {"killed"} : EndStep({p}, st)
<1>1. PICK st \in Codes : /\ Exit({p}, st) /\ sh' = [sh EXCEPT ![p] = AtPrompt(Unwritten)]
                          /\ UNCHANGED <<job, lines, last>>
  <2>1. {"0", "1"} \subseteq Codes /\ \A text : atoi(text) \in Codes
    BY ShellOK DEF atoi
  <2>2. CASE end_of_input(p) \/ fork_fails(p)
    BY <2>1, <2>2 DEF end_of_input, fork_fails
  <2>3. CASE runexit(p) /\ mode'[p] # "shell"
    BY <2>1, <2>3 DEF runexit, processVars
  <2> QED BY <2>2, <2>3
<1>2. sh = [q \in Procs |-> sh[q]] /\ job = [q \in Procs |-> job[q]] /\ {p} \subseteq Alive
  BY DEF TypeInv, Alive
<1>3. sh' = [q \in Procs |-> sh'[q]] /\ job' = [q \in Procs |-> job'[q]]
  BY <1>1, <1>2
<1> QED BY <1>1, <1>2, <1>3, ShellOK DEF EndStep

LEMMA ExitSteps ==
  ASSUME TypeInv, NEW p \in Procs, mode[p] = "shell", runexit(p)
  PROVE  TalkStep(p) \/ \E st \in Codes \cup {"killed"} : EndStep({p}, st)
<1>1. InList(p) /\ sh[p].at = 1 /\ ShellState(sh[p]) /\ {"0", "1"} \subseteq Codes
      /\ lines \in Nat /\ MaxLines \in Nat /\ lines <= MaxLines /\ sh = [q \in Procs |-> sh[q]]
  BY ShellOK DEF runexit, Builtin, Standalone, InList, HasPrev, TypeInv, ProcessOK, ShellState,
                 PlaceOK, KernelTypes
<1>2. CASE mode'[p] = "shell"
  <2>1. Exit({p}, "0") => FALSE
    BY <1>2 DEF Exit
  <2>2. \A st : Exit({p}, st) => FALSE
    BY <1>2 DEF Exit
  <2>3. Returns(p, "1") /\ Ended(p, "1") /\ UNCHANGED <<processVars, job, lines>>
    BY <2>2 DEF runexit
  <2>4. sh'[p] = AtPrompt("1") /\ sh' = [sh EXCEPT ![p] = sh'[p]] /\ lines' \in lines .. MaxLines
    BY <1>1, <2>3 DEF Returns
  <2>5. TalkStatus(p, "1")
    BY <2>3 DEF Ended, WEXITSTATUS, TalkStatus
  <2> QED BY <1>1, <2>3, <2>4, <2>5 DEF TalkStep, InList
<1>3. CASE mode'[p] # "shell"
  BY <1>3, ShellEnds
<1> QED BY <1>2, <1>3

\* Waiting, and what becomes of the status.
LEMMA WaitSteps ==
  ASSUME TypeInv, NEW p \in Procs, mode[p] = "shell", wait_stage(p) \/ wait_command(p)
  PROVE  ReapStep(p)
<1> DEFINE c == Head(sh[p].kids)
<1>1. ShellState(sh[p]) /\ PlaceOK(sh[p]) /\ sh = [q \in Procs |-> sh[q]]
  BY DEF TypeInv, ProcessOK
<1>2. sh[p].pc \in Waits /\ mode[c] = "zombie" /\ Reap(c) /\ UNCHANGED <<job, lines>>
  BY DEF wait_stage, wait_command, Waits
<1>3. c \in Procs
  BY <1>1, <1>2 DEF ShellState, PlaceOK
<1>4. WEXITSTATUS(status[c]) \in Codes /\ sh[p].qbuf \in Codes \cup {Unwritten}
  BY <1>1, <1>3, ShellOK DEF TypeInv, KernelTypes, WEXITSTATUS, ShellState
<1> HIDE DEF c
<1>5. CASE wait_stage(p) /\ Tail(sh[p].kids) # <<>>
  <2>1. /\ sh[p].pc = "wait" /\ last' = last
        /\ sh' = [sh EXCEPT ![p].kids = Tail(sh[p].kids), ![p].qbuf = WEXITSTATUS(status[c])]
    BY <1>5 DEF wait_stage, stage_status, c
  <2>2. /\ sh'[p] = [sh[p] EXCEPT !.kids = Tail(sh[p].kids), !.qbuf = WEXITSTATUS(status[c])]
        /\ sh' = [sh EXCEPT ![p] = sh'[p]]
    BY <1>1, <2>1 DEF ShellState
  <2> QED BY <1>2, <1>4, <1>5, <2>1, <2>2 DEF ReapStep, c
<1>6. CASE (wait_stage(p) /\ Tail(sh[p].kids) = <<>>) \/ wait_command(p)
  <2>1. PICK text \in Codes \cup {Unwritten} : Returns(p, text) /\ ReapStatus(p, c, text)
    <3>1. CASE wait_stage(p) /\ Tail(sh[p].kids) = <<>>
      BY <1>4, <3>1 DEF wait_stage, stage_status, Ended, ReapStatus, c
    <3>2. CASE wait_command(p)
      BY <1>4, <3>2 DEF wait_command, Ended, ReapStatus, c
    <3> QED BY <1>6, <3>1, <3>2
  <2>2. sh'[p] = AtPrompt(text) /\ sh' = [sh EXCEPT ![p] = sh'[p]]
    BY <1>1, <2>1 DEF Returns
  <2>3. Tail(sh[p].kids) = <<>> \/ sh[p].pc # "wait"
    BY <1>6 DEF wait_command
  <2> QED BY <1>2, <2>1, <2>2, <2>3 DEF ReapStep, c
<1> QED BY <1>5, <1>6

\* A child that exits, or whose descriptors are as they were.
LEMMA ChildEnds ==
  ASSUME TypeInv, NEW c \in Procs, mode[c] = "child", Exit({c}, "1"),
         job' = [job EXCEPT ![c] = NoJob], sh' = sh \/ sh' = [sh EXCEPT ![c] = AtPrompt(Unwritten)],
         UNCHANGED <<lines, last>>
  PROVE  EndStep({c}, "1")
<1>1. sh = [q \in Procs |-> sh[q]] /\ job = [q \in Procs |-> job[q]] /\ "1" \in Codes
  BY ShellOK DEF TypeInv
<1>2. sh' = [q \in Procs |-> sh'[q]] /\ job' = [q \in Procs |-> job'[q]]
  BY <1>1
<1>3. {c} \subseteq Alive
  BY DEF Alive
<1> QED BY <1>1, <1>2, <1>3 DEF EndStep

LEMMA PipeChild ==
  ASSUME TypeInv, NEW c \in Procs, child_of_runPipe(c)
  PROVE  EndStep({c}, "1") \/ ExecStep(c)
<1>1. /\ mode[c] = "child" /\ job[c].by = "runPipe" /\ job' = [job EXCEPT ![c] = NoJob]
      /\ UNCHANGED <<sh, lines, last>>
  BY DEF child_of_runPipe, ForkedBy
<1>2. /\ stdin \in [Procs -> {Terminal, File} \cup ReadEnds]
      /\ stdout \in [Procs -> {Terminal, File} \cup WriteEnds]
      /\ held \in [Procs -> SUBSET Ends] /\ sh = [q \in Procs |-> sh[q]]
      /\ stdin[c] \in {Terminal, File} /\ stdout[c] \in {Terminal, File}
  BY <1>1 DEF TypeInv, KernelTypes, ProcessOK, ReadEnds, WriteEnds
<1>3. CASE Exit({c}, "1")
  BY <1>1, <1>3, ChildEnds
<1>4. CASE ~Exit({c}, "1")
  <2> DEFINE cmd == job[c].command
             D(end, file, old) == IF end # NULL THEN end ELSE IF file # NULL THEN File ELSE old
             in == D(job[c].in, cmd.input, stdin[c])
             out == D(job[c].out, cmd.output, stdout[c])
  <2>1. /\ Exec(c, Name(c)) /\ UNCHANGED sigint
        /\ stdin' = [stdin EXCEPT ![c] = in] /\ stdout' = [stdout EXCEPT ![c] = out]
        /\ held' = [held EXCEPT ![c] = held[c] \ {job[c].in, job[c].out}]
    BY <1>4 DEF child_of_runPipe
  <2>2. /\ IF job[c].in # NULL THEN in = job[c].in ELSE in \in {Terminal, File}
        /\ IF job[c].out # NULL THEN out = job[c].out ELSE out \in {Terminal, File}
    BY <1>2
  <2> HIDE DEF in, out
  <2>3. /\ stdin'[c] = in /\ stdin' = [stdin EXCEPT ![c] = stdin'[c]]
        /\ stdout'[c] = out /\ stdout' = [stdout EXCEPT ![c] = stdout'[c]]
        /\ held'[c] = held[c] \ {job[c].in, job[c].out} /\ held' = [held EXCEPT ![c] = held'[c]]
        /\ sh' = [sh EXCEPT ![c] = sh'[c]] /\ sh'[c] = sh[c]
    BY <1>1, <1>2, <2>1
  <2>4. mode' = [mode EXCEPT ![c] = "program"] /\ UNCHANGED <<parent, status, bytes>>
    BY <2>1 DEF Exec
  <2> QED BY <1>1, <2>1, <2>2, <2>3, <2>4 DEF ExecStep
<1> QED BY <1>3, <1>4

LEMMA ExternalChild ==
  ASSUME TypeInv, NEW c \in Procs, child_of_runExternal(c)
  PROVE  EndStep({c}, "1") \/ ExecStep(c)
<1>1. /\ mode[c] = "child" /\ job[c].by = "runExternal" /\ job' = [job EXCEPT ![c] = NoJob]
      /\ sh' = [sh EXCEPT ![c] = AtPrompt(Unwritten)] /\ UNCHANGED <<lines, last>>
  BY DEF child_of_runExternal, ForkedBy
<1>2. /\ stdin \in [Procs -> {Terminal, File} \cup ReadEnds]
      /\ stdout \in [Procs -> {Terminal, File} \cup WriteEnds]
      /\ held \in [Procs -> SUBSET Ends] /\ sh = [q \in Procs |-> sh[q]]
      /\ stdin[c] \in {Terminal, File} /\ stdout[c] \in {Terminal, File}
  BY <1>1 DEF TypeInv, KernelTypes, ProcessOK, ReadEnds, WriteEnds
<1>3. CASE Exit({c}, "1")
  BY <1>1, <1>3, ChildEnds
<1>4. CASE ~Exit({c}, "1")
  <2>1. Exec(c, Name(c)) /\ sigint' = sigint \cup {c} /\ UNCHANGED <<stdin, stdout, held>>
    BY <1>4 DEF child_of_runExternal
  <2>2. /\ stdin' = [stdin EXCEPT ![c] = stdin'[c]] /\ stdout' = [stdout EXCEPT ![c] = stdout'[c]]
        /\ held' = [held EXCEPT ![c] = held'[c]]
        /\ sh'[c] = AtPrompt(Unwritten) /\ sh' = [sh EXCEPT ![c] = sh'[c]]
    BY <1>1, <1>2, <2>1
  <2>3. mode' = [mode EXCEPT ![c] = "program"] /\ UNCHANGED <<parent, status, bytes>>
    BY <2>1 DEF Exec
  <2> QED BY <1>1, <1>2, <2>1, <2>2, <2>3 DEF ExecStep
<1> QED BY <1>3, <1>4

LEMMA RedirectedChild ==
  ASSUME TypeInv, NEW c \in Procs, child_of_runRedirectExternal(c)
  PROVE  ExecStep(c) \/ LoopStep(c)
<1> DEFINE file == IF job[c].in # NULL THEN job[c].in ELSE job[c].out
           fails == file \in OpenFails \cup ChmodFails
<1>1. /\ mode[c] = "child" /\ job[c].by = "runRedirectExternal"
      /\ job' = [job EXCEPT ![c] = NoJob] /\ UNCHANGED <<held, lines, last>>
  BY DEF child_of_runRedirectExternal, ForkedBy
<1>2. /\ stdin \in [Procs -> {Terminal, File} \cup ReadEnds]
      /\ stdout \in [Procs -> {Terminal, File} \cup WriteEnds]
      /\ held \in [Procs -> SUBSET Ends] /\ sh = [q \in Procs |-> sh[q]]
      /\ stdin[c] \in {Terminal, File} /\ stdout[c] \in {Terminal, File}
  BY <1>1 DEF TypeInv, KernelTypes, ProcessOK, ReadEnds, WriteEnds
<1>3. /\ stdin' = [stdin EXCEPT ![c] = stdin'[c]] /\ stdout' = [stdout EXCEPT ![c] = stdout'[c]]
      /\ stdin'[c] \in {Terminal, File} /\ stdout'[c] \in {Terminal, File}
  <2>1. CASE fails
    BY <1>2, <2>1 DEF child_of_runRedirectExternal
  <2>2. CASE ~fails
    <3>1. /\ stdin' = [stdin EXCEPT ![c] = IF job[c].in # NULL THEN File ELSE stdin[c]]
          /\ stdout' = [stdout EXCEPT ![c] = IF job[c].out # NULL THEN File ELSE stdout[c]]
      BY <2>2 DEF child_of_runRedirectExternal
    <3> QED BY <1>2, <3>1
  <2> QED BY <2>1, <2>2
<1>4. CASE fails \/ Missing(c)
  <2>1. /\ mode' = [mode EXCEPT ![c] = "shell"]
        /\ UNCHANGED <<parent, status, program, todo, bytes, sigint, sh>>
    BY <1>4 DEF child_of_runRedirectExternal
  <2> QED BY <1>1, <1>3, <2>1 DEF LoopStep
<1>5. CASE ~(fails \/ Missing(c))
  <2>1. /\ Exec(c, Name(c)) /\ sigint' = sigint \cup {c}
        /\ sh' = [sh EXCEPT ![c] = AtPrompt(Unwritten)]
    BY <1>5 DEF child_of_runRedirectExternal
  <2>2. held' = [held EXCEPT ![c] = held'[c]]
        /\ sh'[c] = AtPrompt(Unwritten) /\ sh' = [sh EXCEPT ![c] = sh'[c]]
    BY <1>1, <1>2, <2>1
  <2>3. mode' = [mode EXCEPT ![c] = "program"] /\ UNCHANGED <<parent, status, bytes>>
    BY <2>1 DEF Exec
  <2> QED BY <1>1, <1>3, <2>1, <2>2, <2>3 DEF ExecStep
<1> QED BY <1>4, <1>5

LEMMA AfterBytes ==
  ASSUME TypeInv, NEW p \in Procs, NEW reads \in SUBSET {p}, NEW writes \in SUBSET {p},
         reads # {} => HasByte(p), writes # {} => CanWrite(p), After(reads, writes)
  PROVE  bytes' \in [Pipes -> 0 .. Capacity]
<1>1. bytes \in [Pipes -> 0 .. Capacity] /\ Capacity \in Nat
  BY ProcessesOK DEF TypeInv, KernelTypes
<1>2. ASSUME NEW k \in Pipes
      PROVE  bytes[k] + Cardinality({q \in writes : stdout[q] = WriteEnd(k)})
               - Cardinality({q \in reads : stdin[q] = ReadEnd(k)}) \in 0 .. Capacity
  <2> DEFINE W == {q \in writes : stdout[q] = WriteEnd(k)}
             R == {q \in reads : stdin[q] = ReadEnd(k)}
  <2>1. W \subseteq {p} /\ R \subseteq {p}
    OBVIOUS
  <2>2. /\ Cardinality(W) = IF p \in W THEN 1 ELSE 0
        /\ Cardinality(R) = IF p \in R THEN 1 ELSE 0
    <3> HIDE DEF W, R
    <3> QED BY <2>1, CountOne
  <2>3. p \in W => bytes[k] < Capacity
    BY DEF CanWrite
  <2>4. p \in R => bytes[k] > 0
    <3> SUFFICES ASSUME p \in R PROVE bytes[k] > 0
      OBVIOUS
    <3>1. PICK l \in Pipes : stdin[p] = ReadEnd(l) /\ bytes[l] > 0
      BY DEF HasByte
    <3>2. l = k
      BY <3>1 DEF ReadEnd
    <3> QED BY <3>1, <3>2
  <2> HIDE DEF W, R
  <2>5. bytes[k] \in 0 .. Capacity
    BY <1>1
  <2>6. bytes[k] + Cardinality(W) - Cardinality(R) \in 0 .. Capacity
    BY <1>1, <2>2, <2>3, <2>4, <2>5
  <2> QED BY <2>6 DEF W, R
<1> QED BY <1>2 DEF After

LEMMA ProcessEnds ==
  ASSUME TypeInv, NEW S, S \subseteq Alive, \A p \in S : mode[p] # "shell",
         NEW st \in Codes \cup {"killed"}, Exit(S, st), UNCHANGED shellVars,
         st = "killed" => \A p \in S : stdout[p] \in WriteEnds \/ CtrlC
  PROVE  EndStep(S, st)
<1>1. /\ sh' = sh /\ job' = job /\ lines' = lines /\ last' = last
      /\ sh' = [p \in Procs |-> sh'[p]] /\ job' = [p \in Procs |-> job'[p]]
  BY DEF TypeInv, shellVars
<1> QED BY <1>1 DEF EndStep

LEMMA ProgramSteps ==
  ASSUME TypeInv, NEW p \in Procs, ProgramStep(p), UNCHANGED shellVars
  PROVE  DataStep \/ \E st \in Codes \cup {"killed"} : EndStep({p}, st)
<1>1. mode[p] = "program" /\ {p} \subseteq Alive
  BY DEF ProgramStep, emit, copy, take, finish, Runs, Alive
<1>2. ASSUME NEW reads \in SUBSET {p}, reads # {} => HasByte(p), Write(p, reads)
      PROVE  DataStep \/ \E st \in Codes \cup {"killed"} : EndStep({p}, st)
  <2>1. CASE BrokenPipe(p)
    BY <1>1, <1>2, <2>1, ProcessEnds DEF Write, BrokenPipe, WriteEnds
  <2>2. CASE ~BrokenPipe(p)
    <3>1. CanWrite(p) /\ After(reads, {p}) /\ SameProcesses
      BY <1>2, <2>2 DEF Write
    <3>2. bytes' \in [Pipes -> 0 .. Capacity]
      BY <1>2, <3>1, AfterBytes
    <3> QED BY <3>1, <3>2 DEF DataStep, SameProcesses
  <2> QED BY <2>1, <2>2
<1>3. CASE emit(p)
  BY <1>2, <1>3 DEF emit
<1>4. CASE copy(p)
  BY <1>2, <1>4 DEF copy
<1>5. CASE take(p)
  <2>1. HasByte(p) /\ After({p}, {}) /\ SameProcesses
    BY <1>5 DEF take
  <2>2. bytes' \in [Pipes -> 0 .. Capacity]
    BY <2>1, AfterBytes
  <2> QED BY <2>1, <2>2 DEF DataStep, SameProcesses
<1>6. CASE finish(p)
  <2>1. PICK st \in {"0", "1"} : Exit({p}, st)
    BY <1>6 DEF finish
  <2>2. st \in Codes \cup {"killed"}
    BY ShellOK
  <2> QED BY <1>1, <2>1, <2>2, ProcessEnds
<1> QED BY <1>3, <1>4, <1>5, <1>6 DEF ProgramStep

\* The steps of the shell, its children and the programs, and ^C, are of these
\* few kinds.
LEMMA Kinds == TypeInv /\ Next => Step \/ UNCHANGED vars
<1> SUFFICES ASSUME TypeInv, Next PROVE Step \/ UNCHANGED vars
  OBVIOUS
<1>1. ASSUME NEW p \in Procs, UserStep(p) \/ RunStep(p) PROVE Step
  <2>1. ASSUME \E st \in Codes \cup {"killed"} : EndStep({p}, st) PROVE Step
    <3>1. {p} \in SUBSET Procs
      OBVIOUS
    <3> QED BY <2>1, <3>1 DEF Step
  <2>2. ASSUME mode[p] = "shell",
               \/ read_line(p) \/ end_of_input(p) \/ no_command(p) \/ only_and(p)
               \/ first_stage(p) \/ middle_stage(p) \/ last_stage(p) \/ fork_fails(p)
        PROVE  Step
    <3>1. CASE read_line(p) \/ no_command(p) \/ only_and(p)
      BY <2>2, <3>1, ListSteps DEF Step
    <3>2. CASE end_of_input(p) \/ fork_fails(p)
      BY <2>1, <2>2, <3>2, ShellEnds
    <3>3. CASE first_stage(p) \/ middle_stage(p) \/ last_stage(p)
      BY <2>2, <3>3, ForkSteps DEF Step
    <3> QED BY <2>2, <3>1, <3>2, <3>3
  <2>3. ASSUME mode[p] = "shell",
               \/ wait_stage(p) \/ wait_command(p) \/ runpwd(p) \/ runcd(p) \/ runexit(p)
               \/ runExternal(p) \/ runRedirectExternal(p)
        PROVE  Step
    <3>1. CASE wait_stage(p) \/ wait_command(p)
      BY <2>3, <3>1, WaitSteps DEF Step
    <3>2. CASE runpwd(p) \/ runcd(p)
      BY <2>3, <3>2, ListSteps DEF Step
    <3>3. CASE runexit(p)
      BY <2>1, <2>3, <3>3, ExitSteps DEF Step
    <3>4. CASE runExternal(p) \/ runRedirectExternal(p)
      BY <2>3, <3>4, LaunchSteps DEF Step
    <3> QED BY <2>3, <3>1, <3>2, <3>3, <3>4
  <2>4. ASSUME ChildStep(p) PROVE Step
    <3>1. "1" \in Codes \cup {"killed"}
      BY ShellOK
    <3>2. CASE child_of_runPipe(p)
      BY <2>1, <3>1, <3>2, PipeChild DEF Step
    <3>3. CASE child_of_runExternal(p)
      BY <2>1, <3>1, <3>3, ExternalChild DEF Step
    <3>4. CASE child_of_runRedirectExternal(p)
      BY <3>4, RedirectedChild DEF Step
    <3> QED BY <2>4, <3>2, <3>3, <3>4 DEF ChildStep
  <2>5. ASSUME ProgramStep(p), UNCHANGED shellVars PROVE Step
    BY <2>1, <2>5, ProgramSteps DEF Step
  <2> QED BY <1>1, <2>2, <2>3, <2>4, <2>5 DEF UserStep, RunStep, ShellStep
<1>2. ASSUME CtrlC, Interrupt, UNCHANGED shellVars PROVE Step
  <2>1. sigint \in SUBSET Procs /\ sigint \subseteq Alive /\ \A p \in sigint : mode[p] # "shell"
    BY DEF TypeInv, KernelTypes, ProcessOK, Alive
  <2>2. EndStep(sigint, "killed")
    BY <1>2, <2>1, ProcessEnds DEF Interrupt
  <2> QED BY <2>1, <2>2 DEF Step
<1> QED BY <1>1, <1>2 DEF Next, Terminated

(***************************************************************************)
(* The types are kept.                                                     *)
(***************************************************************************)
LEMMA TypesOK == TypeInv => TypeOK
BY DEF TypeInv, TypeOK, ProcessOK, ShellState, ReadEnds, Waits

LEMMA PromptOK ==
  ASSUME NEW text \in Codes \cup {Unwritten}
  PROVE  ShellState(AtPrompt(text)) /\ PlaceOK(AtPrompt(text)) /\ AtPrompt(text).pc = "prompt"
BY DEF ShellState, PlaceOK, AtPrompt, Waits

\* A process that keeps its descriptors, and whatever it is about.
LEMMA KeptOK ==
  ASSUME NEW q \in Procs, ProcessOK(q), mode'[q] = mode[q], sh'[q] = sh[q],
         mode[q] = "child" => job'[q] = job[q], stdin'[q] = stdin[q], stdout'[q] = stdout[q],
         q \in sigint' => q \in sigint
  PROVE  ProcessOK(q)'
BY DEF ProcessOK

\* A process whose line alone goes on.
LEMMA LineOK ==
  ASSUME NEW q \in Procs, ProcessOK(q), mode'[q] = mode[q], ShellState(sh'[q]), PlaceOK(sh'[q]),
         mode[q] # "shell" => sh'[q].pc = "prompt",
         mode[q] = "child" => job'[q] = job[q], stdin'[q] = stdin[q], stdout'[q] = stdout[q],
         q \in sigint' => q \in sigint
  PROVE  ProcessOK(q)'
BY DEF ProcessOK

LEMMA TalkTypes ==
  ASSUME TypeInv, NEW p \in Procs, TalkStep(p)
  PROVE  TypeInv'
<1>1. /\ KernelTypes /\ sh = [q \in Procs |-> sh[q]] /\ job = [q \in Procs |-> job[q]]
      /\ \A q \in Procs : ProcessOK(q)
      /\ mode[p] = "shell" /\ UNCHANGED <<processVars, job>> /\ lines' \in lines .. MaxLines
      /\ sh' = [sh EXCEPT ![p] = sh'[p]]
  BY DEF TypeInv, TalkStep
<1>2. KernelTypes'
  <2>1. lines' \in 0 .. MaxLines
    BY <1>1, ShellOK DEF KernelTypes
  <2> QED BY <1>1, <2>1 DEF KernelTypes, processVars
<1>3. ShellState(sh'[p]) /\ PlaceOK(sh'[p])
  <2>1. ShellState(sh[p]) /\ PlaceOK(sh[p])
    BY <1>1 DEF ProcessOK
  <2>2. CASE sh'[p] = sh[p]
    BY <2>1, <2>2
  <2>3. CASE sh[p].pc = "prompt" /\ sh'[p] = [sh[p] EXCEPT !.pc = "list", !.list = sh'[p].list]
    <3>1. /\ sh'[p].pc = "list" /\ sh'[p].at = sh[p].at /\ sh'[p].prev = sh[p].prev
          /\ sh'[p].kids = sh[p].kids /\ sh'[p].qbuf = sh[p].qbuf
      BY <2>1, <2>3 DEF ShellState
    <3>2. sh'[p].at = 1 /\ sh'[p].kids = <<>> /\ sh'[p].prev = NULL
      BY <2>1, <2>3, <3>1 DEF PlaceOK
    <3>3. PlaceOK(sh'[p])
      BY <3>1, <3>2 DEF PlaceOK, Waits
    <3>4. ShellState(sh'[p])
      BY <2>1, <2>3, <3>1 DEF ShellState
    <3> QED BY <3>3, <3>4
  <2>4. CASE \E text \in Codes \cup {Unwritten} : sh'[p] = AtPrompt(text)
    BY <2>4, PromptOK
  <2> QED BY <2>2, <2>3, <2>4 DEF TalkStep
<1>4. ASSUME NEW q \in Procs PROVE ProcessOK(q)'
  <2>1. ProcessOK(q) /\ UNCHANGED <<mode, stdin, stdout, sigint, job>>
    BY <1>1 DEF processVars
  <2>2. q # p => sh'[q] = sh[q]
    BY <1>1
  <2> QED BY <1>1, <1>3, <2>1, <2>2, LineOK, KeptOK
<1> QED BY <1>1, <1>2, <1>4 DEF TypeInv

LEMMA ForkTypes ==
  ASSUME TypeInv, NEW p \in Procs, NEW c \in Procs, NEW opened, NEW closed,
         mode[p] = "shell", mode[c] = "free", opened \subseteq Ends, Fork(p, c, opened, closed),
         bytes' \in [Pipes -> 0 .. Capacity], lines' = lines,
         sh' = [q \in Procs |-> sh'[q]], job' = [job EXCEPT ![c] = job'[c]],
         JobOK(job'[c]), ShellState(sh'[c]), PlaceOK(sh'[c]), sh'[c].pc = "prompt",
         ShellState(sh'[p]), PlaceOK(sh'[p]),
         \A q \in Procs \ {p, c} : sh'[q] = sh[q]
  PROVE  TypeInv'
<1>1. /\ KernelTypes /\ job = [q \in Procs |-> job[q]]
      /\ \A q \in Procs : ProcessOK(q)
  BY DEF TypeInv
<1>2. /\ mode' = [mode EXCEPT ![c] = "child"] /\ parent' = [parent EXCEPT ![c] = p]
      /\ stdin' = [stdin EXCEPT ![c] = stdin[p]] /\ stdout' = [stdout EXCEPT ![c] = stdout[p]]
      /\ held' = [held EXCEPT ![c] = held[p] \cup opened,
                              ![p] = (held[p] \cup opened) \ closed]
      /\ sigint' = sigint /\ status' = status
  BY DEF Fork
<1>3. KernelTypes'
  BY <1>1, <1>2 DEF KernelTypes
<1>4. /\ mode \in [Procs -> {"free", "shell", "child", "program", "zombie"}]
      /\ stdin = [q \in Procs |-> stdin[q]] /\ stdout = [q \in Procs |-> stdout[q]]
  BY <1>1 DEF KernelTypes
<1>5. ASSUME NEW q \in Procs PROVE ProcessOK(q)'
  <2>1. CASE q = c
    <3>1. /\ mode'[c] = "child" /\ stdin'[c] = stdin[p] /\ stdout'[c] = stdout[p]
          /\ c \notin sigint' /\ stdin[p] \in {Terminal, File} /\ stdout[p] \in {Terminal, File}
      BY <1>1, <1>2, <1>4 DEF ProcessOK
    <3> QED BY <2>1, <3>1 DEF ProcessOK
  <2>2. CASE q # c
    <3>1. /\ mode'[q] = mode[q] /\ stdin'[q] = stdin[q] /\ stdout'[q] = stdout[q]
          /\ job'[q] = job[q] /\ sigint' = sigint
      BY <1>1, <1>2, <1>4, <2>2
    <3>2. ProcessOK(q)
      BY <1>1
    <3>3. CASE q = p
      BY <3>1, <3>2, <3>3, LineOK
    <3>4. CASE q # p
      BY <2>2, <3>1, <3>2, <3>4, KeptOK
    <3> QED BY <3>3, <3>4
  <2> QED BY <2>1, <2>2
<1>6. job' = [q \in Procs |-> job'[q]]
  BY <1>1
<1> QED BY <1>3, <1>5, <1>6 DEF TypeInv

LEMMA StageTypes ==
  ASSUME TypeInv, NEW p \in Procs, NEW c \in Procs, NEW k \in Pipes, StageStep(p, c, k)
  PROVE  TypeInv'
<1>1. /\ sh = [q \in Procs |-> sh[q]] /\ job = [q \in Procs |-> job[q]]
      /\ bytes \in [Pipes -> 0 .. Capacity] /\ Capacity \in Nat
      /\ mode[p] = "shell" /\ sh[p].pc = "list" /\ mode[c] = "free" /\ p # c
      /\ ShellState(sh[p]) /\ PlaceOK(sh[p])
      /\ ShellState(sh[c]) /\ PlaceOK(sh[c]) /\ sh[c].pc = "prompt"
  BY ProcessesOK DEF TypeInv, KernelTypes, StageStep, ProcessOK
<1>2. /\ ReadEnd(k) \in ReadEnds /\ WriteEnd(k) \in WriteEnds
      /\ {ReadEnd(k), WriteEnd(k)} \subseteq Ends /\ ReadEnd(k) # NULL
  BY ShellOK DEF ReadEnds, WriteEnds, ReadEnd, WriteEnd, Ends
<1>3. /\ Fork(p, c, {ReadEnd(k), WriteEnd(k)}, {WriteEnd(k)}) /\ lines' = lines
      /\ bytes' \in [Pipes -> 0 .. Capacity]
  BY <1>1 DEF StageStep, NewBytes
<1>4. /\ job' = [job EXCEPT ![c] = job'[c]] /\ JobOK(job'[c])
  <2>1. job' = [job EXCEPT ![c] = [ by |-> "runPipe", command |-> Current(p),
                                    in |-> sh[p].prev, out |-> WriteEnd(k) ]]
    BY DEF StageStep
  <2> QED BY <1>1, <1>2, <2>1 DEF JobOK, ShellState
<1>5. /\ sh' = [q \in Procs |-> sh'[q]] /\ \A q \in Procs \ {p} : sh'[q] = sh[q]
      /\ sh'[p] = [sh[p] EXCEPT !.at = @ + 1, !.prev = ReadEnd(k), !.kids = Append(@, c)]
  BY <1>1 DEF StageStep, NextStage, ShellState
<1>6. ShellState(sh'[p]) /\ PlaceOK(sh'[p])
  <2> DEFINE kids == Append(sh[p].kids, c)
             next == sh[p].at + 1
  <2>1. sh[p].kids \in Seq(Procs) /\ sh[p].at = Len(sh[p].kids) + 1 /\ Len(sh[p].kids) \in Nat
    BY <1>1 DEF ShellState, PlaceOK
  <2>2. kids \in Seq(Procs) /\ next = Len(kids) + 1 /\ next \in Nat /\ next # 1
    BY <2>1
  <2> HIDE DEF kids, next
  <2>3. sh'[p] = [sh[p] EXCEPT !.at = next, !.prev = ReadEnd(k), !.kids = kids]
    BY <1>1, <1>5 DEF kids, next
  <2>4. /\ sh'[p].at = next /\ sh'[p].prev = ReadEnd(k) /\ sh'[p].kids = kids
        /\ sh'[p].pc = "list" /\ sh'[p].qbuf = sh[p].qbuf /\ sh'[p].list = sh[p].list
    BY <1>1, <2>3 DEF ShellState
  <2>5. sh'[p] = [ pc |-> sh'[p].pc, list |-> sh'[p].list, at |-> sh'[p].at, prev |-> sh'[p].prev,
                   kids |-> sh'[p].kids, qbuf |-> sh'[p].qbuf ]
    BY <1>1, <2>3 DEF ShellState
  <2>6. ShellState(sh'[p])
    BY <1>1, <1>2, <2>2, <2>4, <2>5 DEF ShellState
  <2>7. PlaceOK(sh'[p])
    BY <1>2, <2>2, <2>4 DEF PlaceOK, Waits
  <2> QED BY <2>6, <2>7
<1> QED BY <1>1, <1>2, <1>3, <1>4, <1>5, <1>6, ForkTypes

LEMMA LastTypes ==
  ASSUME TypeInv, NEW p \in Procs, NEW c \in Procs, LastStep(p, c)
  PROVE  TypeInv'
<1>1. /\ sh = [q \in Procs |-> sh[q]] /\ job = [q \in Procs |-> job[q]]
      /\ bytes \in [Pipes -> 0 .. Capacity]
      /\ mode[p] = "shell" /\ sh[p].pc = "list" /\ mode[c] = "free" /\ p # c
      /\ ShellState(sh[p]) /\ PlaceOK(sh[p])
      /\ ShellState(sh[c]) /\ PlaceOK(sh[c]) /\ sh[c].pc = "prompt"
  BY DEF TypeInv, KernelTypes, LastStep, ProcessOK
<1>2. /\ Fork(p, c, {}, {sh[p].prev}) /\ lines' = lines /\ bytes' \in [Pipes -> 0 .. Capacity]
  BY <1>1 DEF LastStep
<1>3. /\ job' = [job EXCEPT ![c] = job'[c]] /\ JobOK(job'[c])
  <2>1. job' = [job EXCEPT ![c] = [ by |-> "runPipe", command |-> Current(p),
                                    in |-> sh[p].prev, out |-> NULL ]]
    BY DEF LastStep
  <2> QED BY <1>1, <2>1 DEF JobOK, ShellState
<1>4. /\ sh' = [q \in Procs |-> sh'[q]] /\ \A q \in Procs \ {p} : sh'[q] = sh[q]
      /\ sh'[p] = [sh[p] EXCEPT !.pc = "wait", !.kids = Append(@, c)]
  BY <1>1 DEF LastStep, ShellState
<1>5. ShellState(sh'[p]) /\ PlaceOK(sh'[p])
  <2> DEFINE kids == Append(sh[p].kids, c)
  <2>1. kids \in Seq(Procs) /\ kids # <<>>
    <3>1. sh[p].kids \in Seq(Procs)
      BY <1>1 DEF ShellState
    <3>2. kids \in Seq(Procs) /\ Len(kids) = Len(sh[p].kids) + 1 /\ Len(sh[p].kids) \in Nat
      BY <3>1
    <3> QED BY <3>2
  <2>2. sh'[p] = [sh[p] EXCEPT !.pc = "wait", !.kids = kids]
    BY <1>1, <1>4
  <2> HIDE DEF kids
  <2>3. /\ sh'[p].pc = "wait" /\ sh'[p].kids = kids /\ sh'[p].at = sh[p].at
        /\ sh'[p].prev = sh[p].prev /\ sh'[p].qbuf = sh[p].qbuf /\ sh'[p].list = sh[p].list
    BY <1>1, <2>2 DEF ShellState
  <2>4. sh'[p] = [ pc |-> sh'[p].pc, list |-> sh'[p].list, at |-> sh'[p].at, prev |-> sh'[p].prev,
                   kids |-> sh'[p].kids, qbuf |-> sh'[p].qbuf ]
    BY <1>1, <2>2 DEF ShellState
  <2>5. ShellState(sh'[p])
    BY <1>1, <2>1, <2>3, <2>4 DEF ShellState, Waits
  <2>6. PlaceOK(sh'[p])
    BY <2>1, <2>3 DEF PlaceOK
  <2> QED BY <2>5, <2>6
<1> QED BY <1>1, <1>2, <1>3, <1>4, <1>5, ForkTypes

LEMMA LaunchTypes ==
  ASSUME TypeInv, NEW p \in Procs, NEW c \in Procs, LaunchStep(p, c)
  PROVE  TypeInv'
<1>1. /\ sh = [q \in Procs |-> sh[q]] /\ job = [q \in Procs |-> job[q]]
      /\ bytes \in [Pipes -> 0 .. Capacity]
      /\ mode[p] = "shell" /\ sh[p].pc = "list" /\ mode[c] = "free" /\ p # c
      /\ ShellState(sh[p]) /\ PlaceOK(sh[p])
  BY DEF TypeInv, KernelTypes, LaunchStep, ProcessOK
<1>2. /\ Fork(p, c, {}, {}) /\ lines' = lines /\ bytes' \in [Pipes -> 0 .. Capacity]
      /\ job' = [job EXCEPT ![c] = job'[c]] /\ JobOK(job'[c])
  BY <1>1 DEF LaunchStep, JobOK
<1> DEFINE by == job'[c].by
<1>3. by \in {"runExternal", "runRedirectExternal"}
  BY DEF LaunchStep
<1>4. sh' = [sh EXCEPT ![p].pc = by, ![p].kids = <<c>>, ![c] = AtPrompt(sh[p].qbuf)]
  BY DEF LaunchStep
<1> HIDE DEF by
<1>5. /\ sh' = [q \in Procs |-> sh'[q]] /\ \A q \in Procs \ {p, c} : sh'[q] = sh[q]
      /\ sh'[p] = [sh[p] EXCEPT !.pc = by, !.kids = <<c>>] /\ sh'[c] = AtPrompt(sh[p].qbuf)
  BY <1>1, <1>4 DEF ShellState
<1>6. ShellState(sh'[c]) /\ PlaceOK(sh'[c]) /\ sh'[c].pc = "prompt"
  BY <1>1, <1>5, PromptOK DEF ShellState
<1>7. ShellState(sh'[p]) /\ PlaceOK(sh'[p])
  <2>1. <<c>> \in Seq(Procs) /\ <<c>> # <<>> /\ Tail(<<c>>) = <<>>
    OBVIOUS
  <2>2. /\ sh'[p].pc = by /\ sh'[p].kids = <<c>> /\ sh'[p].at = sh[p].at
        /\ sh'[p].prev = sh[p].prev /\ sh'[p].qbuf = sh[p].qbuf /\ sh'[p].list = sh[p].list
    BY <1>1, <1>5 DEF ShellState
  <2>3. sh'[p] = [ pc |-> sh'[p].pc, list |-> sh'[p].list, at |-> sh'[p].at, prev |-> sh'[p].prev,
                   kids |-> sh'[p].kids, qbuf |-> sh'[p].qbuf ]
    BY <1>1, <1>5 DEF ShellState
  <2>4. ShellState(sh'[p])
    BY <1>1, <1>3, <2>1, <2>2, <2>3 DEF ShellState, Waits
  <2>5. PlaceOK(sh'[p])
    BY <1>3, <2>1, <2>2 DEF PlaceOK, Waits
  <2> QED BY <2>4, <2>5
<1> QED BY <1>1, <1>2, <1>5, <1>6, <1>7, ForkTypes

LEMMA ReapTypes ==
  ASSUME TypeInv, NEW p \in Procs, ReapStep(p)
  PROVE  TypeInv'
<1> DEFINE c == Head(sh[p].kids)
           rest == Tail(sh[p].kids)
<1>1. /\ KernelTypes /\ sh = [q \in Procs |-> sh[q]] /\ job = [q \in Procs |-> job[q]]
      /\ \A q \in Procs : ProcessOK(q)
  BY DEF TypeInv
<1>2. ShellState(sh[p]) /\ PlaceOK(sh[p]) /\ mode[p] = "shell" /\ sh[p].pc \in Waits
  BY <1>1 DEF ProcessOK, ReapStep
<1>3. c \in Procs /\ rest \in Seq(Procs)
  BY <1>2 DEF ShellState, PlaceOK
<1> HIDE DEF c, rest
<1>4. /\ mode[c] = "zombie" /\ Reap(c) /\ UNCHANGED <<job, lines>>
      /\ sh' = [sh EXCEPT ![p] = sh'[p]]
  BY DEF ReapStep, c
<1>5. KernelTypes'
  <2>1. Adopter \in Procs \cup {Adopter} /\ "0" \in Codes \cup {"killed"}
    BY ShellOK
  <2> QED BY <1>1, <1>3, <1>4, <2>1 DEF KernelTypes, Reap
<1>6. ShellState(sh'[p]) /\ PlaceOK(sh'[p])
  <2>1. PICK text \in Codes \cup {Unwritten} :
          sh'[p] = IF rest = <<>> \/ sh[p].pc # "wait" THEN AtPrompt(text)
                   ELSE [sh[p] EXCEPT !.kids = rest, !.qbuf = text]
    BY DEF ReapStep, rest
  <2>2. CASE rest = <<>> \/ sh[p].pc # "wait"
    BY <2>1, <2>2, PromptOK
  <2>3. CASE ~(rest = <<>> \/ sh[p].pc # "wait")
    <3>1. /\ sh'[p].pc = "wait" /\ sh'[p].kids = rest /\ sh'[p].at = sh[p].at
          /\ sh'[p].prev = sh[p].prev /\ sh'[p].qbuf = text /\ sh'[p].list = sh[p].list
      BY <1>2, <2>1, <2>3 DEF ShellState
    <3>2. sh'[p] = [ pc |-> sh'[p].pc, list |-> sh'[p].list, at |-> sh'[p].at, prev |-> sh'[p].prev,
                     kids |-> sh'[p].kids, qbuf |-> sh'[p].qbuf ]
      BY <1>2, <2>1, <2>3 DEF ShellState
    <3>3. ShellState(sh'[p])
      BY <1>2, <1>3, <3>1, <3>2 DEF ShellState, Waits
    <3>4. PlaceOK(sh'[p])
      BY <2>3, <3>1 DEF PlaceOK
    <3> QED BY <3>3, <3>4
  <2> QED BY <2>2, <2>3
<1>7. ASSUME NEW q \in Procs PROVE ProcessOK(q)'
  <2>1. /\ ProcessOK(q) /\ job'[q] = job[q] /\ stdin'[q] = stdin[q] /\ stdout'[q] = stdout[q]
        /\ sigint' = sigint
    BY <1>1, <1>4 DEF Reap
  <2>2. mode'[q] = IF q = c THEN "free" ELSE mode[q]
    BY <1>1, <1>4 DEF Reap, KernelTypes
  <2>3. q # p => sh'[q] = sh[q]
    BY <1>1, <1>4
  <2>4. c # p
    BY <1>2, <1>4
  <2>5. CASE q = p
    BY <1>2, <1>6, <2>1, <2>2, <2>4, <2>5, LineOK
  <2>6. CASE q # p /\ q # c
    BY <2>1, <2>2, <2>3, <2>6, KeptOK
  <2>7. CASE q = c
    BY <1>4, <2>1, <2>2, <2>3, <2>4, <2>7 DEF ProcessOK
  <2> QED BY <2>5, <2>6, <2>7
<1>8. job' = [q \in Procs |-> job'[q]] /\ sh' = [q \in Procs |-> sh'[q]]
  BY <1>1, <1>4
<1> QED BY <1>5, <1>7, <1>8 DEF TypeInv

LEMMA ExecTypes ==
  ASSUME TypeInv, NEW c \in Procs, ExecStep(c)
  PROVE  TypeInv'
<1>1. /\ KernelTypes /\ sh = [q \in Procs |-> sh[q]] /\ job = [q \in Procs |-> job[q]]
      /\ \A q \in Procs : ProcessOK(q)
  BY DEF TypeInv
<1>2. /\ mode[c] = "child" /\ mode' = [mode EXCEPT ![c] = "program"] /\ JobOK(job[c])
      /\ stdin' = [stdin EXCEPT ![c] = stdin'[c]] /\ stdout' = [stdout EXCEPT ![c] = stdout'[c]]
      /\ held' = [held EXCEPT ![c] = held'[c]] /\ sigint' \in {sigint, sigint \cup {c}}
      /\ job' = [job EXCEPT ![c] = NoJob] /\ sh' = [sh EXCEPT ![c] = sh'[c]]
      /\ sh'[c] \in {sh[c], AtPrompt(Unwritten)}
      /\ UNCHANGED <<parent, status, bytes, lines>>
  BY <1>1 DEF ExecStep, ProcessOK
<1>3. /\ stdin'[c] \in {Terminal, File} \cup ReadEnds
      /\ stdout'[c] \in {Terminal, File} \cup WriteEnds
      /\ held'[c] \subseteq held[c]
  <2>1. CASE job[c].by = "runPipe"
    <3>1. job[c].in \in {NULL} \cup ReadEnds /\ job[c].out \in {NULL} \cup WriteEnds
      BY <1>2, <2>1 DEF JobOK
    <3> QED BY <2>1, <3>1 DEF ExecStep
  <2>2. CASE job[c].by # "runPipe"
    BY <2>2 DEF ExecStep
  <2> QED BY <2>1, <2>2
<1>4. KernelTypes'
  <2>1. stdin' \in [Procs -> {Terminal, File} \cup {ReadEnd(k) : k \in Pipes}]
    BY <1>1, <1>2, <1>3 DEF KernelTypes, ReadEnds
  <2>2. stdout' \in [Procs -> {Terminal, File} \cup {WriteEnd(k) : k \in Pipes}]
    BY <1>1, <1>2, <1>3 DEF KernelTypes, WriteEnds
  <2>3. held' \in [Procs -> SUBSET Ends]
    <3>1. held'[c] \in SUBSET Ends
      BY <1>1, <1>3 DEF KernelTypes
    <3> QED BY <1>1, <1>2, <3>1 DEF KernelTypes
  <2> QED BY <1>1, <1>2, <2>1, <2>2, <2>3 DEF KernelTypes
<1>5. ASSUME NEW q \in Procs PROVE ProcessOK(q)'
  <2>1. ProcessOK(q)
    BY <1>1
  <2>2. mode'[q] = IF q = c THEN "program" ELSE mode[q]
    BY <1>1, <1>2 DEF KernelTypes
  <2>3. CASE q # c
    <3>1. /\ stdin'[q] = stdin[q] /\ stdout'[q] = stdout[q] /\ sh'[q] = sh[q] /\ job'[q] = job[q]
          /\ (q \in sigint' => q \in sigint)
      BY <1>1, <1>2, <2>3 DEF KernelTypes
    <3> QED BY <2>1, <2>2, <2>3, <3>1, KeptOK
  <2>4. CASE q = c
    <3>1. ShellState(sh'[c]) /\ PlaceOK(sh'[c]) /\ sh'[c].pc = "prompt"
      BY <1>2, <2>1, <2>4, PromptOK DEF ProcessOK
    <3> QED BY <2>2, <2>4, <3>1 DEF ProcessOK
  <2> QED BY <2>3, <2>4
<1>6. job' = [q \in Procs |-> job'[q]] /\ sh' = [q \in Procs |-> sh'[q]]
  BY <1>1, <1>2
<1> QED BY <1>4, <1>5, <1>6 DEF TypeInv

LEMMA LoopTypes ==
  ASSUME TypeInv, NEW c \in Procs, LoopStep(c)
  PROVE  TypeInv'
<1>1. /\ KernelTypes /\ sh = [q \in Procs |-> sh[q]] /\ job = [q \in Procs |-> job[q]]
      /\ \A q \in Procs : ProcessOK(q)
  BY DEF TypeInv
<1>2. /\ mode[c] = "child" /\ mode' = [mode EXCEPT ![c] = "shell"]
      /\ stdin' = [stdin EXCEPT ![c] = stdin'[c]] /\ stdout' = [stdout EXCEPT ![c] = stdout'[c]]
      /\ stdin'[c] \in {Terminal, File} /\ stdout'[c] \in {Terminal, File}
      /\ job' = [job EXCEPT ![c] = NoJob]
      /\ UNCHANGED <<parent, held, sigint, status, bytes, sh, lines>>
  BY DEF LoopStep
<1>3. KernelTypes'
  BY <1>1, <1>2 DEF KernelTypes
<1>4. ASSUME NEW q \in Procs PROVE ProcessOK(q)'
  <2>1. ProcessOK(q)
    BY <1>1
  <2>2. mode'[q] = IF q = c THEN "shell" ELSE mode[q]
    BY <1>1, <1>2 DEF KernelTypes
  <2>3. CASE q # c
    <3>1. stdin'[q] = stdin[q] /\ stdout'[q] = stdout[q] /\ sh'[q] = sh[q] /\ job'[q] = job[q]
      BY <1>1, <1>2, <2>3 DEF KernelTypes
    <3> QED BY <1>2, <2>1, <2>2, <2>3, <3>1, KeptOK
  <2>4. CASE q = c
    BY <1>2, <2>1, <2>2, <2>4 DEF ProcessOK
  <2> QED BY <2>3, <2>4
<1>5. job' = [q \in Procs |-> job'[q]] /\ sh' = [q \in Procs |-> sh'[q]]
  BY <1>1, <1>2
<1> QED BY <1>3, <1>4, <1>5 DEF TypeInv

LEMMA EndTypes ==
  ASSUME TypeInv, NEW S \in SUBSET Procs, NEW st \in Codes \cup {"killed"}, EndStep(S, st)
  PROVE  TypeInv'
<1>1. KernelTypes /\ \A q \in Procs : ProcessOK(q)
  BY DEF TypeInv
<1>2. /\ Exit(S, st) /\ lines' = lines
      /\ sh' = [q \in Procs |-> sh'[q]] /\ job' = [q \in Procs |-> job'[q]]
      /\ \A q \in Procs : \/ sh'[q] = sh[q] /\ (q \in S => mode[q] # "shell")
                          \/ sh'[q] = AtPrompt(Unwritten) /\ q \in S
      /\ \A q \in Procs \ S : job'[q] = job[q]
  BY DEF EndStep
<1>3. KernelTypes'
  <2>1. "0" \in Codes
    BY ShellOK
  <2>2. mode' \in [Procs -> {"free", "shell", "child", "program", "zombie"}]
    BY <1>1, <1>2 DEF KernelTypes, Exit
  <2>3. parent' \in [Procs -> Procs \cup {Adopter}]
    BY <1>1, <1>2 DEF KernelTypes, Exit
  <2>4. /\ stdin' \in [Procs -> {Terminal, File} \cup {ReadEnd(k) : k \in Pipes}]
        /\ stdout' \in [Procs -> {Terminal, File} \cup {WriteEnd(k) : k \in Pipes}]
    BY <1>1, <1>2 DEF KernelTypes, Exit
  <2>5. held' \in [Procs -> SUBSET Ends] /\ sigint' \subseteq Procs /\ bytes' = bytes
    BY <1>1, <1>2 DEF KernelTypes, Exit
  <2>6. status' \in [Procs -> Codes \cup {"killed"}]
    BY <1>1, <1>2, <2>1 DEF KernelTypes, Exit
  <2> QED BY <1>1, <1>2, <2>2, <2>3, <2>4, <2>5, <2>6 DEF KernelTypes
<1>4. ASSUME NEW q \in Procs PROVE ProcessOK(q)'
  <2>1. ProcessOK(q) /\ (q \in sigint' => q \in sigint /\ q \notin S)
    BY <1>1, <1>2 DEF Exit
  <2>2. CASE q \notin S
    <3>1. /\ mode'[q] = mode[q] \/ (mode'[q] = "free" /\ mode[q] = "zombie")
          /\ stdin'[q] = stdin[q] /\ stdout'[q] = stdout[q]
      BY <1>2, <2>2 DEF Exit
    <3>2. sh'[q] = sh[q] /\ job'[q] = job[q]
      BY <1>2, <2>2
    <3> QED BY <2>1, <3>1, <3>2 DEF ProcessOK
  <2>3. CASE q \in S
    <3>1. mode'[q] \in {"free", "zombie"}
      BY <1>2, <2>3 DEF Exit
    <3>2. ShellState(sh'[q]) /\ PlaceOK(sh'[q]) /\ sh'[q].pc = "prompt"
      BY <1>2, <2>1, <2>3, PromptOK DEF ProcessOK
    <3> QED BY <2>1, <2>3, <3>1, <3>2 DEF ProcessOK
  <2> QED BY <2>2, <2>3
<1> QED BY <1>2, <1>3, <1>4 DEF TypeInv

LEMMA InitTypes == Init => TypeInv
<1> SUFFICES ASSUME Init PROVE TypeInv
  OBVIOUS
<1>1. KernelTypes
  <2>1. 0 \in 0 .. Capacity /\ 0 \in 0 .. MaxLines /\ "0" \in Codes
    BY ProcessesOK, ShellOK
  <2> QED BY <2>1 DEF KernelTypes, Init, KernelInit
<1>2. \A p \in Procs : ProcessOK(p)
  BY PromptOK DEF Init, KernelInit, ProcessOK
<1> QED BY <1>1, <1>2 DEF TypeInv, Init

LEMMA NextTypes == TypeInv /\ [Next]_vars => TypeInv'
<1> SUFFICES ASSUME TypeInv, [Next]_vars PROVE TypeInv'
  OBVIOUS
<1>1. CASE UNCHANGED vars
  BY <1>1 DEF vars, processVars, shellVars, TypeInv, KernelTypes, ProcessOK
<1>2. CASE Step
  <2>1. CASE DataStep
    BY <2>1 DEF DataStep, shellVars, TypeInv, KernelTypes, ProcessOK
  <2> QED BY <1>2, <2>1, TalkTypes, StageTypes, LastTypes, LaunchTypes, ReapTypes, ExecTypes,
             LoopTypes, EndTypes DEF Step
<1> QED BY <1>1, <1>2, Kinds

\* The types of the shell and of what it uses of the kernel: descriptors and
\* statuses are of their kinds, no pipe holds more than its capacity, the locals
\* of main and of runPipeline have values of their types.
THEOREM ShellTyped == Spec => []TypeOK
<1>1. Spec => []TypeInv
  BY InitTypes, NextTypes, PTL DEF Spec
<1> QED BY <1>1, TypesOK, PTL

-----------------------------------------------------------------------------
(***************************************************************************)
(* The pipes: who holds their ends, and which stages they join.            *)
(***************************************************************************)

(***************************************************************************)
(* The children a shell has to wait for.                                   *)
(***************************************************************************)
KidsOK(p) ==
  \A i \in DOMAIN sh[p].kids :
    /\ mode[sh[p].kids[i]] # "free" /\ parent[sh[p].kids[i]] = p
    /\ \A j \in DOMAIN sh[p].kids : sh[p].kids[i] = sh[p].kids[j] => i = j

(***************************************************************************)
(* The ends of the pipes.                                                  *)
(***************************************************************************)

\* The pipe a process reads from, will read from, or keeps for the command it
\* starts next; the pipe it writes to, or will.
Reading(p) ==
  CASE mode[p] = "shell" /\ sh[p].pc = "list" -> sh[p].prev
    [] mode[p] = "child" /\ job[p].by = "runPipe" -> job[p].in
    [] mode[p] = "program" /\ stdin[p] \in ReadEnds -> stdin[p]
    [] OTHER -> NULL
Writing(p) ==
  CASE mode[p] = "child" /\ job[p].by = "runPipe" -> job[p].out
    [] mode[p] = "program" /\ stdout[p] \in WriteEnds -> stdout[p]
    [] OTHER -> NULL

\* It has these ends open, and no other end to write to.
EndsOK(p) ==
  /\ Reading(p) \in {NULL} \cup held[p] \cup {stdin[p]}
  /\ Writing(p) \in {NULL} \cup held[p] \cup {stdout[p]}
  /\ p \in Alive => held[p] \cap WriteEnds \subseteq {Writing(p)}

\* No end is meant for two.
Apart(p, q) ==
  /\ Reading(p) = Reading(q) /\ Reading(p) # NULL => p = q
  /\ Writing(p) = Writing(q) /\ Writing(p) # NULL => p = q

\* A stage and the next one, until they end, are at the ends of one pipe, and so
\* are the last stage that was started and the shell.
Stage(p) == mode[p] \in {"child", "program"}
Linked(k, writer, reader) ==
  /\ Stage(writer) => Writing(writer) = WriteEnd(k)
  /\ Stage(reader) => Reading(reader) = ReadEnd(k)
LinkOK(p) ==
  LET kids == sh[p].kids IN
  /\ \A i \in 1 .. Len(kids) - 1 : \E k \in Pipes : Linked(k, kids[i], kids[i + 1])
  /\ sh[p].pc = "list" /\ kids # <<>> =>
       \E k \in Pipes : /\ sh[p].prev = ReadEnd(k)
                        /\ Stage(kids[Len(kids)]) => Writing(kids[Len(kids)]) = WriteEnd(k)

PipesInv ==
  /\ TypeInv
  /\ \A p \in Procs : KidsOK(p) /\ EndsOK(p) /\ LinkOK(p)
  /\ \A p, q \in Procs : Apart(p, q)

-----------------------------------------------------------------------------
\* What follows from a state.

LEMMA EndsApart ==
  /\ NULL \notin ReadEnds \cup WriteEnds /\ ReadEnds \cap WriteEnds = {}
  /\ {Terminal, File} \cap (ReadEnds \cup WriteEnds) = {} /\ ReadEnds \cup WriteEnds \subseteq Ends
  /\ \A k, l \in Pipes : /\ ReadEnd(k) = ReadEnd(l) => k = l
                         /\ WriteEnd(k) = WriteEnd(l) => k = l
                         /\ ReadEnd(k) \in ReadEnds /\ WriteEnd(k) \in WriteEnds
BY ShellOK DEF ReadEnds, WriteEnds, ReadEnd, WriteEnd, Ends, Terminal, File

LEMMA ViewTypes ==
  ASSUME TypeInv, NEW q \in Procs
  PROVE  /\ Reading(q) \in {NULL} \cup ReadEnds /\ Writing(q) \in {NULL} \cup WriteEnds
         /\ Reading(q) # NULL \/ Writing(q) # NULL => q \in Alive
<1>1. ProcessOK(q)
  BY DEF TypeInv
<1> QED BY <1>1 DEF Reading, Writing, ProcessOK, ShellState, JobOK, Alive

\* A process that is no stage, and in no list, has nothing to read or write.
LEMMA NoView ==
  ASSUME NEW q, ~Stage(q), mode[q] = "shell" => sh[q].pc # "list"
  PROVE  Reading(q) = NULL /\ Writing(q) = NULL
BY DEF Reading, Writing, Stage

LEMMA NoNewView ==
  ASSUME NEW q, ~Stage(q)', mode'[q] = "shell" => sh'[q].pc # "list"
  PROVE  Reading(q)' = NULL /\ Writing(q)' = NULL
BY DEF Reading, Writing, Stage

LEMMA SameView ==
  ASSUME NEW q, mode'[q] = mode[q], sh'[q] = sh[q], mode[q] = "child" => job'[q] = job[q],
         stdin'[q] = stdin[q], stdout'[q] = stdout[q]
  PROVE  Reading(q)' = Reading(q) /\ Writing(q)' = Writing(q) /\ Stage(q)' = Stage(q)
BY DEF Reading, Writing, Stage

\* A step that gives q no end, and takes none from it if it goes on as a stage.
Settled(q) ==
  Stage(q)' => Stage(q) /\ Reading(q)' = Reading(q) /\ Writing(q)' = Writing(q)
Quiet(q) ==
  /\ Reading(q)' \in {NULL, Reading(q)} /\ Writing(q)' \in {NULL, Writing(q)}
  /\ Settled(q)

LEMMA QuietApart ==
  ASSUME NEW p, NEW q, Apart(p, q), Quiet(p), Quiet(q)
  PROVE  Apart(p, q)'
BY DEF Apart, Quiet, Settled

\* A process that is as it was, or is no more.
LEMMA KeptEnds ==
  ASSUME NEW q \in Procs, EndsOK(q), sh'[q] = sh[q], mode[q] = "child" => job'[q] = job[q],
         stdin'[q] = stdin[q], stdout'[q] = stdout[q], held'[q] = held[q], mode'[q] = mode[q]
  PROVE  Quiet(q) /\ EndsOK(q)'
<1>1. Reading(q)' = Reading(q) /\ Writing(q)' = Writing(q) /\ Stage(q)' = Stage(q)
  BY SameView
<1> QED BY <1>1 DEF EndsOK, Quiet, Settled, Alive

LEMMA GoneEnds ==
  ASSUME NEW q \in Procs, mode'[q] \in {"free", "zombie"}
  PROVE  Quiet(q) /\ EndsOK(q)'
<1>1. Reading(q)' = NULL /\ Writing(q)' = NULL /\ ~Stage(q)'
  BY NoNewView DEF Stage
<1>2. q \notin Alive'
  BY DEF Alive
<1> QED BY <1>1, <1>2 DEF EndsOK, Quiet, Settled

\* A shell that is in no list after the step, and neither opens nor closes.
LEMMA ShellEndsOK ==
  ASSUME NEW q \in Procs, EndsOK(q), mode[q] = "shell", mode'[q] = "shell", sh'[q].pc # "list",
         held'[q] = held[q]
  PROVE  Quiet(q) /\ EndsOK(q)'
<1>1. Reading(q)' = NULL /\ Writing(q)' = NULL /\ ~Stage(q)'
  BY NoNewView DEF Stage
<1>2. Writing(q) = NULL
  BY DEF Writing
<1>3. held[q] \cap WriteEnds \subseteq {NULL}
  BY <1>2 DEF EndsOK, Alive
<1> QED BY <1>1, <1>2, <1>3 DEF EndsOK, Quiet, Settled

-----------------------------------------------------------------------------
\* The ends of the pipes, step by step.

LEMMA TalkEnds ==
  ASSUME PipesInv, NEW p \in Procs, TalkStep(p), NEW q \in Procs
  PROVE  Quiet(q) /\ EndsOK(q)'
<1>1. /\ EndsOK(q) /\ sh = [r \in Procs |-> sh[r]] /\ ShellState(sh[p]) /\ PlaceOK(sh[p])
      /\ UNCHANGED <<mode, stdin, stdout, held, job>> /\ mode[p] = "shell"
      /\ sh' = [sh EXCEPT ![p] = sh'[p]]
  BY DEF PipesInv, TypeInv, ProcessOK, TalkStep, processVars
<1>2. CASE sh'[q] = sh[q]
  BY <1>1, <1>2, KeptEnds
<1>3. CASE sh'[q] # sh[q]
  <2>1. q = p
    BY <1>1, <1>3
  <2>2. CASE sh[p].pc = "list"
    <3>1. sh'[p].pc # "list"
      <4>1. PICK text : sh'[p] = AtPrompt(text)
        BY <1>3, <2>1, <2>2 DEF TalkStep
      <4> QED BY <4>1 DEF AtPrompt
    <3> QED BY <1>1, <2>1, <3>1, ShellEndsOK
  <2>3. CASE sh[p].pc = "prompt"
    <3>1. sh'[p].prev = NULL
      <4>1. sh'[p] = [sh[p] EXCEPT !.pc = "list", !.list = sh'[p].list]
        BY <1>3, <2>1, <2>3 DEF TalkStep
      <4>2. sh'[p].prev = sh[p].prev
        BY <1>1, <4>1 DEF ShellState
      <4> QED BY <1>1, <2>3, <4>2 DEF PlaceOK
    <3>2. Reading(p)' = NULL /\ Writing(p)' = NULL /\ ~Stage(p)'
      BY <1>1, <3>1 DEF Reading, Writing, Stage
    <3>3. Writing(p) = NULL
      BY <1>1 DEF Writing
    <3> QED BY <1>1, <2>1, <3>2, <3>3 DEF EndsOK, Quiet, Settled, Alive
  <2> QED BY <1>3, <2>1, <2>2, <2>3 DEF TalkStep
<1> QED BY <1>2, <1>3

LEMMA ReapEnds ==
  ASSUME PipesInv, NEW p \in Procs, ReapStep(p), NEW q \in Procs
  PROVE  Quiet(q) /\ EndsOK(q)'
<1> DEFINE c == Head(sh[p].kids)
<1>1. /\ EndsOK(q) /\ sh = [r \in Procs |-> sh[r]] /\ ShellState(sh[p]) /\ PlaceOK(sh[p])
      /\ mode = [r \in Procs |-> mode[r]]
  BY DEF PipesInv, TypeInv, KernelTypes, ProcessOK
<1>2. /\ UNCHANGED <<stdin, stdout, held, job>> /\ mode[p] = "shell" /\ sh[p].pc \in Waits
      /\ mode' = [mode EXCEPT ![c] = "free"] /\ mode[c] = "zombie"
      /\ sh' = [sh EXCEPT ![p] = sh'[p]]
  BY DEF ReapStep, Reap
<1> HIDE DEF c
<1>3. CASE q # p
  <2>1. sh'[q] = sh[q]
    BY <1>1, <1>2, <1>3
  <2>2. CASE q = c
    BY <1>1, <1>2, <2>2, GoneEnds
  <2>3. CASE q # c
    BY <1>1, <1>2, <2>1, <2>3, KeptEnds
  <2> QED BY <2>2, <2>3
<1>4. CASE q = p
  <2>1. mode'[p] = "shell"
    BY <1>1, <1>2
  <2>2. sh'[p].pc # "list"
    <3>1. PICK text : \/ sh'[p] = AtPrompt(text)
                      \/ sh'[p] = [sh[p] EXCEPT !.kids = Tail(sh[p].kids), !.qbuf = text]
      BY DEF ReapStep
    <3>2. sh'[p].pc = "prompt" \/ sh'[p].pc = sh[p].pc
      <4>1. CASE sh'[p] = AtPrompt(text)
        BY <4>1 DEF AtPrompt
      <4>2. CASE sh'[p] = [sh[p] EXCEPT !.kids = Tail(sh[p].kids), !.qbuf = text]
        BY <1>1, <4>2 DEF ShellState
      <4> QED BY <3>1, <4>1, <4>2
    <3> QED BY <1>2, <3>2 DEF Waits
  <2> QED BY <1>1, <1>2, <1>4, <2>1, <2>2, ShellEndsOK
<1> QED BY <1>3, <1>4

LEMMA ExecEnds ==
  ASSUME PipesInv, NEW c \in Procs, ExecStep(c), NEW q \in Procs
  PROVE  Quiet(q) /\ EndsOK(q)'
<1>1. /\ EndsOK(q) /\ sh = [r \in Procs |-> sh[r]] /\ job = [r \in Procs |-> job[r]]
      /\ JobOK(job[c]) /\ mode[c] = "child"
      /\ mode = [r \in Procs |-> mode[r]] /\ stdin = [r \in Procs |-> stdin[r]]
      /\ stdout = [r \in Procs |-> stdout[r]] /\ held = [r \in Procs |-> held[r]]
  BY DEF PipesInv, TypeInv, KernelTypes, ProcessOK, ExecStep
<1>2. /\ mode' = [mode EXCEPT ![c] = "program"]
      /\ stdin' = [stdin EXCEPT ![c] = stdin'[c]] /\ stdout' = [stdout EXCEPT ![c] = stdout'[c]]
      /\ held' = [held EXCEPT ![c] = held'[c]]
      /\ job' = [job EXCEPT ![c] = NoJob] /\ sh' = [sh EXCEPT ![c] = sh'[c]]
  BY DEF ExecStep
<1>3. CASE q # c
  <2>1. /\ sh'[q] = sh[q] /\ job'[q] = job[q] /\ stdin'[q] = stdin[q] /\ stdout'[q] = stdout[q]
        /\ held'[q] = held[q] /\ mode'[q] = mode[q]
    BY <1>1, <1>2, <1>3
  <2> QED BY <1>1, <2>1, KeptEnds
<1>4. CASE q = c
  <2>1. mode'[c] = "program"
    BY <1>1, <1>2
  <2>2. CASE job[c].by = "runPipe"
    <3>1. /\ Reading(c) = job[c].in /\ Writing(c) = job[c].out
          /\ job[c].in \in {NULL} \cup ReadEnds /\ job[c].out \in {NULL} \cup WriteEnds
      BY <1>1, <2>2 DEF Reading, Writing, JobOK
    <3>2. /\ IF job[c].in # NULL THEN stdin'[c] = job[c].in ELSE stdin'[c] \in {Terminal, File}
          /\ IF job[c].out # NULL THEN stdout'[c] = job[c].out ELSE stdout'[c] \in {Terminal, File}
          /\ held'[c] = held[c] \ {job[c].in, job[c].out}
      BY <2>2 DEF ExecStep
    <3>3. Reading(c)' = job[c].in
      BY <2>1, <3>1, <3>2, EndsApart DEF Reading
    <3>4. Writing(c)' = job[c].out
      BY <2>1, <3>1, <3>2, EndsApart DEF Writing
    <3>5. Stage(c) /\ c \in Alive
      BY <1>1 DEF Stage, Alive
    <3> QED BY <1>1, <1>4, <3>1, <3>2, <3>3, <3>4, <3>5 DEF EndsOK, Quiet, Settled
  <2>3. CASE job[c].by # "runPipe"
    <3>1. Reading(c) = NULL /\ Writing(c) = NULL /\ Stage(c) /\ c \in Alive
      BY <1>1, <2>3 DEF Reading, Writing, Stage, Alive
    <3>2. stdin'[c] \in {Terminal, File} /\ stdout'[c] \in {Terminal, File} /\ held' = held
      BY <2>3 DEF ExecStep
    <3>3. Reading(c)' = NULL /\ Writing(c)' = NULL
      BY <2>1, <3>2, EndsApart DEF Reading, Writing
    <3> QED BY <1>1, <1>4, <3>1, <3>2, <3>3 DEF EndsOK, Quiet, Settled
  <2> QED BY <2>2, <2>3
<1> QED BY <1>3, <1>4

LEMMA LoopEnds ==
  ASSUME PipesInv, NEW c \in Procs, LoopStep(c), NEW q \in Procs
  PROVE  Quiet(q) /\ EndsOK(q)'
<1>1. /\ EndsOK(q) /\ job = [r \in Procs |-> job[r]] /\ mode[c] = "child" /\ sh[c].pc = "prompt"
      /\ mode = [r \in Procs |-> mode[r]] /\ stdin = [r \in Procs |-> stdin[r]]
      /\ stdout = [r \in Procs |-> stdout[r]]
  BY DEF PipesInv, TypeInv, KernelTypes, ProcessOK, LoopStep
<1>2. /\ mode' = [mode EXCEPT ![c] = "shell"] /\ job[c].by # "runPipe"
      /\ stdin' = [stdin EXCEPT ![c] = stdin'[c]] /\ stdout' = [stdout EXCEPT ![c] = stdout'[c]]
      /\ held' = held /\ job' = [job EXCEPT ![c] = NoJob] /\ sh' = sh
  BY DEF LoopStep
<1>3. CASE q # c
  <2>1. job'[q] = job[q] /\ stdin'[q] = stdin[q] /\ stdout'[q] = stdout[q] /\ mode'[q] = mode[q]
    BY <1>1, <1>2, <1>3
  <2> QED BY <1>1, <1>2, <2>1, KeptEnds
<1>4. CASE q = c
  <2>1. Reading(c) = NULL /\ Writing(c) = NULL /\ c \in Alive
    BY <1>1, <1>2 DEF Reading, Writing, Alive
  <2>2. mode'[c] = "shell" /\ sh'[c].pc = "prompt"
    BY <1>1, <1>2
  <2>3. Reading(c)' = NULL /\ Writing(c)' = NULL /\ ~Stage(c)'
    BY <2>2 DEF Reading, Writing, Stage
  <2> QED BY <1>1, <1>2, <1>4, <2>1, <2>3 DEF EndsOK, Quiet, Settled
<1> QED BY <1>3, <1>4

\* Whom an exit concerns: those that end, and zombies nobody will wait for.
LEMMA ExitEffect ==
  ASSUME NEW S, NEW st, Exit(S, st), NEW q \in Procs
  PROVE  /\ q \in S => /\ mode'[q] = IF parent[q] \in S \cup {Adopter} THEN "free" ELSE "zombie"
                       /\ held'[q] = {}
         /\ q \notin S =>
              /\ mode'[q] = IF mode[q] = "zombie" /\ parent[q] \in S \cup {Adopter} THEN "free"
                            ELSE mode[q]
              /\ stdin'[q] = stdin[q] /\ stdout'[q] = stdout[q] /\ held'[q] = held[q]
         /\ parent'[q] = IF parent[q] \in S THEN Adopter ELSE parent[q]
BY DEF Exit

LEMMA EndEnds ==
  ASSUME PipesInv, NEW S \in SUBSET Procs, NEW st, EndStep(S, st), NEW q \in Procs
  PROVE  Quiet(q) /\ EndsOK(q)'
<1>1. EndsOK(q) /\ Exit(S, st)
  BY DEF PipesInv, EndStep
<1>2. CASE q \in S \/ mode'[q] # mode[q]
  BY <1>1, <1>2, ExitEffect, GoneEnds
<1>3. CASE q \notin S /\ mode'[q] = mode[q]
  <2>1. sh'[q] = sh[q] /\ job'[q] = job[q]
    BY <1>3 DEF EndStep
  <2> QED BY <1>1, <1>3, <2>1, ExitEffect, KeptEnds
<1> QED BY <1>2, <1>3

LEMMA DataEnds ==
  ASSUME PipesInv, DataStep, NEW q \in Procs
  PROVE  Quiet(q) /\ EndsOK(q)'
BY KeptEnds DEF PipesInv, DataStep, shellVars

\* A new pipe is nobody's.
LEMMA FreshPipe ==
  ASSUME PipesInv, NEW k \in Pipes, k \in FreePipes, NEW q \in Procs
  PROVE  Reading(q) # ReadEnd(k) /\ Writing(q) # WriteEnd(k)
<1>1. Readers(k) = {} /\ WritersOf(k) = {}
  BY DEF FreePipes
<1>2. EndsOK(q) /\ ReadEnd(k) \in Ends /\ WriteEnd(k) \in Ends
      /\ ReadEnd(k) # NULL /\ WriteEnd(k) # NULL
  BY EndsApart DEF PipesInv
<1>3. ASSUME Reading(q) = ReadEnd(k) PROVE FALSE
  <2>1. q \in Alive
    BY <1>2, <1>3, ViewTypes DEF PipesInv
  <2>2. ReadEnd(k) \in Open(q)
    BY <1>2, <1>3 DEF EndsOK, Open
  <2> QED BY <1>1, <2>1, <2>2 DEF Readers
<1>4. ASSUME Writing(q) = WriteEnd(k) PROVE FALSE
  <2>1. q \in Alive
    BY <1>2, <1>4, ViewTypes DEF PipesInv
  <2>2. WriteEnd(k) \in Open(q)
    BY <1>2, <1>4 DEF EndsOK, Open
  <2> QED BY <1>1, <2>1, <2>2 DEF WritersOf
<1> QED BY <1>3, <1>4

\* A fork leaves the other processes as they are.
LEMMA ForkOthers ==
  ASSUME PipesInv, NEW p \in Procs, NEW c \in Procs, NEW opened, NEW closed,
         Fork(p, c, opened, closed), NEW q \in Procs, q # p, q # c,
         sh'[q] = sh[q], job'[q] = job[q]
  PROVE  /\ Reading(q)' = Reading(q) /\ Writing(q)' = Writing(q) /\ Stage(q)' = Stage(q)
         /\ Quiet(q) /\ EndsOK(q)'
<1>1. /\ mode'[q] = mode[q] /\ stdin'[q] = stdin[q] /\ stdout'[q] = stdout[q]
      /\ held'[q] = held[q] /\ EndsOK(q)
  BY DEF Fork, PipesInv, TypeInv, KernelTypes
<1> QED BY <1>1, KeptEnds, SameView

\* What a fork does to the shell and to its child, in a list.
LEMMA ForkedTwo ==
  ASSUME PipesInv, NEW p \in Procs, NEW c \in Procs, NEW opened, NEW closed,
         mode[p] = "shell", mode[c] = "free", Fork(p, c, opened, closed)
  PROVE  /\ p # c /\ mode'[p] = "shell" /\ mode'[c] = "child" /\ p \in Alive /\ p \in Alive'
         /\ stdin'[c] = stdin[p] /\ stdin'[p] = stdin[p]
         /\ held'[c] = held[p] \cup opened /\ held'[p] = (held[p] \cup opened) \ closed
         /\ parent'[c] = p
         /\ Writing(p) = NULL /\ Reading(c) = NULL /\ Writing(c) = NULL
         /\ Writing(p)' = NULL /\ held[p] \cap WriteEnds = {}
<1>1. /\ mode \in [Procs -> {"free", "shell", "child", "program", "zombie"}]
      /\ stdin = [r \in Procs |-> stdin[r]] /\ held \in [Procs -> SUBSET Ends]
      /\ parent = [r \in Procs |-> parent[r]]
      /\ EndsOK(p)
  <2>1. KernelTypes /\ EndsOK(p)
    BY DEF PipesInv, TypeInv
  <2> QED BY <2>1 DEF KernelTypes
<1>2. /\ mode' = [mode EXCEPT ![c] = "child"] /\ parent' = [parent EXCEPT ![c] = p]
      /\ stdin' = [stdin EXCEPT ![c] = stdin[p]]
      /\ held' = [held EXCEPT ![c] = held[p] \cup opened,
                              ![p] = (held[p] \cup opened) \ closed]
  BY DEF Fork
<1>3. /\ p # c /\ mode'[p] = "shell" /\ mode'[c] = "child" /\ p \in Alive /\ p \in Alive'
  BY <1>1, <1>2 DEF Alive
<1>4. /\ stdin'[c] = stdin[p] /\ stdin'[p] = stdin[p] /\ parent'[c] = p
      /\ held'[c] = held[p] \cup opened /\ held'[p] = (held[p] \cup opened) \ closed
  BY <1>1, <1>2, <1>3
<1>5. Writing(p) = NULL /\ Reading(c) = NULL /\ Writing(c) = NULL /\ Writing(p)' = NULL
  BY <1>3 DEF Reading, Writing
<1>6. held[p] \cap WriteEnds = {}
  BY <1>1, <1>3, <1>5, EndsApart DEF EndsOK
<1> QED BY <1>3, <1>4, <1>5, <1>6

LEMMA StageEnds ==
  ASSUME PipesInv, NEW p \in Procs, NEW c \in Procs, NEW k \in Pipes, StageStep(p, c, k)
  PROVE  /\ Reading(p) = sh[p].prev /\ Reading(p)' = ReadEnd(k) /\ Writing(p)' = NULL
         /\ Reading(c)' = sh[p].prev /\ Writing(c)' = WriteEnd(k)
         /\ EndsOK(p)' /\ EndsOK(c)'
         /\ \A q \in Procs \ {p, c} :
              /\ Reading(q)' = Reading(q) /\ Writing(q)' = Writing(q) /\ Stage(q)' = Stage(q)
              /\ Quiet(q) /\ EndsOK(q)'
<1>1. /\ sh = [q \in Procs |-> sh[q]] /\ job = [q \in Procs |-> job[q]] /\ ShellState(sh[p])
      /\ EndsOK(p)
  BY DEF PipesInv, TypeInv, ProcessOK
<1>2. /\ mode[p] = "shell" /\ sh[p].pc = "list" /\ mode[c] = "free"
      /\ Fork(p, c, {ReadEnd(k), WriteEnd(k)}, {WriteEnd(k)})
      /\ job' = [job EXCEPT ![c] = [ by |-> "runPipe", command |-> Current(p),
                                     in |-> sh[p].prev, out |-> WriteEnd(k) ]]
      /\ sh' = [sh EXCEPT ![p].at = @ + 1, ![p].prev = ReadEnd(k), ![p].kids = Append(@, c)]
  BY DEF StageStep, NextStage
<1>3. /\ p # c /\ mode'[p] = "shell" /\ mode'[c] = "child" /\ p \in Alive /\ p \in Alive'
      /\ stdin'[c] = stdin[p] /\ stdin'[p] = stdin[p]
      /\ held'[c] = held[p] \cup {ReadEnd(k), WriteEnd(k)}
      /\ held'[p] = (held[p] \cup {ReadEnd(k), WriteEnd(k)}) \ {WriteEnd(k)}
      /\ Writing(p)' = NULL /\ held[p] \cap WriteEnds = {}
  BY <1>2, ForkedTwo
<1>4. sh'[p].pc = "list" /\ sh'[p].prev = ReadEnd(k)
  BY <1>1, <1>2 DEF ShellState
<1>5. /\ job'[c].by = "runPipe" /\ job'[c].in = sh[p].prev /\ job'[c].out = WriteEnd(k)
  BY <1>1, <1>2
<1>6. Reading(p) = sh[p].prev /\ Reading(p)' = ReadEnd(k)
  BY <1>2, <1>3, <1>4 DEF Reading
<1>7. Reading(c)' = sh[p].prev /\ Writing(c)' = WriteEnd(k)
  BY <1>3, <1>5 DEF Reading, Writing
<1>8. /\ ReadEnd(k) \in ReadEnds /\ WriteEnd(k) \in WriteEnds /\ ReadEnd(k) # WriteEnd(k)
      /\ ReadEnd(k) \notin WriteEnds
  BY EndsApart
<1>9. EndsOK(p)'
  <2>1. held'[p] \cap WriteEnds = {}
    BY <1>3, <1>8
  <2> QED BY <1>3, <1>6, <1>8, <2>1 DEF EndsOK
<1>10. EndsOK(c)'
  <2>1. held'[c] \cap WriteEnds = {WriteEnd(k)}
    BY <1>3, <1>8
  <2>2. sh[p].prev \in {NULL} \cup held[p] \cup {stdin[p]}
    BY <1>1, <1>6 DEF EndsOK
  <2> QED BY <1>3, <1>7, <2>1, <2>2 DEF EndsOK
<1>11. ASSUME NEW q \in Procs \ {p, c} PROVE sh'[q] = sh[q] /\ job'[q] = job[q]
  BY <1>1, <1>2
<1> QED BY <1>2, <1>3, <1>6, <1>7, <1>9, <1>10, <1>11, ForkOthers

LEMMA LastEnds ==
  ASSUME PipesInv, NEW p \in Procs, NEW c \in Procs, LastStep(p, c)
  PROVE  /\ Reading(p) = sh[p].prev /\ Reading(p)' = NULL /\ Writing(p)' = NULL
         /\ Reading(c)' = sh[p].prev /\ Writing(c)' = NULL
         /\ EndsOK(p)' /\ EndsOK(c)'
         /\ \A q \in Procs \ {p, c} :
              /\ Reading(q)' = Reading(q) /\ Writing(q)' = Writing(q) /\ Stage(q)' = Stage(q)
              /\ Quiet(q) /\ EndsOK(q)'
<1>1. /\ sh = [q \in Procs |-> sh[q]] /\ job = [q \in Procs |-> job[q]] /\ ShellState(sh[p])
      /\ EndsOK(p)
  BY DEF PipesInv, TypeInv, ProcessOK
<1>2. /\ mode[p] = "shell" /\ sh[p].pc = "list" /\ mode[c] = "free"
      /\ Fork(p, c, {}, {sh[p].prev})
      /\ job' = [job EXCEPT ![c] = [ by |-> "runPipe", command |-> Current(p),
                                     in |-> sh[p].prev, out |-> NULL ]]
      /\ sh' = [sh EXCEPT ![p].pc = "wait", ![p].kids = Append(@, c)]
  BY DEF LastStep
<1>3. /\ p # c /\ mode'[p] = "shell" /\ mode'[c] = "child" /\ p \in Alive /\ p \in Alive'
      /\ stdin'[c] = stdin[p] /\ stdin'[p] = stdin[p]
      /\ held'[c] = held[p] /\ held'[p] \subseteq held[p]
      /\ Writing(p)' = NULL /\ held[p] \cap WriteEnds = {}
  <2> DEFINE none == {}
             gone == {sh[p].prev}
  <2>1. Fork(p, c, none, gone) /\ none \subseteq held[p]
    BY <1>2
  <2> HIDE DEF none, gone
  <2>2. /\ p # c /\ mode'[p] = "shell" /\ mode'[c] = "child" /\ p \in Alive /\ p \in Alive'
        /\ stdin'[c] = stdin[p] /\ stdin'[p] = stdin[p]
        /\ held'[c] = held[p] \cup none /\ held'[p] = (held[p] \cup none) \ gone
        /\ Writing(p)' = NULL /\ held[p] \cap WriteEnds = {}
    BY <1>2, <2>1, ForkedTwo
  <2> QED BY <2>1, <2>2
<1>4. sh'[p].pc = "wait"
  BY <1>1, <1>2 DEF ShellState
<1>5. job'[c].by = "runPipe" /\ job'[c].in = sh[p].prev /\ job'[c].out = NULL
  BY <1>1, <1>2
<1>6. Reading(p) = sh[p].prev /\ Reading(p)' = NULL
  BY <1>2, <1>3, <1>4 DEF Reading
<1>7. Reading(c)' = sh[p].prev /\ Writing(c)' = NULL
  BY <1>3, <1>5 DEF Reading, Writing
<1>8. EndsOK(p)'
  <2>1. held'[p] \cap WriteEnds = {}
    BY <1>3
  <2> QED BY <1>3, <1>6, <2>1 DEF EndsOK
<1>9. EndsOK(c)'
  <2>1. held'[c] \cap WriteEnds = {}
    BY <1>3
  <2>2. sh[p].prev \in {NULL} \cup held[p] \cup {stdin[p]}
    BY <1>1, <1>6 DEF EndsOK
  <2> QED BY <1>3, <1>7, <2>1, <2>2 DEF EndsOK
<1>10. ASSUME NEW q \in Procs \ {p, c} PROVE sh'[q] = sh[q] /\ job'[q] = job[q]
  BY <1>1, <1>2
<1> QED BY <1>2, <1>3, <1>6, <1>7, <1>8, <1>9, <1>10, ForkOthers

LEMMA LaunchEnds ==
  ASSUME PipesInv, NEW p \in Procs, NEW c \in Procs, LaunchStep(p, c)
  PROVE  /\ Reading(p)' = NULL /\ Writing(p)' = NULL
         /\ Reading(c)' = NULL /\ Writing(c)' = NULL
         /\ EndsOK(p)' /\ EndsOK(c)'
         /\ \A q \in Procs \ {p, c} :
              /\ Reading(q)' = Reading(q) /\ Writing(q)' = Writing(q) /\ Stage(q)' = Stage(q)
              /\ Quiet(q) /\ EndsOK(q)'
<1> DEFINE by == job'[c].by
<1>1. /\ sh = [q \in Procs |-> sh[q]] /\ job = [q \in Procs |-> job[q]] /\ ShellState(sh[p])
      /\ EndsOK(p)
  BY DEF PipesInv, TypeInv, ProcessOK
<1>2. /\ mode[p] = "shell" /\ sh[p].pc = "list" /\ mode[c] = "free"
      /\ Fork(p, c, {}, {}) /\ job' = [job EXCEPT ![c] = job'[c]]
      /\ by \in {"runExternal", "runRedirectExternal"}
      /\ sh' = [sh EXCEPT ![p].pc = by, ![p].kids = <<c>>, ![c] = AtPrompt(sh[p].qbuf)]
  BY DEF LaunchStep
<1> HIDE DEF by
<1>3. /\ p # c /\ mode'[p] = "shell" /\ mode'[c] = "child" /\ p \in Alive /\ p \in Alive'
      /\ held'[c] = held[p] /\ held'[p] \subseteq held[p]
      /\ Writing(p)' = NULL /\ held[p] \cap WriteEnds = {}
  <2> DEFINE none == {}
  <2>1. Fork(p, c, none, none) /\ none \subseteq held[p]
    BY <1>2
  <2> HIDE DEF none
  <2>2. /\ p # c /\ mode'[p] = "shell" /\ mode'[c] = "child" /\ p \in Alive /\ p \in Alive'
        /\ stdin'[c] = stdin[p] /\ stdin'[p] = stdin[p]
        /\ held'[c] = held[p] \cup none /\ held'[p] = (held[p] \cup none) \ none
        /\ Writing(p)' = NULL /\ held[p] \cap WriteEnds = {}
    BY <1>2, <2>1, ForkedTwo
  <2> QED BY <2>1, <2>2
<1>4. sh'[p].pc = by
  BY <1>1, <1>2, <1>3 DEF ShellState
<1>5. Reading(p)' = NULL
  BY <1>2, <1>3, <1>4 DEF Reading
<1>6. Reading(c)' = NULL /\ Writing(c)' = NULL
  BY <1>2, <1>3 DEF Reading, Writing, by
<1>7. EndsOK(p)' /\ EndsOK(c)'
  <2>1. held'[p] \cap WriteEnds = {} /\ held'[c] \cap WriteEnds = {}
    BY <1>3
  <2> QED BY <1>3, <1>5, <1>6, <2>1 DEF EndsOK
<1>8. ASSUME NEW q \in Procs \ {p, c} PROVE sh'[q] = sh[q] /\ job'[q] = job[q]
  BY <1>1, <1>2
<1> QED BY <1>2, <1>3, <1>5, <1>6, <1>7, <1>8, ForkOthers

LEMMA QuietEnds ==
  ASSUME PipesInv, \A q \in Procs : Quiet(q) /\ EndsOK(q)'
  PROVE  \A q, r \in Procs : EndsOK(q)' /\ Apart(q, r)'
BY QuietApart DEF PipesInv

LEMMA StageApart ==
  ASSUME PipesInv, NEW p \in Procs, NEW c \in Procs, NEW k \in Pipes, StageStep(p, c, k)
  PROVE  \A q, r \in Procs : EndsOK(q)' /\ Apart(q, r)'
<1>1. /\ Reading(p) = sh[p].prev /\ Reading(p)' = ReadEnd(k) /\ Writing(p)' = NULL
      /\ Reading(c)' = sh[p].prev /\ Writing(c)' = WriteEnd(k)
      /\ EndsOK(p)' /\ EndsOK(c)'
      /\ \A q \in Procs \ {p, c} :
           Reading(q)' = Reading(q) /\ Writing(q)' = Writing(q) /\ EndsOK(q)'
  BY StageEnds
<1>2. ASSUME NEW q \in Procs, NEW r \in Procs PROVE Apart(q, r)'
  <2>1. /\ Apart(q, r) /\ Apart(q, p) /\ Apart(p, r) /\ k \in FreePipes
    BY DEF PipesInv, StageStep
  <2>2. /\ Reading(q) # ReadEnd(k) /\ Writing(q) # WriteEnd(k)
        /\ Reading(r) # ReadEnd(k) /\ Writing(r) # WriteEnd(k)
        /\ Reading(p) # ReadEnd(k)
    BY <2>1, FreshPipe
  <2>3. Reading(q)' = Reading(r)' /\ Reading(q)' # NULL => q = r
    BY <1>1, <2>1, <2>2 DEF Apart
  <2>4. Writing(q)' = Writing(r)' /\ Writing(q)' # NULL => q = r
    BY <1>1, <2>1, <2>2 DEF Apart
  <2> QED BY <2>3, <2>4 DEF Apart
<1> QED BY <1>1, <1>2

LEMMA LastApart ==
  ASSUME PipesInv, NEW p \in Procs, NEW c \in Procs, LastStep(p, c) \/ LaunchStep(p, c)
  PROVE  \A q, r \in Procs : EndsOK(q)' /\ Apart(q, r)'
<1>1. /\ Reading(c)' \in {NULL, Reading(p)} /\ Reading(p)' = NULL /\ Writing(p)' = NULL
      /\ Writing(c)' = NULL
      /\ EndsOK(p)' /\ EndsOK(c)'
      /\ \A q \in Procs \ {p, c} :
           Reading(q)' = Reading(q) /\ Writing(q)' = Writing(q) /\ EndsOK(q)'
  <2>1. CASE LastStep(p, c)
    BY <2>1, LastEnds
  <2>2. CASE LaunchStep(p, c)
    BY <2>2, LaunchEnds
  <2> QED BY <2>1, <2>2
<1>2. ASSUME NEW q \in Procs, NEW r \in Procs PROVE Apart(q, r)'
  <2>1. Apart(q, r) /\ Apart(q, p) /\ Apart(p, r)
    BY DEF PipesInv
  <2>2. Reading(q)' = Reading(r)' /\ Reading(q)' # NULL => q = r
    BY <1>1, <2>1 DEF Apart
  <2>3. Writing(q)' = Writing(r)' /\ Writing(q)' # NULL => q = r
    BY <1>1, <2>1 DEF Apart
  <2> QED BY <2>2, <2>3 DEF Apart
<1> QED BY <1>1, <1>2

\* The steps that only take a stage away, or nothing.
QuietStep ==
  \/ \E p \in Procs : TalkStep(p) \/ ReapStep(p) \/ ExecStep(p) \/ LoopStep(p)
  \/ \E S \in SUBSET Procs, st \in Codes \cup {"killed"} : EndStep(S, st)
  \/ DataStep
ForkStep(p, c) == (\E k \in Pipes : StageStep(p, c, k)) \/ LastStep(p, c) \/ LaunchStep(p, c)

LEMMA StepIs == Step <=> QuietStep \/ \E p, c \in Procs : ForkStep(p, c)
BY DEF Step, QuietStep, ForkStep

LEMMA QuietSteps ==
  ASSUME PipesInv, QuietStep, NEW q \in Procs
  PROVE  Quiet(q) /\ EndsOK(q)'
BY TalkEnds, ReapEnds, ExecEnds, LoopEnds, EndEnds, DataEnds DEF QuietStep

LEMMA EndsStep ==
  ASSUME PipesInv, Step
  PROVE  \A q, r \in Procs : EndsOK(q)' /\ Apart(q, r)'
<1>1. CASE QuietStep
  BY <1>1, QuietSteps, QuietEnds
<1>2. ASSUME NEW p \in Procs, NEW c \in Procs, ForkStep(p, c)
      PROVE  \A q, r \in Procs : EndsOK(q)' /\ Apart(q, r)'
  BY <1>2, StageApart, LastApart DEF ForkStep
<1> QED BY <1>1, <1>2, StepIs

-----------------------------------------------------------------------------
\* The children and the links between them, step by step.

LEMMA NoKids ==
  ASSUME NEW q \in Procs, sh'[q].kids = <<>>
  PROVE  KidsOK(q)' /\ LinkOK(q)'
BY DEF KidsOK, LinkOK

\* A shell's children that go on are what they were.
LEMMA KidsKept ==
  ASSUME NEW q \in Procs, KidsOK(q), LinkOK(q), sh'[q] = sh[q],
         NEW kids \in Seq(Procs), kids = sh[q].kids,
         \A i \in DOMAIN kids :
           mode'[kids[i]] # "free" /\ parent'[kids[i]] = parent[kids[i]] /\ Settled(kids[i])
  PROVE  KidsOK(q)' /\ LinkOK(q)'
<1>1. /\ kids \in Seq(Procs) /\ Len(kids) \in Nat /\ DOMAIN kids = 1 .. Len(kids)
      /\ sh'[q].kids = kids
  OBVIOUS
<1>2. KidsOK(q)'
  BY DEF KidsOK
<1>3. ASSUME NEW i \in 1 .. Len(kids) - 1
      PROVE  \E k \in Pipes : Linked(k, kids[i], kids[i + 1])'
  <2>1. PICK k \in Pipes : Linked(k, kids[i], kids[i + 1])
    BY DEF LinkOK
  <2>2. i \in DOMAIN kids /\ i + 1 \in DOMAIN kids
    BY <1>1
  <2> DEFINE w == kids[i]
             r == kids[i + 1]
  <2>3. /\ Stage(w)' => Stage(w) /\ Writing(w)' = Writing(w)
        /\ Stage(r)' => Stage(r) /\ Reading(r)' = Reading(r)
    BY <2>2 DEF Settled
  <2> HIDE DEF w, r
  <2>4. Linked(k, w, r)'
    <3>1. Linked(k, w, r)
      BY <2>1 DEF w, r
    <3> QED BY <2>3, <3>1 DEF Linked
  <2> QED BY <2>4 DEF w, r
<1>4. ASSUME sh[q].pc = "list", kids # <<>>
      PROVE  \E k \in Pipes : /\ sh[q].prev = ReadEnd(k)
                              /\ Stage(kids[Len(kids)])' => Writing(kids[Len(kids)])' = WriteEnd(k)
  <2>1. PICK k \in Pipes : /\ sh[q].prev = ReadEnd(k)
                           /\ Stage(kids[Len(kids)]) => Writing(kids[Len(kids)]) = WriteEnd(k)
    BY <1>4 DEF LinkOK
  <2>2. Len(kids) \in DOMAIN kids
    BY <1>1, <1>4
  <2> DEFINE w == kids[Len(kids)]
  <2>3. Stage(w)' => Stage(w) /\ Writing(w)' = Writing(w)
    BY <2>2 DEF Settled
  <2> HIDE DEF w
  <2>4. Stage(w)' => Writing(w)' = WriteEnd(k)
    BY <2>1, <2>3 DEF w
  <2> QED BY <2>1, <2>4 DEF w
<1>5. LinkOK(q)'
  <2>1. sh'[q].pc = sh[q].pc /\ sh'[q].prev = sh[q].prev
    OBVIOUS
  <2>2. \A i \in 1 .. Len(sh'[q].kids) - 1 :
          \E k \in Pipes : Linked(k, sh[q].kids[i], sh[q].kids[i + 1])'
    BY <1>1, <1>3
  <2> QED BY <1>1, <1>4, <2>1, <2>2 DEF LinkOK
<1> QED BY <1>2, <1>5

\* In a step that settles everybody and frees no child of q.
LEMMA QuietKids ==
  ASSUME PipesInv, NEW q \in Procs, sh'[q] = sh[q],
         \A c \in Procs : mode[c] # "free" => Settled(c),
         \A c \in Procs : mode[c] # "free" /\ parent[c] = q => mode'[c] # "free" /\ parent'[c] = q
  PROVE  KidsOK(q)' /\ LinkOK(q)'
<1>1. PICK kids \in Seq(Procs) : kids = sh[q].kids
  BY DEF PipesInv, TypeInv, ProcessOK, ShellState
<1>2. KidsOK(q) /\ LinkOK(q)
  BY DEF PipesInv
<1>3. ASSUME NEW i \in DOMAIN kids
      PROVE  mode'[kids[i]] # "free" /\ parent'[kids[i]] = parent[kids[i]] /\ Settled(kids[i])
  <2>1. kids[i] \in Procs /\ mode[kids[i]] # "free" /\ parent[kids[i]] = q
    BY <1>1, <1>2 DEF KidsOK
  <2> QED BY <2>1
<1> QED BY <1>1, <1>2, <1>3, KidsKept

LEMMA TalkKids ==
  ASSUME PipesInv, NEW p \in Procs, TalkStep(p), NEW q \in Procs
  PROVE  KidsOK(q)' /\ LinkOK(q)'
<1>1. /\ sh = [r \in Procs |-> sh[r]] /\ ShellState(sh[p]) /\ PlaceOK(sh[p])
      /\ UNCHANGED <<mode, parent>> /\ sh' = [sh EXCEPT ![p] = sh'[p]]
  BY DEF PipesInv, TypeInv, ProcessOK, TalkStep, processVars
<1>2. \A c \in Procs : Settled(c)
  BY TalkEnds DEF Quiet
<1>3. CASE sh'[q] = sh[q]
  BY <1>1, <1>2, <1>3, QuietKids
<1>4. CASE sh'[q] # sh[q]
  <2>1. q = p
    BY <1>1, <1>4
  <2>2. sh'[p].kids = <<>>
    <3>1. CASE sh[p].pc = "prompt" /\ sh'[p] = [sh[p] EXCEPT !.pc = "list", !.list = sh'[p].list]
      <4>1. sh'[p].kids = sh[p].kids
        BY <1>1, <3>1 DEF ShellState
      <4> QED BY <1>1, <3>1, <4>1 DEF PlaceOK
    <3>2. ASSUME NEW text, sh'[p] = AtPrompt(text) PROVE sh'[p].kids = <<>>
      BY <3>2 DEF AtPrompt
    <3> QED BY <1>4, <2>1, <3>1, <3>2 DEF TalkStep
  <2> QED BY <2>1, <2>2, NoKids
<1> QED BY <1>3, <1>4

LEMMA ExecKids ==
  ASSUME PipesInv, NEW p \in Procs, ExecStep(p) \/ LoopStep(p), NEW q \in Procs
  PROVE  KidsOK(q)' /\ LinkOK(q)'
<1>1. /\ sh = [r \in Procs |-> sh[r]] /\ mode = [r \in Procs |-> mode[r]]
      /\ sh[p].kids = <<>> /\ PlaceOK(sh[p])
  BY DEF PipesInv, TypeInv, KernelTypes, ProcessOK, PlaceOK, ExecStep, LoopStep
<1>2. /\ mode' = [mode EXCEPT ![p] = "program"] \/ mode' = [mode EXCEPT ![p] = "shell"]
      /\ parent' = parent /\ sh' = [sh EXCEPT ![p] = sh'[p]]
      /\ sh'[p] \in {sh[p], AtPrompt(Unwritten)}
  BY <1>1 DEF ExecStep, LoopStep
<1>3. \A c \in Procs : Settled(c) /\ (mode[c] # "free" => mode'[c] # "free")
  <2>1. \A c \in Procs : Settled(c)
    BY ExecEnds, LoopEnds DEF Quiet
  <2> QED BY <1>1, <1>2, <2>1
<1>4. CASE sh'[q] = sh[q]
  BY <1>2, <1>3, <1>4, QuietKids
<1>5. CASE sh'[q] # sh[q]
  <2>1. q = p /\ sh'[p] = AtPrompt(Unwritten)
    BY <1>1, <1>2, <1>5
  <2> QED BY <2>1, NoKids DEF AtPrompt
<1> QED BY <1>4, <1>5

LEMMA EndKids ==
  ASSUME PipesInv, NEW S \in SUBSET Procs, NEW st, EndStep(S, st), NEW q \in Procs
  PROVE  KidsOK(q)' /\ LinkOK(q)'
<1>1. Exit(S, st) /\ Adopter \notin Procs /\ ProcessOK(q)
  BY ProcessesOK DEF PipesInv, TypeInv, EndStep
<1>2. \A c \in Procs : Settled(c)
  BY EndEnds DEF Quiet
<1>3. CASE q \notin S
  <2>1. sh'[q] = sh[q]
    BY <1>3 DEF EndStep
  <2>2. ASSUME NEW c \in Procs, mode[c] # "free", parent[c] = q
        PROVE  mode'[c] # "free" /\ parent'[c] = q
    BY <1>1, <1>3, <2>2, ExitEffect
  <2> QED BY <1>2, <2>1, <2>2, QuietKids
<1>4. CASE q \in S
  <2>1. CASE sh'[q] = AtPrompt(Unwritten)
    BY <2>1, NoKids DEF AtPrompt
  <2>2. CASE sh'[q] # AtPrompt(Unwritten)
    <3>1. sh'[q] = sh[q] /\ mode[q] # "shell"
      BY <1>4, <2>2 DEF EndStep
    <3>2. sh'[q].kids = <<>>
      BY <1>1, <3>1 DEF ProcessOK, PlaceOK
    <3> QED BY <3>2, NoKids
  <2> QED BY <2>1, <2>2
<1> QED BY <1>3, <1>4

LEMMA DataKids ==
  ASSUME PipesInv, DataStep, NEW q \in Procs
  PROVE  KidsOK(q)' /\ LinkOK(q)'
<1>1. UNCHANGED <<mode, parent, sh>> /\ \A c \in Procs : Settled(c)
  BY DataEnds DEF Quiet, DataStep, shellVars
<1> QED BY <1>1, QuietKids

\* A shell has waited for its first child.
LEMMA ReapKids ==
  ASSUME PipesInv, NEW p \in Procs, ReapStep(p), NEW q \in Procs
  PROVE  KidsOK(q)' /\ LinkOK(q)'
<1>1. /\ sh = [r \in Procs |-> sh[r]] /\ mode = [r \in Procs |-> mode[r]]
      /\ parent = [r \in Procs |-> parent[r]] /\ ShellState(sh[p]) /\ PlaceOK(sh[p])
      /\ sh[p].pc \in Waits /\ sh' = [sh EXCEPT ![p] = sh'[p]]
  BY DEF PipesInv, TypeInv, KernelTypes, ProcessOK, ReapStep
<1>2. PICK kids \in Seq(Procs) : kids = sh[p].kids /\ kids # <<>>
  BY <1>1 DEF ShellState, PlaceOK
<1>3. PICK c \in Procs : c = kids[1] /\ c = Head(kids)
  BY <1>2
<1>4. /\ \A r \in Procs : mode'[r] = IF r = c THEN "free" ELSE mode[r]
      /\ \A r \in Procs : parent'[r] = IF r = c THEN Adopter ELSE parent[r]
  BY <1>1, <1>2, <1>3 DEF ReapStep, Reap
<1>5. \A r \in Procs : Settled(r)
  BY ReapEnds DEF Quiet
<1>6. KidsOK(p) /\ LinkOK(p) /\ parent[c] = p
  BY <1>2, <1>3 DEF PipesInv, KidsOK
<1>7. CASE q # p
  <2>1. sh'[q] = sh[q]
    BY <1>1, <1>7
  <2> QED BY <1>4, <1>5, <1>6, <1>7, <2>1, QuietKids
<1>8. CASE q = p
  <2>1. CASE sh'[p].kids = <<>>
    BY <1>8, <2>1, NoKids
  <2>2. CASE sh'[p].kids # <<>>
    <3>1. PICK rest \in Seq(Procs) : rest = Tail(kids) /\ Len(rest) = Len(kids) - 1
                                     /\ \A i \in 1 .. Len(rest) : rest[i] = kids[i + 1]
      BY <1>2, HeadTailProperties, ZenonT(40)
    <3>2. sh'[p].kids = rest /\ sh'[p].pc # "list"
      <4>1. PICK text : \/ sh'[p] = AtPrompt(text)
                        \/ /\ sh[p].pc = "wait"
                           /\ sh'[p] = [sh[p] EXCEPT !.kids = Tail(sh[p].kids), !.qbuf = text]
        BY DEF ReapStep
      <4>2. sh'[p] # AtPrompt(text)
        BY <2>2 DEF AtPrompt
      <4> QED BY <1>1, <1>2, <3>1, <4>1, <4>2 DEF ShellState
    <3>3. Len(kids) \in Nat /\ Len(rest) \in Nat /\ DOMAIN rest = 1 .. Len(rest)
          /\ DOMAIN kids = 1 .. Len(kids)
      BY <1>2, <3>1
    <3>4. KidsOK(p)'
      <4>1. ASSUME NEW i \in DOMAIN rest
            PROVE  /\ mode'[rest[i]] # "free" /\ parent'[rest[i]] = p
                   /\ \A j \in DOMAIN rest : rest[i] = rest[j] => i = j
        <5>1. i + 1 \in DOMAIN kids /\ rest[i] = kids[i + 1] /\ rest[i] \in Procs
              /\ i + 1 # 1 /\ 1 \in DOMAIN kids
          BY <3>1, <3>3
        <5>2. rest[i] # c /\ mode[rest[i]] # "free" /\ parent[rest[i]] = p
          BY <1>2, <1>3, <1>6, <5>1 DEF KidsOK
        <5>3. ASSUME NEW j \in DOMAIN rest, rest[i] = rest[j] PROVE i = j
          <6>1. j + 1 \in DOMAIN kids /\ rest[j] = kids[j + 1]
            BY <3>1, <3>3
          <6>2. i + 1 = j + 1
            BY <1>2, <1>6, <5>1, <5>3, <6>1 DEF KidsOK
          <6> QED BY <3>3, <6>2
        <5> QED BY <1>4, <5>1, <5>2, <5>3
      <4> QED BY <3>2, <4>1 DEF KidsOK
    <3>5. LinkOK(p)'
      <4>1. ASSUME NEW i \in 1 .. Len(rest) - 1
            PROVE  \E k \in Pipes : Linked(k, rest[i], rest[i + 1])'
        <5>1. i + 1 \in 1 .. Len(kids) - 1 /\ i \in 1 .. Len(rest) /\ i + 1 \in 1 .. Len(rest)
          BY <3>1, <3>3
        <5>2. PICK w \in Procs, r \in Procs : w = rest[i] /\ r = rest[i + 1]
          BY <3>1, <3>3, <5>1
        <5>3. w = kids[i + 1] /\ r = kids[i + 1 + 1]
          BY <3>1, <5>1, <5>2
        <5>4. PICK k \in Pipes : Linked(k, w, r)
          BY <1>2, <1>6, <5>1, <5>3 DEF LinkOK
        <5>5. Linked(k, w, r)'
          BY <1>5, <5>4 DEF Linked, Settled
        <5> QED BY <5>2, <5>5
      <4> QED BY <3>2, <4>1 DEF LinkOK
    <3> QED BY <1>8, <3>4, <3>5
  <2> QED BY <2>1, <2>2
<1> QED BY <1>7, <1>8

\* A shell has started one more stage, c, which reads from what the shell kept.
LEMMA GrownKids ==
  ASSUME PipesInv, NEW p \in Procs, NEW c \in Procs, mode[c] = "free", sh[p].pc = "list",
         sh'[p].kids = Append(sh[p].kids, c),
         \A r \in Procs : mode[r] # "free" =>
           Settled(r) /\ mode'[r] # "free" /\ parent'[r] = parent[r],
         mode'[c] # "free", parent'[c] = p, Reading(c)' = sh[p].prev,
         sh'[p].pc = "list" =>
           \E k \in Pipes : sh'[p].prev = ReadEnd(k) /\ Writing(c)' = WriteEnd(k)
  PROVE  KidsOK(p)' /\ LinkOK(p)'
<1>1. PICK kids \in Seq(Procs) : kids = sh[p].kids
  BY DEF PipesInv, TypeInv, ProcessOK, ShellState
<1>2. PICK n \in Nat : n = Len(kids) /\ DOMAIN kids = 1 .. n
  OBVIOUS
<1>3. PICK more \in Seq(Procs) : /\ more = Append(kids, c) /\ Len(more) = n + 1
                                 /\ DOMAIN more = 1 .. n + 1
                                 /\ more[n + 1] = c /\ \A i \in 1 .. n : more[i] = kids[i]
  <2>1. /\ Append(kids, c) \in Seq(Procs) /\ Len(Append(kids, c)) = n + 1
        /\ Append(kids, c)[n + 1] = c /\ \A i \in 1 .. n : Append(kids, c)[i] = kids[i]
    BY <1>2, AppendProperties
  <2>2. DOMAIN Append(kids, c) = 1 .. n + 1
    BY <2>1
  <2> QED BY <2>1, <2>2
<1>4. sh'[p].kids = more /\ KidsOK(p) /\ LinkOK(p)
  BY <1>1, <1>3 DEF PipesInv
<1>5. ASSUME NEW i \in 1 .. n
      PROVE  /\ more[i] = kids[i] /\ kids[i] \in Procs /\ kids[i] # c /\ i # n + 1
             /\ Settled(kids[i]) /\ mode'[kids[i]] # "free" /\ parent'[kids[i]] = p
             /\ \A j \in 1 .. n : kids[i] = kids[j] => i = j
  <2>1. more[i] = kids[i] /\ kids[i] \in Procs /\ i # n + 1
    BY <1>2, <1>3
  <2>2. /\ mode[kids[i]] # "free" /\ parent[kids[i]] = p
        /\ \A j \in 1 .. n : kids[i] = kids[j] => i = j
    BY <1>1, <1>2, <1>4 DEF KidsOK
  <2> QED BY <2>1, <2>2
<1>6. KidsOK(p)'
  <2>1. ASSUME NEW i \in 1 .. n + 1
        PROVE  /\ mode'[more[i]] # "free" /\ parent'[more[i]] = p
               /\ \A j \in 1 .. n + 1 : more[i] = more[j] => i = j
    <3>1. CASE i = n + 1
      <4>1. \A j \in 1 .. n + 1 : j # n + 1 => j \in 1 .. n
        OBVIOUS
      <4> QED BY <1>3, <1>5, <3>1, <4>1
    <3>2. CASE i \in 1 .. n
      <4>1. \A j \in 1 .. n + 1 : j # n + 1 => j \in 1 .. n
        OBVIOUS
      <4> QED BY <1>3, <1>5, <3>2, <4>1
    <3> QED BY <3>1, <3>2
  <2> QED BY <1>3, <1>4, <2>1 DEF KidsOK
<1>7. ASSUME NEW i \in 1 .. n
      PROVE  \E k \in Pipes : Linked(k, more[i], more[i + 1])'
  <2>1. CASE i # n
    <3>1. i \in 1 .. n - 1 /\ i + 1 \in 1 .. n
      BY <2>1
    <3>2. PICK w \in Procs, r \in Procs : /\ w = kids[i] /\ r = kids[i + 1]
                                          /\ w = more[i] /\ r = more[i + 1]
      BY <1>5, <3>1
    <3>3. PICK k \in Pipes : Linked(k, w, r)
      BY <1>1, <1>2, <1>4, <3>1, <3>2 DEF LinkOK
    <3>4. Settled(w) /\ Settled(r)
      BY <1>5, <3>1, <3>2
    <3>5. Linked(k, w, r)'
      BY <3>3, <3>4 DEF Linked, Settled
    <3> QED BY <3>2, <3>5
  <2>2. CASE i = n
    <3>1. PICK w \in Procs : w = kids[n] /\ w = more[i] /\ Settled(w)
      BY <1>5, <2>2
    <3>2. more[i + 1] = c /\ kids # <<>>
      BY <1>2, <1>3, <2>2
    <3>3. PICK k \in Pipes : sh[p].prev = ReadEnd(k) /\ (Stage(w) => Writing(w) = WriteEnd(k))
      BY <1>1, <1>2, <1>4, <3>1, <3>2 DEF LinkOK
    <3>4. Linked(k, w, c)'
      BY <3>1, <3>3 DEF Linked, Settled
    <3> QED BY <3>1, <3>2, <3>4
  <2> QED BY <2>1, <2>2
<1>8. LinkOK(p)'
  <2>1. Len(more) - 1 = n /\ more[Len(more)] = c
    BY <1>3
  <2> QED BY <1>4, <1>7, <2>1 DEF LinkOK
<1> QED BY <1>6, <1>8

\* A fork settles everybody there is.
LEMMA ForkSettles ==
  ASSUME PipesInv, NEW p \in Procs, NEW c \in Procs, ForkStep(p, c)
  PROVE  /\ mode[p] = "shell" /\ mode[c] = "free" /\ p # c /\ sh[p].pc = "list"
         /\ mode'[c] = "child" /\ parent'[c] = p
         /\ \A r \in Procs : mode[r] # "free" =>
              Settled(r) /\ mode'[r] # "free" /\ parent'[r] = parent[r]
<1>1. PICK opened, closed : mode[p] = "shell" /\ mode[c] = "free" /\ sh[p].pc = "list"
                            /\ Fork(p, c, opened, closed)
  BY DEF ForkStep, StageStep, LastStep, LaunchStep
<1>2. /\ p # c /\ mode'[p] = "shell" /\ mode'[c] = "child" /\ parent'[c] = p
  BY <1>1, ForkedTwo
<1>3. ASSUME NEW r \in Procs, mode[r] # "free" PROVE Settled(r)
  <2>1. CASE r = p
    BY <1>2, <2>1 DEF Settled, Stage
  <2>2. CASE r # p
    BY <1>1, <1>3, <2>2, StageEnds, LastEnds, LaunchEnds DEF ForkStep, Quiet
  <2> QED BY <2>1, <2>2
<1>4. ASSUME NEW r \in Procs, mode[r] # "free" PROVE mode'[r] # "free" /\ parent'[r] = parent[r]
  <2>1. /\ mode = [s \in Procs |-> mode[s]] /\ parent = [s \in Procs |-> parent[s]]
        /\ mode' = [mode EXCEPT ![c] = "child"] /\ parent' = [parent EXCEPT ![c] = p]
    BY <1>1 DEF Fork, PipesInv, TypeInv, KernelTypes
  <2> QED BY <1>1, <1>4, <2>1
<1> QED BY <1>1, <1>2, <1>3, <1>4

LEMMA ForkKids ==
  ASSUME PipesInv, NEW p \in Procs, NEW c \in Procs, ForkStep(p, c), NEW q \in Procs
  PROVE  KidsOK(q)' /\ LinkOK(q)'
<1>1. /\ mode[p] = "shell" /\ mode[c] = "free" /\ p # c /\ sh[p].pc = "list"
      /\ mode'[c] = "child" /\ parent'[c] = p
      /\ \A r \in Procs : mode[r] # "free" =>
           Settled(r) /\ mode'[r] # "free" /\ parent'[r] = parent[r]
  BY ForkSettles
<1>2. /\ sh = [r \in Procs |-> sh[r]] /\ ShellState(sh[p]) /\ sh[c].kids = <<>>
  BY <1>1 DEF PipesInv, TypeInv, ProcessOK, PlaceOK
<1>3. CASE \E k \in Pipes : StageStep(p, c, k)
  <2>1. PICK k \in Pipes : StageStep(p, c, k)
    BY <1>3
  <2>2. sh' = [sh EXCEPT ![p].at = @ + 1, ![p].prev = ReadEnd(k), ![p].kids = Append(@, c)]
    BY <2>1 DEF StageStep, NextStage
  <2>3. /\ sh'[p].kids = Append(sh[p].kids, c) /\ sh'[p].prev = ReadEnd(k)
        /\ \A r \in Procs \ {p} : sh'[r] = sh[r]
    BY <1>2, <2>2 DEF ShellState
  <2>4. Reading(c)' = sh[p].prev /\ Writing(c)' = WriteEnd(k)
    BY <2>1, StageEnds
  <2>5. CASE q = p
    <3>1. \E l \in Pipes : sh'[p].prev = ReadEnd(l) /\ Writing(c)' = WriteEnd(l)
      BY <2>3, <2>4
    <3> QED BY <1>1, <2>3, <2>4, <2>5, <3>1, GrownKids
  <2>6. CASE q = c
    BY <1>1, <1>2, <2>3, <2>6, NoKids
  <2>7. CASE q # p /\ q # c
    BY <1>1, <2>3, <2>7, QuietKids
  <2> QED BY <2>5, <2>6, <2>7
<1>4. CASE LastStep(p, c)
  <2>1. sh' = [sh EXCEPT ![p].pc = "wait", ![p].kids = Append(@, c)]
    BY <1>4 DEF LastStep
  <2>2. /\ sh'[p].kids = Append(sh[p].kids, c) /\ sh'[p].pc = "wait"
        /\ \A r \in Procs \ {p} : sh'[r] = sh[r]
    BY <1>2, <2>1 DEF ShellState
  <2>3. Reading(c)' = sh[p].prev
    BY <1>4, LastEnds
  <2>4. CASE q = p
    BY <1>1, <2>2, <2>3, <2>4, GrownKids
  <2>5. CASE q = c
    BY <1>1, <1>2, <2>2, <2>5, NoKids
  <2>6. CASE q # p /\ q # c
    BY <1>1, <2>2, <2>6, QuietKids
  <2> QED BY <2>4, <2>5, <2>6
<1>5. CASE LaunchStep(p, c)
  <2> DEFINE by == job'[c].by
  <2>1. /\ by \in {"runExternal", "runRedirectExternal"}
        /\ sh' = [sh EXCEPT ![p].pc = by, ![p].kids = <<c>>, ![c] = AtPrompt(sh[p].qbuf)]
    BY <1>5 DEF LaunchStep
  <2> HIDE DEF by
  <2>2. /\ sh'[p].kids = <<c>> /\ sh'[p].pc = by /\ sh'[c] = AtPrompt(sh[p].qbuf)
        /\ \A r \in Procs \ {p, c} : sh'[r] = sh[r]
    BY <1>1, <1>2, <2>1 DEF ShellState
  <2>3. CASE q = p
    <3>1. KidsOK(p)'
      BY <1>1, <2>2 DEF KidsOK
    <3>2. LinkOK(p)'
      <4>1. \A i \in 1 .. Len(<<c>>) - 1 : FALSE
        OBVIOUS
      <4>2. by # "list"
        BY <2>1
      <4> QED BY <2>2, <4>1, <4>2 DEF LinkOK
    <3> QED BY <2>3, <3>1, <3>2
  <2>4. CASE q = c
    BY <2>2, <2>4, NoKids DEF AtPrompt
  <2>5. CASE q # p /\ q # c
    BY <1>1, <2>2, <2>5, QuietKids
  <2> QED BY <2>3, <2>4, <2>5
<1> QED BY <1>3, <1>4, <1>5 DEF ForkStep

LEMMA KidsStep ==
  ASSUME PipesInv, Step, NEW q \in Procs
  PROVE  KidsOK(q)' /\ LinkOK(q)'
<1>1. CASE QuietStep
  BY <1>1, TalkKids, ReapKids, ExecKids, EndKids, DataKids DEF QuietStep
<1>2. CASE \E p, c \in Procs : ForkStep(p, c)
  BY <1>2, ForkKids
<1> QED BY <1>1, <1>2, StepIs

LEMMA InitPipes == Init => PipesInv
<1> SUFFICES ASSUME Init PROVE PipesInv
  OBVIOUS
<1>1. ASSUME NEW p \in Procs
      PROVE  /\ sh[p].kids = <<>> /\ sh[p].pc = "prompt" /\ held[p] = {}
             /\ mode[p] \in {"shell", "free"}
  BY DEF Init, KernelInit, AtPrompt
<1>2. ASSUME NEW p \in Procs PROVE Reading(p) = NULL /\ Writing(p) = NULL
  BY <1>1, NoView DEF Stage
<1>3. ASSUME NEW p \in Procs PROVE KidsOK(p) /\ EndsOK(p) /\ LinkOK(p)
  BY <1>1, <1>2 DEF KidsOK, EndsOK, LinkOK
<1>4. ASSUME NEW p \in Procs, NEW q \in Procs PROVE Apart(p, q)
  BY <1>2 DEF Apart
<1> QED BY <1>3, <1>4, InitTypes DEF PipesInv

LEMMA NextPipes == PipesInv /\ [Next]_vars => PipesInv'
<1> SUFFICES ASSUME PipesInv, [Next]_vars PROVE PipesInv'
  OBVIOUS
<1>1. TypeInv'
  BY NextTypes DEF PipesInv
<1>2. CASE UNCHANGED vars
  <2>1. ASSUME NEW q \in Procs
        PROVE  Settled(q) /\ EndsOK(q)' /\ Reading(q)' = Reading(q) /\ Writing(q)' = Writing(q)
    <3>1. /\ sh'[q] = sh[q] /\ job'[q] = job[q] /\ stdin'[q] = stdin[q]
          /\ stdout'[q] = stdout[q] /\ held'[q] = held[q] /\ mode'[q] = mode[q]
      BY <1>2 DEF vars, processVars, shellVars
    <3> QED BY <3>1, KeptEnds, SameView DEF PipesInv, Quiet
  <2>2. ASSUME NEW q \in Procs PROVE KidsOK(q)' /\ LinkOK(q)'
    BY <1>2, <2>1, QuietKids DEF vars, processVars, shellVars
  <2>3. ASSUME NEW q \in Procs, NEW r \in Procs PROVE Apart(q, r)'
    BY <2>1 DEF Apart, PipesInv
  <2> QED BY <1>1, <2>1, <2>2, <2>3 DEF PipesInv
<1>3. CASE Step
  BY <1>1, <1>3, EndsStep, KidsStep DEF PipesInv
<1> QED BY <1>2, <1>3, Kinds DEF PipesInv

-----------------------------------------------------------------------------
\* What the invariant says of the pipes.

\* Whoever can write to a pipe is the stage that is to write to it.
LEMMA WriterIs ==
  ASSUME PipesInv, NEW k \in Pipes, NEW p \in WritersOf(k)
  PROVE  /\ p \in Procs /\ Writing(p) = WriteEnd(k)
         /\ mode[p] = "child" \/ stdout[p] = WriteEnd(k)
<1>1. p \in Procs /\ p \in Alive /\ WriteEnd(k) \in held[p] \cup {stdin[p], stdout[p]}
  BY DEF WritersOf, Open, Alive
<1>2. /\ EndsOK(p) /\ ProcessOK(p) /\ stdin[p] \in {Terminal, File} \cup ReadEnds
      /\ WriteEnd(k) \in WriteEnds /\ WriteEnd(k) # NULL
  BY <1>1, EndsApart DEF PipesInv, TypeInv, KernelTypes, ReadEnds
<1>3. CASE WriteEnd(k) \in held[p]
  <2>1. Writing(p) = WriteEnd(k)
    BY <1>1, <1>2, <1>3 DEF EndsOK
  <2> QED BY <1>1, <1>2, <2>1 DEF Writing
<1>4. CASE stdout[p] = WriteEnd(k)
  <2>1. mode[p] = "program"
    BY <1>1, <1>2, <1>4, EndsApart DEF ProcessOK, Alive
  <2> QED BY <1>1, <1>2, <1>4, <2>1 DEF Writing
<1> QED BY <1>1, <1>2, <1>3, <1>4, EndsApart

\* Two at most one of whom is there count as one.
LEMMA AtMostOne ==
  ASSUME NEW T, \A p, q \in T : p = q
  PROVE  Cardinality(T) <= 1
<1>1. CASE T = {}
  BY <1>1, FS_EmptySet
<1>2. CASE T # {}
  <2>1. PICK p : p \in T
    BY <1>2
  <2>2. T = {p}
    BY <2>1
  <2>3. Cardinality({p}) = 1
    BY FS_Singleton
  <2> QED BY <2>2, <2>3
<1> QED BY <1>1, <1>2

LEMMA WritersOne == PipesInv => OnlyStageWrites
<1> SUFFICES ASSUME PipesInv, NEW k \in Pipes
             PROVE  /\ Cardinality(WritersOf(k)) <= 1
                    /\ \A p \in WritersOf(k) : mode[p] = "child" \/ stdout[p] = WriteEnd(k)
                    /\ Cardinality({p \in Alive : stdin[p] = ReadEnd(k)}) <= 1
  BY DEF OnlyStageWrites
<1>1. /\ WriteEnd(k) # NULL /\ ReadEnd(k) # NULL /\ ReadEnd(k) \in ReadEnds
      /\ ReadEnd(k) \notin {Terminal, File}
  BY EndsApart
<1>2. ASSUME NEW p \in WritersOf(k), NEW q \in WritersOf(k) PROVE p = q
  BY <1>1, WriterIs DEF PipesInv, Apart
<1> DEFINE R == {p \in Alive : stdin[p] = ReadEnd(k)}
<1>3. ASSUME NEW p \in R, NEW q \in R PROVE p = q
  <2>1. ASSUME NEW r \in R PROVE r \in Procs /\ Reading(r) = ReadEnd(k)
    <3>1. r \in Procs /\ r \in Alive /\ stdin[r] = ReadEnd(k)
      BY DEF Alive
    <3>2. mode[r] = "program"
      BY <1>1, <3>1 DEF PipesInv, TypeInv, ProcessOK, Alive
    <3> QED BY <1>1, <3>1, <3>2 DEF Reading
  <2> QED BY <1>1, <2>1 DEF PipesInv, Apart
<1> HIDE DEF R
<1>4. Cardinality(WritersOf(k)) <= 1 /\ Cardinality(R) <= 1
  BY <1>2, <1>3, AtMostOne
<1> QED BY <1>4, WriterIs DEF R

LEMMA Connected == PipesInv => StagesConnected
<1> SUFFICES ASSUME PipesInv, NEW p \in Procs, NEW i \in 1 .. Len(sh[p].kids) - 1,
                    mode[sh[p].kids[i]] = "program", mode[sh[p].kids[i + 1]] = "program"
             PROVE  \E k \in Pipes : /\ stdout[sh[p].kids[i]] = WriteEnd(k)
                                     /\ stdin[sh[p].kids[i + 1]] = ReadEnd(k)
  BY DEF StagesConnected, Shells
<1>1. PICK w, r : w = sh[p].kids[i] /\ r = sh[p].kids[i + 1]
  OBVIOUS
<1>2. PICK k \in Pipes : Linked(k, w, r)
  BY <1>1 DEF PipesInv, LinkOK
<1>3. Writing(w) = WriteEnd(k) /\ Reading(r) = ReadEnd(k) /\ WriteEnd(k) # NULL /\ ReadEnd(k) # NULL
  BY <1>1, <1>2, EndsApart DEF Linked, Stage
<1>4. stdout[w] = WriteEnd(k)
  BY <1>1, <1>3 DEF Writing
<1>5. stdin[r] = ReadEnd(k)
  BY <1>1, <1>3 DEF Reading
<1> QED BY <1>1, <1>4, <1>5

LEMMA SpecPipes == Spec => []PipesInv
BY InitPipes, NextPipes, PTL DEF Spec

\* README.md:225: whatever the line, and wherever its stages stand, one process
\* at most can write to a pipe, the stage that is to, and one at most reads from
\* it.  So a reader gets its end of input as soon as its writer is gone
\* (command_loop.c's closes after each fork, runPipe's in the child).
THEOREM OneWriterPerPipe == Spec => []OnlyStageWrites
BY SpecPipes, WritersOne, PTL

\* The programs of a pipeline are joined in its order (prev and the pipe of the
\* turn in runPipeline, dup2 in runPipe): a shell's children one after the other,
\* when both run, write to and read from one pipe.
THEOREM PipelineOrder == Spec => []StagesConnected
BY SpecPipes, Connected, PTL

(***************************************************************************)
(* What holds if the lines typed are of a certain form: the children are   *)
(* waited for, $? is the last exit status, no descriptor is left open at a *)
(* prompt.                                                                 *)
(***************************************************************************)

\* A shell runs through the list of a line that was typed.
ListOK(p) ==
  sh[p].pc = "list" => sh[p].list \in LineLists /\ sh[p].list # <<>>
ListInv == PipesInv /\ \A p \in Procs : ListOK(p)

-----------------------------------------------------------------------------
\* The lists.

\* A shell's list is a new one, or it is the one before, at the same command or
\* at the next.
LEMMA ListMoves ==
  ASSUME PipesInv, [Next]_vars, NEW q \in Procs, sh'[q].pc = "list"
  PROVE  \/ sh'[q].at = 1 /\ sh'[q].list \in LineLists /\ sh'[q].list # <<>>
         \/ /\ sh[q].pc = "list" /\ sh'[q].list = sh[q].list
            /\ sh'[q].at = sh[q].at \/ (HasNext(q) /\ sh'[q].at = sh[q].at + 1)
<1>1. /\ sh = [r \in Procs |-> sh[r]] /\ ShellState(sh[q]) /\ PlaceOK(sh[q]) /\ TypeInv
  BY DEF PipesInv, TypeInv, ProcessOK
<1>2. CASE sh'[q] = sh[q]
  BY <1>2
<1>3. ASSUME NEW p \in Procs, TalkStep(p), sh'[q] # sh[q]
      PROVE  sh'[q].at = 1 /\ sh'[q].list \in LineLists /\ sh'[q].list # <<>>
  <2>1. q = p
    BY <1>1, <1>3 DEF TalkStep
  <2>2. sh'[q].pc # "prompt"
    OBVIOUS
  <2>3. /\ sh[q].pc = "prompt" /\ sh'[q] = [sh[q] EXCEPT !.pc = "list", !.list = sh'[q].list]
        /\ sh'[q].list # <<>>
        /\ \E tokens \in Lines : sh'[q].list = buildCommandList(Expand(tokens, sh[q].qbuf))
    <3>1. \A text : sh'[q] # AtPrompt(text)
      BY <2>2 DEF AtPrompt
    <3> QED BY <1>3, <2>1, <3>1 DEF TalkStep
  <2>4. sh'[q].at = sh[q].at /\ sh[q].at = 1
    BY <1>1, <2>3 DEF ShellState, PlaceOK
  <2> QED BY <1>1, <2>3, <2>4 DEF LineLists, ShellState
<1>4. ASSUME NEW p \in Procs, NEW c \in Procs, ForkStep(p, c), sh'[q] # sh[q]
      PROVE  sh[q].pc = "list" /\ sh'[q].list = sh[q].list
             /\ HasNext(q) /\ sh'[q].at = sh[q].at + 1
  <2>1. mode[c] = "free" /\ p # c
    BY <1>4, ForkSettles
  <2>2. CASE LaunchStep(p, c)
    <3> DEFINE by == job'[c].by
    <3>1. /\ by \in {"runExternal", "runRedirectExternal"}
          /\ sh' = [sh EXCEPT ![p].pc = by, ![p].kids = <<c>>, ![c] = AtPrompt(sh[p].qbuf)]
          /\ ShellState(sh[p])
      BY <1>1, <2>2 DEF LaunchStep, TypeInv, ProcessOK
    <3> HIDE DEF by
    <3>2. sh'[p].pc = by /\ sh'[c].pc = "prompt" /\ \A r \in Procs \ {p, c} : sh'[r] = sh[r]
      BY <1>1, <2>1, <3>1 DEF ShellState, AtPrompt
    <3> QED BY <1>4, <3>1, <3>2
  <2>3. CASE LastStep(p, c)
    <3>1. q = p
      BY <1>1, <1>4, <2>3 DEF LastStep
    <3>2. sh'[p].pc = "wait"
      BY <1>1, <2>3, <3>1 DEF LastStep, ShellState
    <3> QED BY <3>1, <3>2
  <2>4. CASE \E k \in Pipes : StageStep(p, c, k)
    <3>1. PICK k \in Pipes : StageStep(p, c, k)
      BY <2>4
    <3>2. q = p
      BY <1>1, <1>4, <3>1 DEF StageStep, NextStage
    <3> QED BY <1>1, <3>1, <3>2 DEF StageStep, NextStage, ShellState
  <2> QED BY <1>4, <2>2, <2>3, <2>4 DEF ForkStep
<1>5. ASSUME NEW p \in Procs, ReapStep(p), sh'[q] # sh[q] PROVE FALSE
  <2>1. q = p /\ sh[q].pc # "list"
    BY <1>1, <1>5 DEF ReapStep, Waits
  <2>2. PICK text, kids : sh'[q] = AtPrompt(text)
                          \/ sh'[q] = [sh[q] EXCEPT !.kids = kids, !.qbuf = text]
    BY <1>5, <2>1, ZenonT(40) DEF ReapStep
  <2>3. sh'[q] # AtPrompt(text)
    BY DEF AtPrompt
  <2>4. sh'[q].pc = sh[q].pc
    BY <1>1, <2>2, <2>3 DEF ShellState
  <2> QED BY <2>1, <2>4
<1>6. ASSUME NEW p \in Procs, ExecStep(p) \/ LoopStep(p), sh'[q] # sh[q] PROVE FALSE
  <2>1. sh'[q] = AtPrompt(Unwritten)
    BY <1>1, <1>6 DEF ExecStep, LoopStep
  <2> QED BY <2>1 DEF AtPrompt
<1>7. ASSUME NEW S, NEW st, EndStep(S, st), sh'[q] # sh[q] PROVE FALSE
  BY <1>7 DEF EndStep, AtPrompt
<1>8. CASE DataStep \/ UNCHANGED vars
  BY <1>2, <1>8 DEF DataStep, vars, shellVars
<1> QED BY <1>1, <1>2, <1>3, <1>4, <1>5, <1>6, <1>7, <1>8, Kinds, StepIs DEF QuietStep

LEMMA ListStep == ListInv /\ [Next]_vars => ListInv'
<1> SUFFICES ASSUME ListInv, [Next]_vars, NEW q \in Procs, sh'[q].pc = "list"
             PROVE  sh'[q].list \in LineLists /\ sh'[q].list # <<>>
  BY NextPipes DEF ListInv, ListOK, LineLists
<1> QED BY ListMoves DEF ListInv, ListOK

LEMMA InitLists == Init => ListInv
BY InitPipes DEF Init, AtPrompt, ListInv, ListOK

-----------------------------------------------------------------------------
\* Lines whose commands all have a word.

\* A shell is at a command of its list.
CurrentOK(p) == sh[p].pc = "list" => sh[p].at \in 1 .. Len(sh[p].list)
CurrentInv == ListInv /\ \A p \in Procs : CurrentOK(p)

\* Such a list is a sequence of commands.
LEMMA ListIsSeq ==
  ASSUME LinesComplete, NEW list \in LineLists
  PROVE  /\ Len(list) \in Nat /\ DOMAIN list = 1 .. Len(list)
         /\ list # <<>> => 1 \in 1 .. Len(list)
         /\ \A i \in 1 .. Len(list) : list[i].command # NULL
<1>1. list \in Seq({list[i] : i \in DOMAIN list}) /\ \A i \in DOMAIN list : list[i].command # NULL
  BY DEF LinesComplete
<1>2. Len(list) \in Nat /\ DOMAIN list = 1 .. Len(list)
  BY <1>1
<1>3. list # <<>> => Len(list) # 0
  BY <1>1
<1> QED BY <1>1, <1>2, <1>3

LEMMA CurrentStep == LinesComplete /\ CurrentInv /\ [Next]_vars => CurrentInv'
<1> SUFFICES ASSUME LinesComplete, CurrentInv, [Next]_vars, NEW q \in Procs, sh'[q].pc = "list"
             PROVE  sh'[q].at \in 1 .. Len(sh'[q].list)
  BY ListStep DEF CurrentInv, CurrentOK
<1>1. CASE sh'[q].at = 1 /\ sh'[q].list \in LineLists /\ sh'[q].list # <<>>
  BY <1>1, ListIsSeq
<1>2. CASE /\ sh[q].pc = "list" /\ sh'[q].list = sh[q].list
           /\ sh'[q].at = sh[q].at \/ (HasNext(q) /\ sh'[q].at = sh[q].at + 1)
  <2>1. sh[q].at \in 1 .. Len(sh[q].list) /\ Len(sh[q].list) \in Nat
    BY <1>2, ListIsSeq DEF CurrentInv, CurrentOK, ListInv, ListOK
  <2> QED BY <1>2, <2>1 DEF HasNext
<1> QED BY <1>1, <1>2, ListMoves DEF CurrentInv, ListInv

LEMMA InitCurrent == Init => CurrentInv
BY InitLists DEF Init, AtPrompt, CurrentInv, CurrentOK

\* A shell comes back to the prompt, having waited for nobody, only from the
\* first command.
LEMMA TalkReturns ==
  ASSUME LinesComplete, CurrentInv, NEW p \in Procs, TalkStep(p), sh[p].pc = "list"
  PROVE  sh'[p] = sh[p] \/ (sh[p].at = 1 /\ \E text : sh'[p] = AtPrompt(text))
<1>1. Current(p).command # NULL
  BY ListIsSeq DEF CurrentInv, CurrentOK, ListInv, ListOK, Current
<1> QED BY <1>1 DEF TalkStep

-----------------------------------------------------------------------------
\* The children of a shell are among those it has still to wait for.
ChildrenInv == CurrentInv /\ \A p \in Procs : Children(p) \subseteq Ahead(p)

LEMMA SameChildren ==
  ASSUME NEW q \in Procs, Children(q) \subseteq Ahead(q), sh'[q].kids = sh[q].kids,
         \A x \in Procs : mode'[x] # "free" /\ parent'[x] = q => mode[x] # "free" /\ parent[x] = q
  PROVE  Children(q)' \subseteq Ahead(q)'
BY DEF Children, Ahead

LEMMA TalkChildren ==
  ASSUME LinesComplete, ChildrenInv, NEW p \in Procs, TalkStep(p), NEW q \in Procs
  PROVE  Children(q)' \subseteq Ahead(q)'
<1>1. /\ sh = [r \in Procs |-> sh[r]] /\ ShellState(sh[p]) /\ PlaceOK(sh[p])
      /\ UNCHANGED <<mode, parent>> /\ sh' = [sh EXCEPT ![p] = sh'[p]]
      /\ Children(q) \subseteq Ahead(q)
  BY DEF ChildrenInv, CurrentInv, ListInv, PipesInv, TypeInv, ProcessOK, TalkStep, processVars
<1>2. CASE sh'[q] = sh[q]
  BY <1>1, <1>2, SameChildren
<1>3. CASE sh'[q] # sh[q]
  <2>1. q = p
    BY <1>1, <1>3
  <2>2. CASE sh[p].pc = "prompt"
    <3>1. sh'[p] = [sh[p] EXCEPT !.pc = "list", !.list = sh'[p].list]
      BY <1>3, <2>1, <2>2 DEF TalkStep
    <3>2. sh'[p].kids = sh[p].kids
      BY <1>1, <3>1 DEF ShellState
    <3> QED BY <1>1, <2>1, <3>2, SameChildren
  <2>3. CASE sh[p].pc = "list"
    <3>1. PICK text : sh'[p] = AtPrompt(text) /\ sh[p].at = 1
      BY <1>3, <2>1, <2>3, TalkReturns DEF ChildrenInv
    <3>2. sh[p].kids = <<>>
      BY <1>1, <2>3, <3>1 DEF PlaceOK, ShellState
    <3>3. sh'[p].kids = <<>>
      BY <3>1 DEF AtPrompt
    <3> QED BY <1>1, <2>1, <3>2, <3>3, SameChildren
  <2> QED BY <1>3, <2>1, <2>2, <2>3 DEF TalkStep
<1> QED BY <1>2, <1>3

LEMMA ReapChildren ==
  ASSUME ChildrenInv, NEW p \in Procs, ReapStep(p), NEW q \in Procs
  PROVE  Children(q)' \subseteq Ahead(q)'
<1>1. /\ sh = [r \in Procs |-> sh[r]] /\ mode = [r \in Procs |-> mode[r]]
      /\ parent = [r \in Procs |-> parent[r]] /\ ShellState(sh[p]) /\ PlaceOK(sh[p])
      /\ sh[p].pc \in Waits /\ sh' = [sh EXCEPT ![p] = sh'[p]]
      /\ Children(q) \subseteq Ahead(q)
  BY DEF ChildrenInv, CurrentInv, ListInv, PipesInv, TypeInv, KernelTypes, ProcessOK, ReapStep
<1>2. PICK kids \in Seq(Procs) : kids = sh[p].kids /\ kids # <<>>
  BY <1>1 DEF ShellState, PlaceOK
<1>3. PICK c \in Procs : c = kids[1] /\ c = Head(kids)
  BY <1>2
<1>4. /\ \A r \in Procs : mode'[r] = IF r = c THEN "free" ELSE mode[r]
      /\ \A r \in Procs : r # c => parent'[r] = parent[r]
  BY <1>1, <1>2, <1>3 DEF ReapStep, Reap
<1>5. CASE q # p
  <2>1. sh'[q] = sh[q]
    BY <1>1, <1>5
  <2> QED BY <1>1, <1>4, <2>1, SameChildren
<1>6. CASE q = p
  <2>1. PICK rest \in Seq(Procs) : rest = Tail(kids) /\ Len(rest) = Len(kids) - 1
                                   /\ \A i \in 1 .. Len(rest) : rest[i] = kids[i + 1]
    BY <1>2, HeadTailProperties, ZenonT(40)
  <2>2. sh'[p].kids = rest 
    <3>1. PICK text : sh'[p] = IF rest = <<>> \/ sh[p].pc # "wait" THEN AtPrompt(text)
                               ELSE [sh[p] EXCEPT !.kids = rest, !.qbuf = text]
      BY <1>2, <2>1 DEF ReapStep
    <3>2. CASE rest = <<>> \/ sh[p].pc # "wait"
      <4>1. rest = <<>>
        BY <1>1, <1>2, <2>1, <3>2 DEF PlaceOK
      <4> QED BY <3>1, <3>2, <4>1 DEF AtPrompt
    <3>3. CASE ~(rest = <<>> \/ sh[p].pc # "wait")
      BY <1>1, <3>1, <3>3 DEF ShellState
    <3> QED BY <3>2, <3>3
  <2>3. ASSUME NEW x \in Procs, mode'[x] # "free", parent'[x] = p
        PROVE  \E i \in DOMAIN rest : x = rest[i]
    <3>1. x # c /\ mode[x] # "free" /\ parent[x] = p
      BY <1>4, <2>3
    <3>2. PICK i \in DOMAIN kids : x = kids[i]
      BY <1>1, <1>2, <1>6, <3>1 DEF Children, Ahead
    <3>3. i \in 2 .. Len(kids)
      <4>1. i \in 1 .. Len(kids) /\ i # 1 /\ Len(kids) \in Nat
        BY <1>3, <3>1, <3>2
      <4> QED BY <4>1
    <3>4. i - 1 \in 1 .. Len(rest) /\ (i - 1) + 1 = i /\ DOMAIN rest = 1 .. Len(rest)
      BY <2>1, <3>3
    <3>5. rest[i - 1] = kids[i]
      BY <2>1, <3>4
    <3> QED BY <3>2, <3>4, <3>5
  <2> QED BY <1>6, <2>2, <2>3 DEF Children, Ahead
<1> QED BY <1>5, <1>6

LEMMA ChildChildren ==
  ASSUME ChildrenInv, NEW p \in Procs, ExecStep(p) \/ LoopStep(p), NEW q \in Procs
  PROVE  Children(q)' \subseteq Ahead(q)'
<1>1. /\ sh = [r \in Procs |-> sh[r]] /\ mode = [r \in Procs |-> mode[r]] /\ mode[p] = "child"
      /\ sh[p].kids = <<>> /\ sh[p].pc = "prompt" /\ Children(q) \subseteq Ahead(q)
  BY DEF ChildrenInv, CurrentInv, ListInv, PipesInv, TypeInv, KernelTypes, ProcessOK, PlaceOK, ExecStep, LoopStep
<1>2. /\ mode' = [mode EXCEPT ![p] = "program"] \/ mode' = [mode EXCEPT ![p] = "shell"]
      /\ parent' = parent /\ sh' = [sh EXCEPT ![p] = sh'[p]]
      /\ sh'[p] \in {sh[p], AtPrompt(Unwritten)}
  BY <1>1 DEF ExecStep, LoopStep
<1>3. \A x \in Procs : mode'[x] # "free" /\ parent'[x] = q => mode[x] # "free" /\ parent[x] = q
  BY <1>1, <1>2
<1>4. sh'[q].kids = sh[q].kids /\ (sh'[q] = sh[q] \/ sh'[q].pc = "prompt")
  <2>1. CASE q = p
    BY <1>1, <1>2, <2>1 DEF AtPrompt
  <2>2. CASE q # p
    BY <1>1, <1>2, <2>2
  <2> QED BY <2>1, <2>2
<1> QED BY <1>1, <1>3, <1>4, SameChildren

LEMMA EndChildren ==
  ASSUME ChildrenInv, NEW S \in SUBSET Procs, NEW st, EndStep(S, st), NEW q \in Procs
  PROVE  Children(q)' \subseteq Ahead(q)'
<1>1. /\ Exit(S, st) /\ S \subseteq Alive /\ Adopter \notin Procs /\ ProcessOK(q)
      /\ Children(q) \subseteq Ahead(q)
  BY ProcessesOK DEF ChildrenInv, CurrentInv, ListInv, PipesInv, TypeInv, EndStep
<1>3. CASE q \in S
  <2>1. \A x \in Procs : parent'[x] # q
    BY <1>1, <1>3, ExitEffect
  <2> QED BY <2>1 DEF Children
<1>4. CASE q \notin S
  <2>1. sh'[q] = sh[q]
    BY <1>4 DEF EndStep
  <2>2. ASSUME NEW x \in Procs, mode'[x] # "free", parent'[x] = q
        PROVE  mode[x] # "free" /\ parent[x] = q
    BY <1>1, <1>4, <2>2, ExitEffect DEF Alive
  <2> QED BY <1>1, <2>1, <2>2, SameChildren
<1> QED BY <1>3, <1>4

LEMMA ForkChildren ==
  ASSUME ChildrenInv, NEW p \in Procs, NEW c \in Procs, ForkStep(p, c), NEW q \in Procs
  PROVE  Children(q)' \subseteq Ahead(q)'
<1>1. /\ mode[p] = "shell" /\ mode[c] = "free" /\ p # c /\ sh[p].pc = "list"
      /\ mode'[c] = "child" /\ parent'[c] = p
  BY ForkSettles DEF ChildrenInv, CurrentInv, ListInv
<1>2. PICK opened, closed : Fork(p, c, opened, closed)
  BY DEF ForkStep, StageStep, LastStep, LaunchStep
<1>3. \A x \in Procs : x # c => mode'[x] = mode[x] /\ parent'[x] = parent[x]
  BY <1>2 DEF Fork, ChildrenInv, CurrentInv, ListInv, PipesInv, TypeInv, KernelTypes
<1>4. /\ sh = [r \in Procs |-> sh[r]] /\ ShellState(sh[p]) /\ PlaceOK(sh[p])
      /\ sh[c].kids = <<>> /\ sh[c].pc = "prompt"
      /\ \A r \in Procs : Children(r) \subseteq Ahead(r)
  BY <1>1 DEF ChildrenInv, CurrentInv, ListInv, PipesInv, TypeInv, ProcessOK, PlaceOK
<1>5. PICK kids \in Seq(Procs) : kids = sh[p].kids
  BY <1>4 DEF ShellState
<1>6. /\ \A r \in Procs \ {p, c} : sh'[r] = sh[r]
      /\ sh'[c].kids = <<>> /\ sh'[c].pc = "prompt"
      /\ sh'[p].kids = Append(kids, c)
  <2>1. CASE \E k \in Pipes : StageStep(p, c, k)
    BY <1>1, <1>4, <1>5, <2>1 DEF StageStep, NextStage, ShellState
  <2>2. CASE LastStep(p, c)
    BY <1>1, <1>4, <1>5, <2>2 DEF LastStep, ShellState
  <2>3. CASE LaunchStep(p, c)
    <3> DEFINE by == job'[c].by
    <3>1. sh' = [sh EXCEPT ![p].pc = by, ![p].kids = <<c>>, ![c] = AtPrompt(sh[p].qbuf)]
      BY <2>3 DEF LaunchStep
    <3> HIDE DEF by
    <3>2. /\ \A r \in Procs \ {p, c} : sh'[r] = sh[r]
          /\ sh'[c] = AtPrompt(sh[p].qbuf) /\ sh'[p].kids = <<c>>
      BY <1>1, <1>4, <3>1 DEF ShellState
    <3>3. kids = <<>>
      BY <1>4, <1>5, <2>3 DEF LaunchStep, PlaceOK
    <3> QED BY <3>2, <3>3 DEF AtPrompt
  <2> QED BY <2>1, <2>2, <2>3 DEF ForkStep
<1>7. CASE q # p /\ q # c
  <2>1. sh'[q] = sh[q]
    BY <1>6, <1>7
  <2> QED BY <1>1, <1>3, <1>4, <1>7, <2>1, SameChildren
<1>8. CASE q = c
  <2>1. \A x \in Procs : mode'[x] # "free" /\ parent'[x] = q => mode[x] # "free" /\ parent[x] = q
    BY <1>1, <1>3, <1>8
  <2> QED BY <1>4, <1>6, <1>8, <2>1, SameChildren
<1>9. CASE q = p
  <2>1. PICK more \in Seq(Procs) : more = sh'[p].kids /\ Len(more) = Len(kids) + 1
                                   /\ more[Len(kids) + 1] = c
                                   /\ \A i \in 1 .. Len(kids) : more[i] = kids[i]
    <3>1. /\ Append(kids, c) \in Seq(Procs) /\ Len(Append(kids, c)) = Len(kids) + 1
          /\ Append(kids, c)[Len(kids) + 1] = c
          /\ \A i \in 1 .. Len(kids) : Append(kids, c)[i] = kids[i]
      BY AppendProperties
    <3> QED BY <1>6, <3>1
  <2>2. DOMAIN more = 1 .. Len(kids) + 1 /\ DOMAIN kids = 1 .. Len(kids) /\ Len(kids) \in Nat
    BY <2>1
  <2>3. ASSUME NEW x \in Procs, mode'[x] # "free", parent'[x] = p
        PROVE  \E i \in DOMAIN more : x = more[i]
    <3>1. CASE x = c
      BY <2>1, <2>2, <3>1
    <3>2. CASE x # c
      <4>1. PICK i \in DOMAIN kids : x = kids[i]
        BY <1>3, <1>4, <1>5, <2>3, <3>2 DEF Children, Ahead
      <4>2. i \in DOMAIN more /\ x = more[i]
        BY <2>1, <2>2, <4>1
      <4> QED BY <4>2
    <3> QED BY <3>1, <3>2
  <2> QED BY <1>9, <2>1, <2>3 DEF Children, Ahead
<1> QED BY <1>7, <1>8, <1>9

LEMMA DataChildren ==
  ASSUME ChildrenInv, DataStep \/ UNCHANGED vars, NEW q \in Procs
  PROVE  Children(q)' \subseteq Ahead(q)'
<1>1. UNCHANGED <<mode, parent, sh>> /\ Children(q) \subseteq Ahead(q)
  BY DEF ChildrenInv, DataStep, shellVars, processVars, vars
<1> QED BY <1>1, SameChildren

LEMMA InitChildren == Init => ChildrenInv
<1> SUFFICES ASSUME Init, NEW p \in Procs PROVE Children(p) \subseteq Ahead(p)
  BY InitCurrent DEF ChildrenInv
<1>1. sh[p].pc = "prompt" /\ \A c \in Procs : parent[c] # p
  BY ProcessesOK DEF Init, KernelInit, AtPrompt
<1> QED BY <1>1 DEF Children

LEMMA NextChildren == LinesComplete /\ ChildrenInv /\ [Next]_vars => ChildrenInv'
<1> SUFFICES ASSUME LinesComplete, ChildrenInv, [Next]_vars PROVE ChildrenInv'
  OBVIOUS
<1>1. CurrentInv' /\ TypeInv
  BY CurrentStep DEF ChildrenInv, CurrentInv, ListInv, PipesInv
<1>2. ASSUME NEW q \in Procs PROVE Children(q)' \subseteq Ahead(q)'
  <2>1. CASE QuietStep
    BY <2>1, TalkChildren, ReapChildren, ChildChildren, EndChildren, DataChildren DEF QuietStep
  <2>2. CASE \E p, c \in Procs : ForkStep(p, c)
    BY <2>2, ForkChildren
  <2>3. CASE UNCHANGED vars
    BY <2>3, DataChildren
  <2> QED BY <1>1, <2>1, <2>2, <2>3, Kinds, StepIs
<1> QED BY <1>1, <1>2 DEF ChildrenInv

\* Its children are those it is yet to wait for, and each is waited for once.
LEMMA AllAhead == ChildrenInv => WaitsForItsChildren
<1> SUFFICES ASSUME ChildrenInv, NEW p \in Procs
             PROVE  Ahead(p) = Children(p) /\ Cardinality(Ahead(p)) = Len(sh[p].kids)
  BY DEF WaitsForItsChildren, Shells
<1>1. PICK kids \in Seq(Procs) : kids = sh[p].kids
  BY DEF ChildrenInv, CurrentInv, ListInv, PipesInv, TypeInv, ProcessOK, ShellState
<1>2. KidsOK(p) /\ Children(p) \subseteq Ahead(p)
  BY DEF ChildrenInv, CurrentInv, ListInv, PipesInv
<1>3. PICK n \in Nat : n = Len(kids) /\ DOMAIN kids = 1 .. n /\ kids \in [1 .. n -> Procs]
  BY <1>1
<1>4. Ahead(p) = {kids[i] : i \in 1 .. n}
  BY <1>1, <1>3 DEF Ahead
<1>5. Ahead(p) \subseteq Children(p)
  BY <1>1, <1>2, <1>3, <1>4 DEF KidsOK, Children
<1> DEFINE A == {kids[i] : i \in 1 .. n}
<1>6. kids \in Bijection(1 .. n, A)
  <2>1. kids \in [1 .. n -> A] /\ \A x \in A : \E i \in 1 .. n : kids[i] = x
    BY <1>3
  <2>2. \A i, j \in 1 .. n : kids[i] = kids[j] => i = j
    BY <1>1, <1>2, <1>3 DEF KidsOK
  <2> HIDE DEF A
  <2> QED BY <2>1, <2>2 DEF Bijection, Injection, Surjection, IsInjective
<1> HIDE DEF A
<1>7. Cardinality(A) = n
  BY <1>6, FS_CountingElements DEF ExistsBijection
<1> QED BY <1>1, <1>2, <1>3, <1>4, <1>5, <1>7 DEF A

\* README.md:228: if every command of every line has a word, the children of a
\* shell, running or ended, are those it is yet to wait for, each once; a prompt
\* finds none.  (A command without a word makes runPipeline return at once, and
\* what it started before is forgotten: command_loop.c:36.)
THEOREM ChildrenWaitedFor == LinesComplete => (Spec => []WaitsForItsChildren)
<1> SUFFICES ASSUME LinesComplete PROVE Spec => []WaitsForItsChildren
  OBVIOUS
<1>1. ChildrenInv /\ [Next]_vars => ChildrenInv'
  BY NextChildren
<1> QED BY <1>1, InitChildren, AllAhead, PTL DEF Spec

-----------------------------------------------------------------------------
\* $?, for lines whose only command, if it is one, is not pwd and has no
\* redirection.

\* What a shell is to wait for in runExternal exits: it does not write to a pipe.
PlainChild(c) ==
  /\ mode[c] = "child" => job[c].by = "runExternal"
  /\ mode[c] = "program" => stdout[c] \notin WriteEnds
  /\ mode[c] = "zombie" => status[c] # "killed"

\* $? is the last status but while a pipeline is waited for; nobody comes to run
\* a redirected command by itself.
StatusOK(p) ==
  /\ mode[p] = "child" => job[p].by # "runRedirectExternal"
  /\ mode[p] = "shell" => /\ sh[p].pc # "runRedirectExternal"
                          /\ sh[p].pc # "wait" => sh[p].qbuf = last[p]
                          /\ sh[p].pc = "runExternal" => PlainChild(sh[p].kids[1])
StatusInv ==
  /\ ListInv /\ last = [p \in Procs |-> last[p]]
  /\ \A p \in Procs : StatusOK(p)

LEMMA PlainLine ==
  ASSUME LinesPlain, ListInv, NEW p \in Procs
  PROVE  ~Builtin(p, "pwd") /\ ~Redirected(p)
<1> SUFFICES ASSUME Standalone(p)
             PROVE  /\ Current(p).command # "pwd"
                    /\ \/ Current(p).command \in {"cd", "exit"}
                       \/ Current(p).input = NULL /\ Current(p).output = NULL
  BY DEF Builtin, Redirected, Program
<1>1. ShellState(sh[p]) /\ PlaceOK(sh[p]) /\ sh[p].pc = "list" /\ ~(sh[p].at > 1)
  BY DEF ListInv, PipesInv, TypeInv, ProcessOK, Standalone, InList, HasPrev
<1>2. sh[p].at = 1
  BY <1>1 DEF ShellState, PlaceOK
<1>3. sh[p].list \in LineLists /\ sh[p].list # <<>> /\ ~(Len(sh[p].list) > 1)
  BY <1>1, <1>2 DEF ListInv, ListOK, Standalone, HasNext
<1> QED BY <1>2, <1>3 DEF LinesPlain, Current

\* The child of runExternal goes on, and exits.
LEMMA PlainKept ==
  ASSUME ~CtrlC, StatusInv, Step, NEW c \in Procs, mode[c] # "free", PlainChild(c)
  PROVE  PlainChild(c)'
<1>1. /\ PipesInv /\ TypeInv /\ ProcessOK(c) /\ mode = [r \in Procs |-> mode[r]]
      /\ job = [r \in Procs |-> job[r]] /\ stdout = [r \in Procs |-> stdout[r]]
      /\ status = [r \in Procs |-> status[r]]
  BY DEF StatusInv, ListInv, PipesInv, TypeInv, KernelTypes
<1>2. CASE mode'[c] = mode[c] /\ job'[c] = job[c] /\ stdout'[c] = stdout[c] /\ status'[c] = status[c]
  BY <1>2 DEF PlainChild
<1>3. CASE mode'[c] = "free"
  BY <1>3 DEF PlainChild
<1>4. ASSUME NEW p \in Procs, TalkStep(p) PROVE PlainChild(c)'
  BY <1>2, <1>4 DEF TalkStep, processVars
<1>5. ASSUME NEW p \in Procs, ReapStep(p) PROVE PlainChild(c)'
  <2>1. PICK x : Reap(x) /\ job' = job
    BY <1>5 DEF ReapStep
  <2> QED BY <1>1, <1>2, <1>3, <2>1 DEF Reap
<1>6. ASSUME NEW p \in Procs, ExecStep(p) PROVE PlainChild(c)'
  <2>1. CASE c = p
    <3>1. mode[c] = "child" /\ job[c].by # "runPipe" /\ mode'[c] = "program"
      BY <1>1, <1>6, <2>1 DEF ExecStep, PlainChild
    <3>2. stdout'[c] \in {Terminal, File}
      BY <1>6, <2>1, <3>1 DEF ExecStep
    <3> QED BY <3>1, <3>2, EndsApart DEF PlainChild
  <2>2. CASE c # p
    <3>1. mode'[c] = mode[c] /\ job'[c] = job[c] /\ stdout'[c] = stdout[c] /\ status' = status
      BY <1>1, <1>6, <2>2 DEF ExecStep
    <3> QED BY <1>2, <3>1
  <2> QED BY <2>1, <2>2
<1>7. ASSUME NEW p \in Procs, LoopStep(p) PROVE FALSE
  BY <1>7 DEF LoopStep, StatusInv, StatusOK
<1>8. ASSUME NEW S \in SUBSET Procs, NEW st \in Codes \cup {"killed"}, EndStep(S, st)
      PROVE  PlainChild(c)'
  <2>1. Exit(S, st) /\ S \subseteq Alive /\ \A p \in Procs \ S : job'[p] = job[p]
    BY <1>8 DEF EndStep
  <2>2. CASE c \in S
    <3>1. mode'[c] = "free" \/ (mode'[c] = "zombie" /\ status'[c] = st)
      <4>1. mode'[c] \in {"free", "zombie"}
        BY <2>1, <2>2, ExitEffect
      <4>2. status'[c] = IF mode'[c] = "free" THEN "0" ELSE IF c \in S THEN st ELSE status[c]
        BY <2>1 DEF Exit
      <4> QED BY <2>2, <4>1, <4>2
    <3>2. stdout[c] \notin WriteEnds
      BY <1>1, <2>1, <2>2, EndsApart DEF ProcessOK, PlainChild, Alive
    <3>3. st # "killed"
      BY <1>8, <2>2, <3>2 DEF EndStep
    <3> QED BY <3>1, <3>3 DEF PlainChild
  <2>3. CASE c \notin S
    <3>1. mode'[c] = "free" \/ (mode'[c] = mode[c] /\ status'[c] = status[c])
      BY <2>1, <2>3 DEF Exit
    <3>2. stdout'[c] = stdout[c] /\ job'[c] = job[c]
      BY <2>1, <2>3 DEF Exit
    <3> QED BY <1>2, <1>3, <3>1, <3>2
  <2> QED BY <2>2, <2>3
<1>9. ASSUME NEW p \in Procs, NEW x \in Procs, ForkStep(p, x) PROVE PlainChild(c)'
  <2>1. mode[x] = "free" /\ c # x
    BY <1>1, <1>9, ForkSettles
  <2>2. PICK opened, closed : Fork(p, x, opened, closed)
    BY <1>9 DEF ForkStep, StageStep, LastStep, LaunchStep
  <2>3. job'[c] = job[c]
    BY <1>1, <1>9, <2>1 DEF ForkStep, StageStep, LastStep, LaunchStep
  <2> QED BY <1>1, <1>2, <2>1, <2>2, <2>3 DEF Fork
<1>10. CASE DataStep
  BY <1>2, <1>10 DEF DataStep, shellVars
<1> QED BY <1>4, <1>5, <1>6, <1>7, <1>8, <1>9, <1>10, StepIs DEF QuietStep

\* A shell or a child that goes on as it was.
LEMMA StatusKept ==
  ASSUME ~CtrlC, StatusInv, Step, NEW q \in Procs, sh'[q] = sh[q], last'[q] = last[q],
         mode'[q] = "shell" => mode[q] = "shell",
         mode'[q] = "child" => mode[q] = "child" /\ job'[q] = job[q]
  PROVE  StatusOK(q)'
<1>1. ASSUME mode[q] = "shell", sh[q].pc = "runExternal" PROVE PlainChild(sh[q].kids[1])'
  <2>1. PICK kids \in Seq(Procs) : kids = sh[q].kids /\ kids # <<>>
    BY <1>1 DEF StatusInv, ListInv, PipesInv, TypeInv, ProcessOK, ShellState, PlaceOK, Waits
  <2>2. 1 \in DOMAIN kids /\ kids[1] \in Procs
    BY <2>1
  <2>3. mode[kids[1]] # "free"
    BY <2>1, <2>2 DEF StatusInv, ListInv, PipesInv, KidsOK
  <2>4. PlainChild(kids[1])
    BY <1>1, <2>1 DEF StatusInv, StatusOK
  <2> QED BY <2>1, <2>2, <2>3, <2>4, PlainKept
<1> QED BY <1>1 DEF StatusInv, StatusOK

LEMMA TalkStatusOK ==
  ASSUME LinesPlain, ~CtrlC, StatusInv, NEW p \in Procs, TalkStep(p), NEW q \in Procs
  PROVE  StatusOK(q)'
<1>1. /\ sh = [r \in Procs |-> sh[r]] /\ last = [r \in Procs |-> last[r]]
      /\ ShellState(sh[p]) /\ UNCHANGED <<mode, job>> /\ mode[p] = "shell"
      /\ sh' = [sh EXCEPT ![p] = sh'[p]] /\ StatusOK(p)
      /\ Step
  BY StepIs DEF StatusInv, ListInv, PipesInv, TypeInv, ProcessOK, TalkStep, processVars, QuietStep
<1>2. CASE sh'[q] = sh[q] /\ last'[q] = last[q]
  BY <1>1, <1>2, StatusKept
<1>3. CASE q # p
  <2>1. sh'[q] = sh[q]
    BY <1>1, <1>3
  <2>2. last'[q] = last[q]
    BY <1>1, <1>3 DEF TalkStep, TalkStatus
  <2> QED BY <1>2, <2>1, <2>2
<1>4. CASE q = p /\ sh'[p] # sh[p] /\ sh[p].pc = "prompt"
  <2>1. sh'[p] = [sh[p] EXCEPT !.pc = "list", !.list = sh'[p].list] /\ last' = last
    BY <1>4 DEF TalkStep
  <2>2. sh'[p].pc = "list" /\ sh'[p].qbuf = sh[p].qbuf
    BY <1>1, <2>1 DEF ShellState
  <2> QED BY <1>1, <1>4, <2>1, <2>2 DEF StatusOK
<1>5. CASE q = p /\ sh[p].pc = "list" /\ ~(sh'[p] = sh[p] /\ last' = last)
  <2>1. PICK text : sh'[p] = AtPrompt(text) /\ TalkStatus(p, text)
    BY <1>5 DEF TalkStep
  <2>2. sh'[p].pc = "prompt" /\ sh'[p].qbuf = text
    BY <2>1 DEF AtPrompt
  <2>3. ~Builtin(p, "pwd")
    BY PlainLine DEF StatusInv
  <2>4. last'[p] = text
    BY <1>1, <1>5, <2>1, <2>3 DEF TalkStatus, StatusOK
  <2> QED BY <1>1, <1>5, <2>2, <2>4 DEF StatusOK
<1> QED BY <1>2, <1>3, <1>4, <1>5 DEF TalkStep

LEMMA ReapStatusOK ==
  ASSUME ~CtrlC, StatusInv, NEW p \in Procs, ReapStep(p), NEW q \in Procs
  PROVE  StatusOK(q)'
<1>1. /\ sh = [r \in Procs |-> sh[r]] /\ last = [r \in Procs |-> last[r]]
      /\ mode = [r \in Procs |-> mode[r]]
      /\ ShellState(sh[p]) /\ PlaceOK(sh[p]) /\ sh[p].pc \in Waits /\ mode[p] = "shell"
      /\ sh' = [sh EXCEPT ![p] = sh'[p]] /\ job' = job /\ StatusOK(p)
      /\ Step
  BY StepIs DEF StatusInv, ListInv, PipesInv, TypeInv, KernelTypes, ProcessOK, ReapStep, QuietStep
<1>2. PICK kids \in Seq(Procs) : kids = sh[p].kids /\ kids # <<>>
  BY <1>1 DEF ShellState, PlaceOK
<1>3. PICK c \in Procs : c = kids[1] /\ c = Head(kids)
  BY <1>2
<1>4. mode[c] = "zombie" /\ mode' = [mode EXCEPT ![c] = "free"]
  BY <1>2, <1>3 DEF ReapStep, Reap
<1>5. CASE q # p
  <2>1. sh'[q] = sh[q] /\ last'[q] = last[q]
    BY <1>1, <1>5 DEF ReapStep, ReapStatus
  <2> QED BY <1>1, <1>4, <2>1, StatusKept
<1>6. CASE q = p
  <2>1. CASE ~(Tail(kids) = <<>> \/ sh[p].pc # "wait")
    <3>1. PICK text : sh'[p] = [sh[p] EXCEPT !.kids = Tail(kids), !.qbuf = text]
      BY <1>2, <2>1 DEF ReapStep
    <3>2. sh'[p].pc = "wait"
      BY <1>1, <2>1, <3>1 DEF ShellState
    <3> QED BY <1>1, <1>4, <1>6, <3>2 DEF StatusOK
  <2>2. CASE Tail(kids) = <<>> \/ sh[p].pc # "wait"
    <3>1. PICK text : sh'[p] = AtPrompt(text) /\ ReapStatus(p, c, text)
      BY <1>2, <1>3, <2>2 DEF ReapStep
    <3>2. sh'[p].pc = "prompt" /\ sh'[p].qbuf = text
      BY <3>1 DEF AtPrompt
    <3>3. sh[p].pc = "wait" \/ (sh[p].pc = "runExternal" /\ WIFEXITED(status[c]))
      BY <1>1, <1>2, <1>3, <1>4 DEF StatusOK, PlainChild, Waits, WIFEXITED
    <3>4. last'[p] = text
      BY <1>1, <3>1, <3>3 DEF ReapStatus
    <3> QED BY <1>1, <1>4, <1>6, <3>2, <3>4 DEF StatusOK
  <2> QED BY <2>1, <2>2
<1> QED BY <1>5, <1>6

LEMMA ChildStatusOK ==
  ASSUME ~CtrlC, StatusInv, NEW p \in Procs, ExecStep(p) \/ LoopStep(p), NEW q \in Procs
  PROVE  StatusOK(q)'
<1>1. /\ sh = [r \in Procs |-> sh[r]] /\ mode = [r \in Procs |-> mode[r]]
      /\ job = [r \in Procs |-> job[r]] /\ StatusOK(p) /\ Step
  BY StepIs DEF StatusInv, ListInv, PipesInv, TypeInv, KernelTypes, QuietStep
<1>2. /\ mode' = [mode EXCEPT ![p] = "program"] /\ job' = [job EXCEPT ![p] = NoJob]
      /\ sh' = [sh EXCEPT ![p] = sh'[p]] /\ last' = last
  BY <1>1 DEF ExecStep, LoopStep, StatusOK
<1>3. CASE q = p
  BY <1>1, <1>2, <1>3 DEF StatusOK
<1>4. CASE q # p
  BY <1>1, <1>2, <1>4, StatusKept
<1> QED BY <1>3, <1>4

LEMMA EndStatusOK ==
  ASSUME ~CtrlC, StatusInv, NEW S \in SUBSET Procs, NEW st \in Codes \cup {"killed"},
         EndStep(S, st), NEW q \in Procs
  PROVE  StatusOK(q)'
<1>1. Exit(S, st) /\ last' = last /\ Step
  BY StepIs DEF EndStep, QuietStep
<1>2. CASE q \in S
  <2>1. mode'[q] \in {"free", "zombie"}
    BY <1>1, <1>2, ExitEffect
  <2> QED BY <2>1 DEF StatusOK
<1>3. CASE q \notin S
  <2>1. mode'[q] \in {mode[q], "free"}
    BY <1>1, <1>3, ExitEffect
  <2>2. sh'[q] = sh[q] /\ job'[q] = job[q]
    BY <1>3 DEF EndStep
  <2> QED BY <1>1, <2>1, <2>2, StatusKept
<1> QED BY <1>2, <1>3

LEMMA ForkStatusOK ==
  ASSUME LinesPlain, ~CtrlC, StatusInv, NEW p \in Procs, NEW c \in Procs, ForkStep(p, c),
         NEW q \in Procs
  PROVE  StatusOK(q)'
<1>1. /\ sh = [r \in Procs |-> sh[r]] /\ last = [r \in Procs |-> last[r]]
      /\ mode = [r \in Procs |-> mode[r]] /\ job = [r \in Procs |-> job[r]]
      /\ ShellState(sh[p]) /\ PlaceOK(sh[p]) /\ StatusOK(p)
      /\ Step
  BY StepIs DEF StatusInv, ListInv, PipesInv, TypeInv, KernelTypes, ProcessOK
<1>2. /\ mode[p] = "shell" /\ mode[c] = "free" /\ p # c /\ sh[p].pc = "list"
      /\ mode'[c] = "child" /\ mode' = [mode EXCEPT ![c] = "child"]
  <2>1. mode[p] = "shell" /\ mode[c] = "free" /\ p # c /\ sh[p].pc = "list" /\ mode'[c] = "child"
    BY ForkSettles DEF StatusInv, ListInv
  <2> QED BY <2>1 DEF ForkStep, StageStep, LastStep, LaunchStep, Fork
<1>3. /\ \A r \in Procs \ {c} : job'[r] = job[r] /\ last'[r] = last[r]
      /\ \A r \in Procs \ {p, c} : sh'[r] = sh[r]
  <2>1. CASE (\E k \in Pipes : StageStep(p, c, k)) \/ LastStep(p, c)
    BY <1>1, <2>1 DEF StageStep, NextStage, LastStep
  <2>2. CASE LaunchStep(p, c)
    BY <1>1, <2>2 DEF LaunchStep
  <2> QED BY <2>1, <2>2 DEF ForkStep
<1>4. CASE q # p /\ q # c
  <2>1. /\ sh'[q] = sh[q] /\ last'[q] = last[q] /\ job'[q] = job[q] /\ mode'[q] = mode[q]
    BY <1>1, <1>2, <1>3, <1>4
  <2> QED BY <1>1, <2>1, StatusKept
<1>5. CASE \E k \in Pipes : StageStep(p, c, k)
  <2>1. job'[c].by = "runPipe"
    BY <1>1, <1>5 DEF StageStep
  <2>2. sh'[p].pc = sh[p].pc /\ sh'[p].qbuf = sh[p].qbuf
    BY <1>1, <1>5 DEF StageStep, NextStage, ShellState
  <2> QED BY <1>1, <1>2, <1>3, <1>4, <2>1, <2>2 DEF StatusOK
<1>6. CASE LastStep(p, c)
  <2>1. job'[c].by = "runPipe"
    BY <1>1, <1>6 DEF LastStep
  <2>2. sh'[p].pc = "wait"
    BY <1>1, <1>6 DEF LastStep, ShellState
  <2> QED BY <1>1, <1>2, <1>3, <1>4, <2>1, <2>2 DEF StatusOK
<1>7. CASE LaunchStep(p, c)
  <2> DEFINE by == job'[c].by
  <2>1. /\ by \in {"runExternal", "runRedirectExternal"}
        /\ by = "runRedirectExternal" => Redirected(p)
        /\ sh' = [sh EXCEPT ![p].pc = by, ![p].kids = <<c>>, ![c] = AtPrompt(sh[p].qbuf)]
    BY <1>7 DEF LaunchStep
  <2>2. by = "runExternal"
    BY <2>1, PlainLine DEF StatusInv
  <2> HIDE DEF by
  <2>3. sh'[p].pc = by /\ sh'[p].kids = <<c>> /\ sh'[p].qbuf = sh[p].qbuf
    BY <1>1, <1>2, <2>1 DEF ShellState
  <2>4. sh'[p].kids[1] = c
    BY <2>3
  <2>5. PlainChild(c)'
    BY <1>2, <2>2 DEF PlainChild, by
  <2>6. PlainChild(sh[p].kids[1])'
    BY <2>4, <2>5
  <2>7. StatusOK(p)'
    BY <1>1, <1>2, <1>3, <2>2, <2>3, <2>6 DEF StatusOK
  <2>8. StatusOK(c)'
    BY <1>2, <2>2 DEF StatusOK, by
  <2> QED BY <1>4, <2>7, <2>8
<1> QED BY <1>5, <1>6, <1>7 DEF ForkStep

LEMMA NextStatus == LinesPlain /\ ~CtrlC /\ StatusInv /\ [Next]_vars => StatusInv'
<1> SUFFICES ASSUME LinesPlain, ~CtrlC, StatusInv, [Next]_vars PROVE StatusInv'
  OBVIOUS
<1>1. ListInv' /\ TypeInv /\ last = [p \in Procs |-> last[p]]
  BY ListStep DEF StatusInv, ListInv, PipesInv
<1>2. CASE UNCHANGED vars
  <2>1. mode' = mode /\ job' = job /\ sh' = sh /\ last' = last /\ stdout' = stdout /\ status' = status
    BY <1>2 DEF vars, processVars, shellVars
  <2> QED BY <1>1, <2>1 DEF StatusInv, StatusOK, PlainChild
<1>3. CASE Step
  <2>1. last' = [p \in Procs |-> last'[p]]
    <3>1. CASE last' = last
      BY <1>1, <3>1
    <3>2. ASSUME NEW p \in Procs, TalkStep(p) PROVE last' = [r \in Procs |-> last'[r]]
      BY <1>1, <3>2 DEF TalkStep, TalkStatus
    <3>3. ASSUME NEW p \in Procs, ReapStep(p) PROVE last' = [r \in Procs |-> last'[r]]
      BY <1>1, <3>3 DEF ReapStep, ReapStatus
    <3>4. ASSUME NEW p \in Procs, NEW c \in Procs, ForkStep(p, c)
          PROVE  last' = [r \in Procs |-> last'[r]]
      BY <1>1, <3>4 DEF ForkStep, StageStep, LastStep, LaunchStep
    <3>5. ASSUME NEW p \in Procs, ExecStep(p) \/ LoopStep(p) PROVE last' = last
      BY <3>5 DEF ExecStep, LoopStep
    <3>6. ASSUME NEW S, NEW st, EndStep(S, st) PROVE last' = last
      BY <3>6 DEF EndStep
    <3>7. DataStep => last' = last
      BY DEF DataStep, shellVars
    <3> QED BY <1>3, <3>1, <3>2, <3>3, <3>4, <3>5, <3>6, <3>7, StepIs DEF QuietStep
  <2>2. ASSUME NEW q \in Procs PROVE StatusOK(q)'
    <3>1. CASE DataStep
      <4>1. mode' = mode /\ job' = job /\ sh' = sh /\ last' = last
        BY <3>1 DEF DataStep, shellVars
      <4> QED BY <1>3, <4>1, StatusKept
    <3>2. CASE \E p \in Procs : TalkStep(p) \/ ReapStep(p) \/ ExecStep(p) \/ LoopStep(p)
      BY <3>2, TalkStatusOK, ReapStatusOK, ChildStatusOK
    <3>3. CASE \E S \in SUBSET Procs, st \in Codes \cup {"killed"} : EndStep(S, st)
      BY <3>3, EndStatusOK
    <3>4. CASE \E p, c \in Procs : ForkStep(p, c)
      BY <3>4, ForkStatusOK
    <3> QED BY <1>3, <3>1, <3>2, <3>3, <3>4, StepIs DEF QuietStep
  <2> QED BY <1>1, <2>1, <2>2 DEF StatusInv
<1> QED BY <1>1, <1>2, <1>3, Kinds

LEMMA InitStatus == Init => StatusInv
<1> SUFFICES ASSUME Init PROVE StatusInv
  OBVIOUS
<1>1. ListInv /\ last = [p \in Procs |-> last[p]]
  BY InitLists DEF Init
<1>2. ASSUME NEW p \in Procs PROVE StatusOK(p)
  BY DEF Init, KernelInit, AtPrompt, StatusOK
<1> QED BY <1>1, <1>2 DEF StatusInv

\* README.md:161: $? is the exit status of the most recent pipeline, if a command
\* by itself is not pwd and has no redirection, and nobody types ^C
\* (standaloneCommand keeps a status in one of its branches only, and only of a
\* program that exited).
THEOREM StatusIsKept == LinesPlain /\ ~CtrlC => (Spec => []StatusIsLast)
<1> SUFFICES ASSUME LinesPlain, ~CtrlC PROVE Spec => []StatusIsLast
  OBVIOUS
<1>1. StatusInv /\ [Next]_vars => StatusInv'
  BY NextStatus
<1>2. StatusInv => StatusIsLast
  BY DEF StatusInv, StatusOK, StatusIsLast, Prompting
<1> QED BY <1>1, <1>2, InitStatus, PTL DEF Spec

-----------------------------------------------------------------------------
\* The descriptors, for lines of at most two commands.

\* A shell keeps the read end of the pipe to the command that comes next, and no
\* other; nor does a child of standaloneCommand hold any.
HeldOK(p) ==
  /\ mode[p] = "shell" => held[p] = IF sh[p].pc = "list" THEN {sh[p].prev} \ {NULL} ELSE {}
  /\ mode[p] = "child" /\ job[p].by # "runPipe" => held[p] = {}
HeldInv == CurrentInv /\ \A p \in Procs : HeldOK(p)

LEMMA HeldKept ==
  ASSUME NEW q \in Procs, HeldOK(q), sh'[q] = sh[q], held'[q] = held[q], mode'[q] = mode[q],
         job'[q] = job[q]
  PROVE  HeldOK(q)'
BY DEF HeldOK

LEMMA TalkHeld ==
  ASSUME LinesComplete, HeldInv, NEW p \in Procs, TalkStep(p), NEW q \in Procs
  PROVE  HeldOK(q)'
<1>1. /\ sh = [r \in Procs |-> sh[r]] /\ ShellState(sh[p]) /\ PlaceOK(sh[p])
      /\ UNCHANGED <<mode, held, job>> /\ mode[p] = "shell" /\ sh' = [sh EXCEPT ![p] = sh'[p]]
      /\ HeldOK(p) /\ HeldOK(q)
  BY DEF HeldInv, CurrentInv, ListInv, PipesInv, TypeInv, ProcessOK, TalkStep, processVars
<1>2. CASE sh'[q] = sh[q]
  BY <1>1, <1>2, HeldKept
<1>3. CASE sh'[q] # sh[q]
  <2>1. q = p
    BY <1>1, <1>3
  <2>2. CASE sh[p].pc = "prompt"
    <3>1. sh'[p] = [sh[p] EXCEPT !.pc = "list", !.list = sh'[p].list]
      BY <1>3, <2>1, <2>2 DEF TalkStep
    <3>2. sh'[p].prev = sh[p].prev /\ sh[p].prev = NULL
      BY <1>1, <2>2, <3>1 DEF ShellState, PlaceOK
    <3>3. held[p] = {}
      BY <1>1, <2>2 DEF HeldOK
    <3>4. {sh'[p].prev} \ {NULL} = {}
      BY <3>2
    <3> QED BY <1>1, <2>1, <3>3, <3>4 DEF HeldOK
  <2>3. CASE sh[p].pc = "list"
    <3>1. PICK text : sh'[p] = AtPrompt(text) /\ sh[p].at = 1
      BY <1>3, <2>1, <2>3, TalkReturns DEF HeldInv
    <3>2. sh[p].prev = NULL
      BY <1>1, <2>3, <3>1 DEF PlaceOK
    <3>3. held[p] = {}
      BY <1>1, <2>3, <3>2 DEF HeldOK
    <3>4. sh'[p].pc = "prompt"
      BY <3>1 DEF AtPrompt
    <3> QED BY <1>1, <2>1, <3>3, <3>4 DEF HeldOK
  <2> QED BY <1>3, <2>1, <2>2, <2>3 DEF TalkStep
<1> QED BY <1>2, <1>3

LEMMA ReapHeld ==
  ASSUME HeldInv, NEW p \in Procs, ReapStep(p), NEW q \in Procs
  PROVE  HeldOK(q)'
<1>1. /\ sh = [r \in Procs |-> sh[r]] /\ mode = [r \in Procs |-> mode[r]]
      /\ ShellState(sh[p]) /\ sh[p].pc \in Waits /\ mode[p] = "shell"
      /\ sh' = [sh EXCEPT ![p] = sh'[p]] /\ UNCHANGED <<held, job>>
      /\ HeldOK(p) /\ HeldOK(q)
  BY DEF HeldInv, CurrentInv, ListInv, PipesInv, TypeInv, KernelTypes, ProcessOK, ReapStep, Reap
<1>2. PICK c : mode[c] = "zombie" /\ mode' = [mode EXCEPT ![c] = "free"]
  BY DEF ReapStep, Reap
<1>3. CASE q # p
  <2>1. sh'[q] = sh[q] /\ mode'[q] \in {mode[q], "free"}
    BY <1>1, <1>2, <1>3
  <2> QED BY <1>1, <2>1 DEF HeldOK
<1>4. CASE q = p
  <2>1. held[p] = {}
    BY <1>1 DEF HeldOK, Waits
  <2>2. PICK text, kids : sh'[p] = AtPrompt(text)
                          \/ sh'[p] = [sh[p] EXCEPT !.kids = kids, !.qbuf = text]
    BY DEF ReapStep
  <2>3. sh'[p].pc # "list"
    <3>1. CASE sh'[p] = AtPrompt(text)
      BY <3>1 DEF AtPrompt
    <3>2. CASE sh'[p] = [sh[p] EXCEPT !.kids = kids, !.qbuf = text]
      <4>1. sh'[p].pc = sh[p].pc
        BY <1>1, <3>2 DEF ShellState
      <4> QED BY <1>1, <4>1 DEF Waits
    <3> QED BY <2>2, <3>1, <3>2
  <2>4. mode'[p] = "shell"
    BY <1>1, <1>2
  <2> QED BY <1>1, <1>4, <2>1, <2>3, <2>4 DEF HeldOK
<1> QED BY <1>3, <1>4

LEMMA ChildHeld ==
  ASSUME HeldInv, NEW p \in Procs, ExecStep(p) \/ LoopStep(p), NEW q \in Procs
  PROVE  HeldOK(q)'
<1>1. /\ sh = [r \in Procs |-> sh[r]] /\ mode = [r \in Procs |-> mode[r]]
      /\ job = [r \in Procs |-> job[r]] /\ held = [r \in Procs |-> held[r]]
      /\ mode[p] = "child" /\ sh[p].pc = "prompt" /\ HeldOK(p) /\ HeldOK(q)
  BY DEF HeldInv, CurrentInv, ListInv, PipesInv, TypeInv, KernelTypes, ProcessOK, ExecStep, LoopStep
<1>2. /\ job' = [job EXCEPT ![p] = NoJob] /\ sh' = [sh EXCEPT ![p] = sh'[p]]
      /\ mode' = [mode EXCEPT ![p] = mode'[p]] /\ held' = [held EXCEPT ![p] = held'[p]]
  BY <1>1 DEF ExecStep, LoopStep
<1>3. CASE q # p
  BY <1>1, <1>2, <1>3, HeldKept
<1>4. CASE q = p /\ ExecStep(p)
  <2>1. mode'[p] = "program"
    BY <1>1, <1>4 DEF ExecStep
  <2> QED BY <1>4, <2>1 DEF HeldOK
<1>5. CASE q = p /\ LoopStep(p)
  <2>1. mode'[p] = "shell" /\ held'[p] = {} /\ sh'[p].pc = "prompt"
    BY <1>1, <1>5 DEF LoopStep, HeldOK
  <2> QED BY <1>5, <2>1 DEF HeldOK
<1> QED BY <1>3, <1>4, <1>5

LEMMA EndHeld ==
  ASSUME HeldInv, NEW S \in SUBSET Procs, NEW st, EndStep(S, st), NEW q \in Procs
  PROVE  HeldOK(q)'
<1>1. Exit(S, st) /\ HeldOK(q)
  BY DEF EndStep, HeldInv
<1>2. CASE q \in S
  <2>1. mode'[q] \in {"free", "zombie"}
    BY <1>1, <1>2, ExitEffect
  <2> QED BY <2>1 DEF HeldOK
<1>3. CASE q \notin S
  <2>1. mode'[q] \in {mode[q], "free"} /\ held'[q] = held[q]
    BY <1>1, <1>3, ExitEffect
  <2>2. sh'[q] = sh[q] /\ job'[q] = job[q]
    BY <1>3 DEF EndStep
  <2> QED BY <1>1, <2>1, <2>2 DEF HeldOK
<1> QED BY <1>2, <1>3

\* A list of two has a pipe between them, and the first command makes it.
LEMMA ForkHeld ==
  ASSUME LinesComplete, AtMostTwo, HeldInv, NEW p \in Procs, NEW c \in Procs, ForkStep(p, c),
         NEW q \in Procs
  PROVE  HeldOK(q)'
<1>1. /\ sh = [r \in Procs |-> sh[r]] /\ mode = [r \in Procs |-> mode[r]]
      /\ job = [r \in Procs |-> job[r]] /\ held = [r \in Procs |-> held[r]]
      /\ ShellState(sh[p]) /\ PlaceOK(sh[p]) /\ HeldOK(p) /\ HeldOK(q)
  BY DEF HeldInv, CurrentInv, ListInv, PipesInv, TypeInv, KernelTypes, ProcessOK
<1>2. mode[p] = "shell" /\ mode[c] = "free" /\ p # c /\ sh[p].pc = "list" /\ mode'[c] = "child"
  BY ForkSettles DEF HeldInv, CurrentInv, ListInv
<1>3. held[p] = {sh[p].prev} \ {NULL}
  BY <1>1, <1>2 DEF HeldOK
<1>4. CASE q # p /\ q # c
  <2>1. mode'[q] = mode[q] /\ held'[q] = held[q]
    BY <1>1, <1>4 DEF ForkStep, StageStep, LastStep, LaunchStep, Fork
  <2>2. job'[q] = job[q] /\ sh'[q] = sh[q]
    <3>1. CASE (\E k \in Pipes : StageStep(p, c, k)) \/ LastStep(p, c)
      BY <1>1, <1>4, <3>1 DEF StageStep, NextStage, LastStep
    <3>2. CASE LaunchStep(p, c)
      BY <1>1, <1>4, <3>2 DEF LaunchStep
    <3> QED BY <3>1, <3>2 DEF ForkStep
  <2> QED BY <1>1, <2>1, <2>2, HeldKept
<1>5. ASSUME NEW k \in Pipes, StageStep(p, c, k) PROVE HeldOK(p)' /\ HeldOK(c)'
  <2>1. sh[p].at = 1
    <3>1. sh[p].at \in 1 .. Len(sh[p].list) /\ Len(sh[p].list) \in Nat /\ Len(sh[p].list) <= 2
      BY <1>2, ListIsSeq DEF HeldInv, CurrentInv, CurrentOK, ListInv, ListOK, AtMostTwo
    <3>2. sh[p].at < Len(sh[p].list)
      BY <1>5 DEF StageStep, HasNext
    <3> QED BY <3>1, <3>2
  <2>2. held[p] = {}
    BY <1>1, <1>2, <1>3, <2>1 DEF PlaceOK
  <2>3. held'[p] = {ReadEnd(k)}
    <3>1. held'[p] = (held[p] \cup {ReadEnd(k), WriteEnd(k)}) \ {WriteEnd(k)}
      BY <1>1, <1>2, <1>5 DEF StageStep, Fork
    <3>2. ReadEnd(k) # WriteEnd(k)
      BY EndsApart
    <3> QED BY <2>2, <3>1, <3>2
  <2>4. sh'[p].pc = "list" /\ sh'[p].prev = ReadEnd(k) /\ ReadEnd(k) # NULL
    BY <1>1, <1>2, <1>5, EndsApart DEF StageStep, NextStage, ShellState
  <2>5. job'[c].by = "runPipe"
    BY <1>1, <1>5 DEF StageStep
  <2>6. mode'[p] = "shell"
    BY <1>1, <1>2, <1>5 DEF StageStep, Fork
  <2>7. {sh'[p].prev} \ {NULL} = {ReadEnd(k)}
    BY <2>4
  <2> QED BY <1>2, <2>3, <2>4, <2>5, <2>6, <2>7 DEF HeldOK
<1>6. CASE LastStep(p, c)
  <2>1. held'[p] = {}
    <3>1. held'[p] = (held[p] \cup {}) \ {sh[p].prev}
      BY <1>1, <1>2, <1>6 DEF LastStep, Fork
    <3> QED BY <1>3, <3>1
  <2>2. sh'[p].pc = "wait"
    BY <1>1, <1>6 DEF LastStep, ShellState
  <2>3. job'[c].by = "runPipe"
    BY <1>1, <1>6 DEF LastStep
  <2>4. mode'[p] = "shell"
    BY <1>1, <1>2, <1>6 DEF LastStep, Fork
  <2> QED BY <1>2, <1>4, <2>1, <2>2, <2>3, <2>4 DEF HeldOK
<1>7. CASE LaunchStep(p, c)
  <2>1. held[p] = {}
    BY <1>1, <1>2, <1>3, <1>7 DEF LaunchStep, PlaceOK
  <2>2. held'[p] = {} /\ held'[c] = {} /\ mode'[p] = "shell"
    <3>1. /\ held'[p] = (held[p] \cup {}) \ {} /\ held'[c] = held[p] \cup {}
          /\ mode'[p] = "shell"
      BY <1>1, <1>2, <1>7 DEF LaunchStep, Fork
    <3> QED BY <2>1, <3>1
  <2> DEFINE by == job'[c].by
  <2>3. /\ by \in {"runExternal", "runRedirectExternal"}
        /\ sh' = [sh EXCEPT ![p].pc = by, ![p].kids = <<c>>, ![c] = AtPrompt(sh[p].qbuf)]
    BY <1>7 DEF LaunchStep
  <2> HIDE DEF by
  <2>4. sh'[p].pc # "list"
    BY <1>1, <1>2, <2>3 DEF ShellState
  <2> QED BY <1>2, <1>4, <2>2, <2>4 DEF HeldOK
<1> QED BY <1>4, <1>5, <1>6, <1>7 DEF ForkStep

LEMMA NextHeld == LinesComplete /\ AtMostTwo /\ HeldInv /\ [Next]_vars => HeldInv'
<1> SUFFICES ASSUME LinesComplete, AtMostTwo, HeldInv, [Next]_vars PROVE HeldInv'
  OBVIOUS
<1>1. CurrentInv' /\ TypeInv
  BY CurrentStep DEF HeldInv, CurrentInv, ListInv, PipesInv
<1>2. ASSUME NEW q \in Procs PROVE HeldOK(q)'
  <2>1. CASE DataStep \/ UNCHANGED vars
    <3>1. UNCHANGED <<mode, job, sh, held>>
      BY <2>1 DEF DataStep, shellVars, vars, processVars
    <3> QED BY <3>1, HeldKept DEF HeldInv
  <2>2. CASE \E p \in Procs : TalkStep(p) \/ ReapStep(p) \/ ExecStep(p) \/ LoopStep(p)
    BY <2>2, TalkHeld, ReapHeld, ChildHeld
  <2>3. CASE \E S \in SUBSET Procs, st \in Codes \cup {"killed"} : EndStep(S, st)
    BY <2>3, EndHeld
  <2>4. CASE \E p, c \in Procs : ForkStep(p, c)
    BY <2>4, ForkHeld
  <2> QED BY <1>1, <2>1, <2>2, <2>3, <2>4, Kinds, StepIs DEF QuietStep
<1> QED BY <1>1, <1>2 DEF HeldInv

LEMMA InitHeld == Init => HeldInv
<1> SUFFICES ASSUME Init, NEW p \in Procs PROVE HeldOK(p)
  BY InitCurrent DEF HeldInv
<1> QED BY DEF Init, KernelInit, AtPrompt, HeldOK

\* README.md:200: if a line has two commands at most, each with a word, a prompt
\* finds no pipe end open, in the shell or in one that a redirection made of a
\* child.  (With a third command the read end of the first pipe stays open:
\* command_loop.c never closes prev before it overwrites it.)
THEOREM NothingLeftOpen == LinesComplete /\ AtMostTwo => (Spec => []DescriptorsClosed)
<1> SUFFICES ASSUME LinesComplete, AtMostTwo PROVE Spec => []DescriptorsClosed
  OBVIOUS
<1>1. HeldInv /\ [Next]_vars => HeldInv'
  BY NextHeld
<1>2. HeldInv => DescriptorsClosed
  BY DEF HeldInv, HeldOK, DescriptorsClosed, Prompting
<1> QED BY <1>1, <1>2, InitHeld, PTL DEF Spec

===============================================================================
