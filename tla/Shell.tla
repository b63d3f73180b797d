-------------------------------- MODULE Shell --------------------------------
(***************************************************************************)
(* The interactive shell: shell56.c's loop, runPipeline and                *)
(* standaloneCommand (command_loop.c), runExternal and runPipe             *)
(* (external_commands.c), and the builtins and runRedirectExternal         *)
(* (internal_commands.c).  A step goes from one call that can block or     *)
(* that other processes notice to the next one.  The forked children that  *)
(* run the shell's code are processes of their own, and one of them may    *)
(* become a second shell.  README.md is the shell's.                       *)
(***************************************************************************)
EXTENDS Processes, CommandList

CONSTANTS Lines,         \* what the user may type, as tokens
          MaxLines,      \* bound: lines typed in all
          Codes,         \* the texts of exit statuses
          OpenFails,     \* files that cannot be opened
          ChmodFails,    \* files that belong to somebody else
          UnsetIsZero,   \* what a redirect never written may be: {TRUE} if zero
          CtrlC          \* whether the user types ^C

ASSUME ShellOK ==
  /\ {"0", "1"} \subseteq Codes /\ "killed" \notin Codes
  /\ MaxLines \in Nat
  /\ UnsetIsZero \in (SUBSET BOOLEAN) \ {{}} /\ CtrlC \in BOOLEAN
  /\ NULL \notin Ends \cup Pipes

VARIABLES sh,      \* of each process: the locals of main and of runPipeline
          job,     \* of each child: the function that forked it, and its arguments
          lines,   \* lines typed so far
          last     \* history: the exit status of the last pipeline
shellVars == <<sh, job, lines, last>>
vars == <<processVars, shellVars>>

Unwritten == "unwritten"   \* what qbuf is before anything is written to it

\* WEXITSTATUS is 0 for a process that a signal ended.
WEXITSTATUS(st) == IF st = "killed" THEN "0" ELSE st
WIFEXITED(st) == st # "killed"

\* In the loop, with no list, pipe or child.
AtPrompt(qbuf) ==
  [ pc |-> "prompt", list |-> <<>>, at |-> 1, prev |-> NULL, kids |-> <<>>,
    qbuf |-> qbuf ]
NoJob == [ by |-> "nobody", command |-> NULL, in |-> NULL, out |-> NULL ]

Init ==
  /\ KernelInit
  /\ sh = [p \in Procs |-> AtPrompt(Unwritten)]
  /\ job = [p \in Procs |-> NoJob]
  /\ lines = 0
  /\ last = [p \in Procs |-> Unwritten]

Shells == {p \in Procs : mode[p] = "shell"}

-----------------------------------------------------------------------------
\* The loop of main.

\* The tokens that are $? point to qbuf.
Expand(tokens, qbuf) ==
  [i \in DOMAIN tokens |-> IF tokens[i] = "$?" THEN qbuf ELSE tokens[i]]

\* A shell reads lines from its standard input, whatever that is.
read_line(p) ==
  /\ sh[p].pc = "prompt" /\ lines < MaxLines
  /\ lines' = lines + 1
  /\ \E tokens \in Lines :
       LET list == buildCommandList(Expand(tokens, sh[p].qbuf)) IN
       sh' = IF list = <<>> THEN sh
             ELSE [sh EXCEPT ![p].pc = "list", ![p].list = list]
  /\ UNCHANGED <<processVars, job, last>>

end_of_input(p) ==
  /\ sh[p].pc = "prompt"
  /\ Exit({p}, "0")
  /\ sh' = [sh EXCEPT ![p] = AtPrompt(Unwritten)]
  /\ UNCHANGED <<job, lines, last>>

-----------------------------------------------------------------------------
\* The loop of runPipeline over the list.

Current(p) == sh[p].list[sh[p].at]
InList(p) == sh[p].pc = "list"
HasNext(p) == sh[p].at < Len(sh[p].list)
HasPrev(p) == sh[p].at > 1

\* runPipeline returns with this text in qbuf.
Returns(p, qbuf) == sh' = [sh EXCEPT ![p] = AtPrompt(qbuf)]
Ended(p, st) == last' = [last EXCEPT ![p] = WEXITSTATUS(st)]

\* A command without words ends it, whatever was started before.
no_command(p) ==
  /\ InList(p) /\ Current(p).command = NULL
  /\ Returns(p, sh[p].qbuf)
  /\ UNCHANGED <<processVars, job, lines, last>>

\* One command with && behind it belongs to no branch.
only_and(p) ==
  /\ InList(p) /\ Current(p).command # NULL
  /\ ~HasNext(p) /\ ~HasPrev(p) /\ Current(p).and
  /\ Returns(p, sh[p].qbuf)
  /\ UNCHANGED <<processVars, job, lines, last>>

Standalone(p) ==
  InList(p) /\ Current(p).command # NULL /\ ~HasNext(p) /\ ~HasPrev(p) /\ ~Current(p).and

\* runPipe: forks c for the current command, with these descriptors for 0 and 1
\* (NULL: as they are).
runPipe(p, c, in, out, opened, closed) ==
  /\ Fork(p, c, opened, closed)
  /\ job' = [job EXCEPT ![c] =
       [ by |-> "runPipe", command |-> Current(p), in |-> in, out |-> out ]]
  /\ UNCHANGED <<lines, last>>

\* What the shell closes after the fork: the write end of the pipe it made, k,
\* or, after the last command (NULL), the read end of the pipe before.
closes_KeepsWrite(p, k) == IF k = NULL THEN {sh[p].prev} ELSE {}
closes_KeepsRead(p, k) == IF k = NULL THEN {} ELSE {WriteEnd(k)}
closes(p, k) == IF k = NULL THEN {sh[p].prev} ELSE {WriteEnd(k)}

\* The first command and those in the middle make the pipe to the next one.
PipeStage(p) == InList(p) /\ Current(p).command # NULL /\ HasNext(p)
NextStage_Overwrites(p, c, k) ==   \* slip: child_count stays
  sh' = [sh EXCEPT ![p].at = @ + 1, ![p].prev = ReadEnd(k), ![p].kids = <<c>>]
NextStage_OldPipe(p, c, k) ==      \* slip: the first pipe stays the previous one
  sh' = [sh EXCEPT ![p].at = @ + 1, ![p].prev = IF HasPrev(p) THEN @ ELSE ReadEnd(k),
                   ![p].kids = Append(@, c)]
NextStage(p, c, k) ==
  sh' = [sh EXCEPT ![p].at = @ + 1, ![p].prev = ReadEnd(k), ![p].kids = Append(@, c)]
NewBytes(k) == bytes' = [bytes EXCEPT ![k] = 0]

first_stage(p) ==
  /\ PipeStage(p) /\ ~HasPrev(p)
  /\ FreeProcs # {} /\ FreePipes # {}
  /\ LET c == NewProc
         k == NewPipe IN
     /\ runPipe(p, c, NULL, WriteEnd(k), {ReadEnd(k), WriteEnd(k)}, closes(p, k))
     /\ NextStage(p, c, k)
     /\ NewBytes(k)

\* The read end of the pipe before stays open in the shell.
middle_stage(p) ==
  /\ PipeStage(p) /\ HasPrev(p)
  /\ FreeProcs # {} /\ FreePipes # {}
  /\ LET c == NewProc
         k == NewPipe IN
     /\ runPipe(p, c, sh[p].prev, WriteEnd(k), {ReadEnd(k), WriteEnd(k)}, closes(p, k))
     /\ NextStage(p, c, k)
     /\ NewBytes(k)

last_stage(p) ==
  /\ InList(p) /\ Current(p).command # NULL /\ ~HasNext(p) /\ HasPrev(p)
  /\ FreeProcs # {}
  /\ LET c == NewProc IN
     /\ runPipe(p, c, sh[p].prev, NULL, {}, closes(p, NULL))
     /\ sh' = [sh EXCEPT ![p].pc = "wait", ![p].kids = Append(@, c)]
  /\ UNCHANGED bytes

\* Without a process the shell exits.
fork_fails(p) ==
  /\ InList(p) /\ Current(p).command # NULL /\ (HasNext(p) \/ HasPrev(p))
  /\ FreeProcs = {}
  /\ Exit({p}, "1")
  /\ sh' = [sh EXCEPT ![p] = AtPrompt(Unwritten)]
  /\ UNCHANGED <<job, lines, last>>

\* The children are waited for in order; each status overwrites qbuf.  (Slip:
\* only a 0 does, as if the second branch of the test were missing.)
stage_status_Zero(old, st) == IF WEXITSTATUS(st) = "0" THEN "0" ELSE old
stage_status(old, st) == WEXITSTATUS(st)
wait_stage(p) ==
  /\ sh[p].pc = "wait"
  /\ LET c == Head(sh[p].kids)
         rest == Tail(sh[p].kids) IN
     /\ mode[c] = "zombie"
     /\ Reap(c)
     /\ IF rest = <<>>
        THEN Returns(p, stage_status(sh[p].qbuf, status[c])) /\ Ended(p, status[c])
        ELSE /\ sh' = [sh EXCEPT ![p].kids = rest, ![p].qbuf = stage_status(@, status[c])]
             /\ UNCHANGED last
  /\ UNCHANGED <<job, lines>>

-----------------------------------------------------------------------------
\* standaloneCommand: a builtin, a redirected command or a plain one.

Builtin(p, name) == Standalone(p) /\ Current(p).command = name

runpwd(p) ==
  /\ Builtin(p, "pwd")
  /\ Returns(p, sh[p].qbuf) /\ Ended(p, "0")
  /\ UNCHANGED <<processVars, job, lines>>

\* chdir may fail.
runcd(p) ==
  /\ Builtin(p, "cd")
  /\ \E st \in IF Len(Current(p).args) > 2 THEN {"1"} ELSE {"0", "1"} :
       Returns(p, st) /\ Ended(p, st)
  /\ UNCHANGED <<processVars, job, lines>>

atoi_Raw(text) == text   \* slip: no conversion
atoi(text) == IF text \in Codes THEN text ELSE "0"

runexit(p) ==
  /\ Builtin(p, "exit")
  /\ LET args == Tail(Current(p).args) IN
     IF Len(args) > 1
     THEN /\ Returns(p, "1") /\ Ended(p, "1")
          /\ UNCHANGED processVars
     ELSE /\ Exit({p}, IF args = <<>> THEN "0" ELSE atoi(args[1]))
          /\ sh' = [sh EXCEPT ![p] = AtPrompt(Unwritten)]
          /\ UNCHANGED last
  /\ UNCHANGED <<job, lines>>

Program(p) == Standalone(p) /\ Current(p).command \notin {"pwd", "cd", "exit"}
Redirected(p) == Program(p) /\ (Current(p).input # NULL \/ Current(p).output # NULL)

\* The shell forks c, and waits for it.
Launch(p, c, by, in, out) ==
  /\ Fork(p, c, {}, {})
  /\ job' = [job EXCEPT ![c] =
       [ by |-> by, command |-> Current(p), in |-> in, out |-> out ]]
  /\ sh' = [sh EXCEPT ![p].pc = by, ![p].kids = <<c>>, ![c] = AtPrompt(sh[p].qbuf)]
  /\ last' = [last EXCEPT ![c] = last[p]]
  /\ UNCHANGED <<bytes, lines>>

\* Nothing is run: redirect is 0, or there is no process.
CannotRun(p) ==
  /\ Returns(p, sh[p].qbuf)
  /\ UNCHANGED <<processVars, job, lines, last>>

runExternal(p) ==
  /\ Program(p) /\ ~Redirected(p)
  /\ \E zero \in IF Current(p).redirects THEN {TRUE} ELSE UnsetIsZero :
       IF zero \/ FreeProcs = {} THEN CannotRun(p)
       ELSE Launch(p, NewProc, "runExternal", NULL, NULL)

\* The input's file, or else the output's.
IsFile(name) == name # NULL /\ name \notin Redirections
InputFile(cmd) == IF IsFile(cmd.input) THEN cmd.input ELSE NULL
OutputFile(cmd) == IF ~IsFile(cmd.input) /\ IsFile(cmd.output) THEN cmd.output ELSE NULL

runRedirectExternal(p) ==
  /\ Redirected(p)
  /\ LET in == InputFile(Current(p))
         out == OutputFile(Current(p)) IN
     IF (in = NULL /\ out = NULL) \/ FreeProcs = {} THEN CannotRun(p)
     ELSE Launch(p, NewProc, "runRedirectExternal", in, out)

\* A status is kept for a plain command that exited, and for no other.
wait_command(p) ==
  /\ sh[p].pc \in {"runExternal", "runRedirectExternal"}
  /\ LET c == Head(sh[p].kids) IN
     /\ mode[c] = "zombie"
     /\ Reap(c)
     /\ Returns(p, IF sh[p].pc = "runExternal" /\ WIFEXITED(status[c])
                   THEN WEXITSTATUS(status[c]) ELSE sh[p].qbuf)
     /\ Ended(p, status[c])
  /\ UNCHANGED <<job, lines>>

-----------------------------------------------------------------------------
\* The children, from fork to execvp.

ForkedBy(c, by) == mode[c] = "child" /\ job[c].by = by
Name(c) == job[c].command.command
Missing(c) == Name(c) \notin Programs

\* The first file that cannot be opened, or the exec, makes it exit.
child_of_runPipe(c) ==
  /\ ForkedBy(c, "runPipe")
  /\ LET cmd == job[c].command
         in == job[c].in
         out == job[c].out
         Opens(end, file) == end = NULL /\ file # NULL
         Descriptor(end, file, old) ==
           IF end # NULL THEN end ELSE IF file # NULL THEN File ELSE old
     IN IF \/ Opens(out, cmd.output) /\ cmd.output \in OpenFails
           \/ Opens(in, cmd.input) /\ cmd.input \in OpenFails
           \/ Missing(c)
        THEN Exit({c}, "1")
        ELSE /\ Exec(c, Name(c))
             /\ stdin' = [stdin EXCEPT ![c] = Descriptor(in, cmd.input, @)]
             /\ stdout' = [stdout EXCEPT ![c] = Descriptor(out, cmd.output, @)]
             /\ held' = [held EXCEPT ![c] = @ \ {in, out}]
             /\ UNCHANGED sigint
  /\ job' = [job EXCEPT ![c] = NoJob]
  /\ UNCHANGED <<sh, lines, last>>

child_of_runExternal(c) ==
  /\ ForkedBy(c, "runExternal")
  /\ IF Missing(c) THEN Exit({c}, "1")
     ELSE /\ Exec(c, Name(c))
          /\ sigint' = sigint \cup {c}
          /\ UNCHANGED <<stdin, stdout, held>>
  /\ job' = [job EXCEPT ![c] = NoJob]
  /\ sh' = [sh EXCEPT ![c] = AtPrompt(Unwritten)]
  /\ UNCHANGED <<lines, last>>

\* When a file cannot be opened or its mode not be set, or the program does not
\* exist, the child returns to the loop of main: it is a shell like its parent.
child_of_runRedirectExternal(c) ==
  /\ ForkedBy(c, "runRedirectExternal")
  /\ LET file == IF job[c].in # NULL THEN job[c].in ELSE job[c].out
         fails == file \in OpenFails \cup ChmodFails
     IN /\ IF fails THEN UNCHANGED <<stdin, stdout>>
           ELSE /\ stdin' = [stdin EXCEPT ![c] = IF job[c].in # NULL THEN File ELSE @]
                /\ stdout' = [stdout EXCEPT ![c] = IF job[c].out # NULL THEN File ELSE @]
        /\ IF fails \/ Missing(c)
           THEN /\ mode' = [mode EXCEPT ![c] = "shell"]
                /\ UNCHANGED <<parent, status, program, todo, bytes, sigint, sh>>
           ELSE /\ Exec(c, Name(c))
                /\ sigint' = sigint \cup {c}
                /\ sh' = [sh EXCEPT ![c] = AtPrompt(Unwritten)]
  /\ job' = [job EXCEPT ![c] = NoJob]
  /\ UNCHANGED <<held, lines, last>>

-----------------------------------------------------------------------------
\* The user types lines, ^D at a prompt and ^C; the rest runs by itself.

UserStep(p) == mode[p] = "shell" /\ (read_line(p) \/ end_of_input(p))

ShellStep(p) ==
  /\ mode[p] = "shell"
  /\ \/ no_command(p) \/ only_and(p)
     \/ first_stage(p) \/ middle_stage(p) \/ last_stage(p) \/ fork_fails(p)
     \/ wait_stage(p)
     \/ runpwd(p) \/ runcd(p) \/ runexit(p)
     \/ runExternal(p) \/ runRedirectExternal(p) \/ wait_command(p)

ChildStep(p) ==
  child_of_runPipe(p) \/ child_of_runExternal(p) \/ child_of_runRedirectExternal(p)

RunStep(p) == ShellStep(p) \/ ChildStep(p) \/ (ProgramStep(p) /\ UNCHANGED shellVars)

Terminated == Alive = {} /\ UNCHANGED vars

Next ==
  \/ \E p \in Procs : UserStep(p) \/ RunStep(p)
  \/ CtrlC /\ Interrupt /\ UNCHANGED shellVars
  \/ Terminated

Spec == Init /\ [][Next]_vars

\* Every process is scheduled; the user need do nothing.
Fairness == \A p \in Procs : WF_vars(RunStep(p))
FairSpec == Spec /\ Fairness

-----------------------------------------------------------------------------
\* Properties.

Prompting(p) == mode[p] = "shell" /\ sh[p].pc = "prompt"
Ahead(p) == {sh[p].kids[i] : i \in DOMAIN sh[p].kids}

KernelTypes ==
  /\ mode \in [Procs -> {"free", "shell", "child", "program", "zombie"}]
  /\ parent \in [Procs -> Procs \cup {Adopter}]
  /\ stdin \in [Procs -> {Terminal, File} \cup {ReadEnd(k) : k \in Pipes}]
  /\ stdout \in [Procs -> {Terminal, File} \cup {WriteEnd(k) : k \in Pipes}]
  /\ held \in [Procs -> SUBSET Ends]
  /\ sigint \subseteq Procs
  /\ status \in [Procs -> Codes \cup {"killed"}]
  /\ bytes \in [Pipes -> 0 .. Capacity]
  /\ lines \in 0 .. MaxLines

TypeOK ==
  /\ KernelTypes
  /\ \A p \in Procs :
       /\ sh[p].pc \in {"prompt", "list", "wait", "runExternal", "runRedirectExternal"}
       /\ sh[p].qbuf \in Codes \cup {Unwritten}
       /\ sh[p].kids \in Seq(Procs)
       /\ sh[p].prev \in {NULL} \cup {ReadEnd(k) : k \in Pipes}

\* The lists runPipeline may be given, and what some properties need of them:
\* every command has a word; a command by itself is not pwd, and has no
\* redirection; there are two commands at most.
LineLists ==
  {buildCommandList(Expand(tokens, text)) : tokens \in Lines, text \in Codes \cup {Unwritten}}
LinesComplete ==
  \A list \in LineLists :
    /\ list \in Seq({list[i] : i \in DOMAIN list})
    /\ \A i \in DOMAIN list : list[i].command # NULL
LinesPlain ==
  \A list \in LineLists : list # <<>> /\ ~(Len(list) > 1) =>
    /\ list[1].command # "pwd"
    /\ \/ list[1].command \in {"cd", "exit"}
       \/ list[1].input = NULL /\ list[1].output = NULL
AtMostTwo == \A list \in LineLists : Len(list) <= 2

\* README.md:228: every child process is waited for, one at a time.  The children
\* of a shell, running or ended, are those it is yet to wait for, each once; so a
\* prompt finds none.  (no_command breaks this in echo | | cat.)
WaitsForItsChildren ==
  \A p \in Shells :
    /\ Ahead(p) = Children(p)
    /\ Cardinality(Ahead(p)) = Len(sh[p].kids)

\* README.md:225: with an extra copy of the write end of a pipe open its reader
\* never sees the end.  Nobody but the one stage that writes to a pipe has its
\* write end, and one stage at most reads from it.
OnlyStageWrites ==
  \A k \in Pipes :
    /\ Cardinality(WritersOf(k)) <= 1
    /\ \A p \in WritersOf(k) : mode[p] = "child" \/ stdout[p] = WriteEnd(k)
    /\ Cardinality({p \in Alive : stdin[p] = ReadEnd(k)}) <= 1

\* The programs of a pipeline are joined in its order, each to the next.
StagesConnected ==
  \A p \in Shells : \A i \in 1 .. Len(sh[p].kids) - 1 :
    LET writer == sh[p].kids[i]
        reader == sh[p].kids[i + 1] IN
    mode[writer] = "program" /\ mode[reader] = "program" =>
      \E k \in Pipes : stdout[writer] = WriteEnd(k) /\ stdin[reader] = ReadEnd(k)

\* README.md:161: $? is the exit status of the most recent pipeline.  (Not after
\* a redirected command, pwd, or a command that ^C ended.)
StatusIsLast == \A p \in Procs : Prompting(p) => sh[p].qbuf = last[p]

\* README.md:200: no descriptor is leaked by a line.  (middle_stage leaks one.)
DescriptorsClosed == \A p \in Procs : Prompting(p) => held[p] = {}

\* README.md:120: a child whose exec fails exits; there is never a second
\* process in main's loop.
OneShell == Cardinality(Shells) <= 1

\* A pipeline whose programs end comes back to the prompt.
Waiting(p) == mode[p] = "shell" /\ sh[p].pc = "wait"
PipelineReturns == \A p \in Procs : Waiting(p) ~> ~Waiting(p)

==============================================================================
