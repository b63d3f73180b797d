---------------------------- MODULE ContextSwitch ----------------------------
(***************************************************************************)
(* setup_stack and switch_thread (switch-x86_64.S), and the C functions    *)
(* around them (qthread_manager.c), on memory and registers.  An address   *)
(* counts words of 8 bytes; every thread's stack is a part of one memory.  *)
(* What a thread computes is any code that keeps to the calling            *)
(* convention: it loads registers, calls functions and returns from them.  *)
(***************************************************************************)
EXTENDS Integers, Sequences

CONSTANTS Threads, Main,
          Funs, Args,    \* the functions threads are made of, and what they are given
          Loads,         \* the contents a thread may give to its registers
          Low,           \* of each thread: the first word of its stack
          StackWords,    \* words of a stack
          MaxCalls,      \* bound: calls a thread is in
          NULL

CONSTANTS Flag, Guard,   \* 0xA5... on top of a stack that may be run, 0x3A...
          MainCode, Wrapper, Exiting,   \* in main; at create_thread_wrapper, behind its call
          Junk           \* a word nobody has written

CalleeSaved == {"rbp", "rbx", "r12", "r13", "r14", "r15"}

\* Behind the three guard words there is room for the calls and for a switch.
GuardWords == 3
ASSUME StacksOK ==
  /\ Main \in Threads
  /\ Low \in [Threads -> Nat] /\ StackWords \in Nat /\ MaxCalls \in Nat
  /\ \A t \in Threads : Low[t] % 2 = 0 /\ Low[t] > 0   \* malloc's alignment
  /\ \A t, u \in Threads : t # u => Low[t] + StackWords <= Low[u] \/ Low[u] + StackWords <= Low[t]
  /\ StackWords % 2 = 0 /\ StackWords >= GuardWords + MaxCalls + 11
  /\ \A contents \in Loads : contents = [r \in CalleeSaved |-> contents[r]]

\* The places of the library's code are none of a thread's.
ASSUME PlacesDiffer ==
  /\ Funs \cap {MainCode, Wrapper, Exiting} = {}
  /\ MainCode # Wrapper /\ MainCode # Exiting /\ Wrapper # Exiting

VARIABLES
  mem,       \* of each address: the word there
  reg,       \* the processor's registers, rsp and rip too
  saved,     \* of each thread: saved_stack_pointer
  current,   \* current_thread
  created, exited,
  crashed,   \* switch_thread read from address 0
  given,     \* history: the function and the argument each thread is for
  called     \* history: and those its wrapper called
vars == <<mem, reg, saved, current, created, exited, crashed, given, called>>

Stack(t) == Low[t] .. Low[t] + StackWords - 1
Memory == UNION {Stack(t) : t \in Threads}

\* The words of s pushed in this order.
Pushed(m, sp, s) ==
  [a \in Memory |-> IF a \in sp - Len(s) .. sp - 1 THEN s[sp - a] ELSE m[a]]

\* n words popped: what is below rsp belongs to nobody, and may be overwritten.
Dropped(m, sp, n) == [a \in Memory |-> IF a \in sp .. sp + n - 1 THEN Junk ELSE m[a]]

-----------------------------------------------------------------------------
\* Starting a thread.

\* Where a stack ends: its end, rounded down to 16 bytes.
Top(t) == Low[t] + StackWords - ((Low[t] + StackWords) % 2)

\* The words setup_stack writes from the top down.  (Slip: one guard word is
\* missing.)
first_frame_TwoGuards(t, f, x) ==
  <<Guard, Guard, Wrapper, Top(t), x, f, 0, 0, 0, 0, 0, Flag>>
first_frame(t, f, x) ==
  <<Guard, Guard, Guard, Wrapper, Top(t), x, f, 0, 0, 0, 0, 0, Flag>>

setup_stack(t, f, x) ==
  /\ mem' = Pushed(mem, Top(t), first_frame(t, f, x))
  /\ saved' = [saved EXCEPT ![t] = Top(t) - Len(first_frame(t, f, x))]

Init ==
  /\ mem = [a \in Memory |-> Junk]
  /\ reg = [ rbp |-> 0, rbx |-> 0, r12 |-> 0, r13 |-> 0, r14 |-> 0, r15 |-> 0,
             rdi |-> 0, rsi |-> 0, rsp |-> Top(Main), rip |-> MainCode ]
  /\ saved = [t \in Threads |-> Junk]
  /\ current = Main /\ created = {Main} /\ exited = {} /\ crashed = FALSE
  /\ given = [t \in Threads |-> NULL]
  /\ called = [t \in Threads |-> NULL]

\* In the code of the threads, or of the library they call.
InCode == ~crashed /\ reg.rip \in Funs \cup {MainCode}

qthread_create(t, f, x) ==
  /\ InCode /\ t \notin created
  /\ setup_stack(t, f, x)
  /\ created' = created \cup {t}
  /\ given' = [given EXCEPT ![t] = <<f, x>>]
  /\ UNCHANGED <<reg, current, exited, crashed, called>>

\* Its arguments are in rdi and rsi; it calls the one with the other.
create_thread_wrapper ==
  /\ ~crashed /\ reg.rip = Wrapper
  /\ called' = [called EXCEPT ![current] = <<reg.rdi, reg.rsi>>]
  /\ mem' = Pushed(mem, reg.rsp, <<Exiting>>)
  /\ reg' = [reg EXCEPT !.rsp = @ - 1, !.rip = reg.rdi, !.rdi = reg.rsi]
  /\ UNCHANGED <<saved, current, created, exited, crashed, given>>

-----------------------------------------------------------------------------
\* What a thread computes between two calls of the library.

Base(t) == IF t = Main THEN Top(t) ELSE Top(t) - GuardWords

Compute ==
  /\ InCode
  /\ \E contents \in Loads :
       reg' = [r \in DOMAIN reg |-> IF r \in CalleeSaved THEN contents[r] ELSE reg[r]]
  /\ UNCHANGED <<mem, saved, current, created, exited, crashed, given, called>>

Call(f) ==
  /\ InCode /\ Base(current) - reg.rsp <= MaxCalls
  /\ mem' = Pushed(mem, reg.rsp, <<reg.rip>>)
  /\ reg' = [reg EXCEPT !.rsp = @ - 1, !.rip = f]
  /\ UNCHANGED <<saved, current, created, exited, crashed, given, called>>

\* Main's first function does not return here: with it the process ends.
Return ==
  /\ InCode /\ (current = Main => reg.rsp # Top(Main))
  /\ reg' = [reg EXCEPT !.rsp = @ + 1, !.rip = mem[reg.rsp]]
  /\ mem' = Dropped(mem, reg.rsp, 1)
  /\ UNCHANGED <<saved, current, created, exited, crashed, given, called>>

-----------------------------------------------------------------------------
\* switch_thread.

\* What it pushes, the caller's return address first; rdi and rsi are its
\* arguments.  (Slip: the flag is pushed before the registers.)
frame_FlagFirst(location, new) ==
  <<reg.rip, reg.rbp, new, location, Flag, reg.rbx, reg.r12, reg.r13, reg.r14, reg.r15>>
frame(location, new) ==
  <<reg.rip, reg.rbp, new, location, reg.rbx, reg.r12, reg.r13, reg.r14, reg.r15, Flag>>

\* What it pops from m.  (Slip: two registers in the order they were pushed.)
popped_Swapped(m, sp) ==
  [ r15 |-> m[sp + 2], r14 |-> m[sp + 1], r13 |-> m[sp + 3], r12 |-> m[sp + 4],
    rbx |-> m[sp + 5], rdi |-> m[sp + 6], rsi |-> m[sp + 7], rbp |-> m[sp + 8],
    rip |-> m[sp + 9], rsp |-> sp + 10 ]
popped(m, sp) ==
  [ r15 |-> m[sp + 1], r14 |-> m[sp + 2], r13 |-> m[sp + 3], r12 |-> m[sp + 4],
    rbx |-> m[sp + 5], rdi |-> m[sp + 6], rsi |-> m[sp + 7], rbp |-> m[sp + 8],
    rip |-> m[sp + 9], rsp |-> sp + 10 ]

\* Without a flag on top of the new stack it reads from address 0.  The location
\* is never null: it is the caller's saved_stack_pointer.
switch_thread(location, new) ==
  IF Pushed(mem, reg.rsp, <<reg.rip, reg.rbp>>)[new] # Flag
  THEN crashed' = TRUE /\ UNCHANGED <<mem, saved, reg>>
  ELSE LET pushes == frame(location, new)
           m == Pushed(mem, reg.rsp, pushes) IN
       /\ mem' = Dropped(m, new, 10)
       /\ saved' = [saved EXCEPT ![location] = reg.rsp - Len(pushes)]
       /\ reg' = popped(m, new)
       /\ UNCHANGED crashed

\* The scheduler goes over to another thread that has not exited.
switch_runnable(t) ==
  /\ t \in created \ (exited \cup {current})
  /\ current' = t
  /\ switch_thread(current, saved[t])
  /\ UNCHANGED <<created, given, called>>

yield(t) ==
  /\ InCode
  /\ switch_runnable(t)
  /\ UNCHANGED exited

\* A thread's function returned, or the thread calls qthread_exit itself.
qthread_exit(t) ==
  /\ InCode \/ (~crashed /\ reg.rip = Exiting)
  /\ switch_runnable(t)
  /\ exited' = exited \cup {current}

Next ==
  \/ create_thread_wrapper \/ Compute \/ Return
  \/ \E f \in Funs : Call(f)
  \/ \E t \in Threads :
       \/ yield(t) \/ qthread_exit(t)
       \/ \E f \in Funs, x \in Args : qthread_create(t, f, x)

Spec == Init /\ [][Next]_vars

-----------------------------------------------------------------------------
\* Properties.

Suspended == created \ {current}

\* The stacks stay apart: the one that runs is current_thread's, every other
\* thread has a flag on top of its own, and nobody pops or overwrites the guard
\* words.  So the check in switch_thread (switch-x86_64.S:84-91) never fails.
StacksApart ==
  /\ ~crashed
  /\ reg.rsp \in Stack(current) \cup {Top(current)}
  /\ \A t \in Suspended : saved[t] \in Stack(t) /\ mem[saved[t]] = Flag
  /\ \A t \in created \ {Main} : \A i \in 1 .. GuardWords : mem[Top(t) - i] = Guard

\* The calling convention (switch-x86_64.S:73-74): at a function's entry the
\* stack is 8 bytes off a multiple of 16, for a thread's first function too.
EntryAligned == reg.rip = Wrapper => reg.rsp % 2 = 1

\* Where the words of a thread that is suspended are, from its saved pointer on.
Slot == [r15 |-> 1, r14 |-> 2, r13 |-> 3, r12 |-> 4, rbx |-> 5, rbp |-> 8, rip |-> 9]
Kept(t, r) ==
  IF t = current THEN reg[r] ELSE mem[saved[t] + Slot[r]]
Entry ==
  [t \in Threads |-> [r \in CalleeSaved |-> IF r = "rbp" /\ t # Main THEN Top(t) ELSE 0]]
Words(from, to) == [i \in 1 .. to - from |-> mem[from + i - 1]]

\* switch-x86_64.S:98-99, "we preserve": the threads are coroutines, each with
\* its registers, its calls and its place, whoever else runs in between; and a
\* new one calls the function it was created for with its argument.
Contexts == INSTANCE Coroutines WITH
  regs <- [t \in Threads |->
    IF t \in created THEN [r \in CalleeSaved |-> Kept(t, r)] ELSE Entry[t]],
  stack <- [t \in Threads |->
    IF t = current THEN Words(reg.rsp, Base(t))
    ELSE IF t \in created THEN Words(saved[t] + 10, Base(t)) ELSE <<>>],
  place <- [t \in Threads |-> IF t \in created THEN Kept(t, "rip") ELSE Wrapper]
KeepsContext == Contexts!Spec

==============================================================================
