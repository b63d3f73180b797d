------------------------------ MODULE Coroutines ------------------------------
(***************************************************************************)
(* What QThread takes from the context switch of src/threading-lib: every  *)
(* thread has registers, a stack and a place in the code of its own, and   *)
(* a switch changes nothing but who runs.                                  *)
(***************************************************************************)
EXTENDS Sequences

CONSTANTS Threads, Main,
          Funs, Args,   \* the functions threads are made of, and what they are given
          Loads,        \* the contents a thread may give to its registers
          Entry,        \* of each thread: the contents they start with
          MainCode, Wrapper, Exiting,
          NULL

VARIABLES
  current,          \* the thread that runs
  created, exited,
  given,            \* of each thread: the function and the argument it is for
  called,           \* and those it was started with
  regs,             \* its registers
  stack,            \* the places it returns to, the next one first
  place             \* where it is, or goes on
vars == <<current, created, exited, given, called, regs, stack, place>>
Own == <<regs, stack, place>>

Init ==
  /\ current = Main /\ created = {Main} /\ exited = {}
  /\ given = [t \in Threads |-> NULL]
  /\ called = [t \in Threads |-> NULL]
  /\ regs = Entry
  /\ stack = [t \in Threads |-> <<>>]
  /\ place = [t \in Threads |-> IF t = Main THEN MainCode ELSE Wrapper]

Create(t, f, x) ==
  /\ t \notin created
  /\ created' = created \cup {t}
  /\ given' = [given EXCEPT ![t] = <<f, x>>]
  /\ UNCHANGED <<current, exited, called, Own>>

\* A thread calls its function with its argument, and nothing else.
Begin ==
  /\ place[current] = Wrapper
  /\ called' = [called EXCEPT ![current] = given[current]]
  /\ stack' = [stack EXCEPT ![current] = <<Exiting>> \o @]
  /\ place' = [place EXCEPT ![current] = given[current][1]]
  /\ UNCHANGED <<current, created, exited, given, regs>>

Compute ==
  /\ \E contents \in Loads : regs' = [regs EXCEPT ![current] = contents]
  /\ UNCHANGED <<current, created, exited, given, called, stack, place>>

Call(f) ==
  /\ stack' = [stack EXCEPT ![current] = <<place[current]>> \o @]
  /\ place' = [place EXCEPT ![current] = f]
  /\ UNCHANGED <<current, created, exited, given, called, regs>>

Return ==
  /\ stack[current] # <<>>
  /\ place' = [place EXCEPT ![current] = Head(stack[current])]
  /\ stack' = [stack EXCEPT ![current] = Tail(@)]
  /\ UNCHANGED <<current, created, exited, given, called, regs>>

\* The thread that runs ends, or goes on later.
Switch(t) ==
  /\ t \in created \ exited
  /\ current' = t
  /\ exited' \in {exited, exited \cup {current}}
  /\ UNCHANGED <<created, given, called, Own>>

Next ==
  \/ Begin \/ Compute \/ Return
  \/ \E f \in Funs : Call(f)
  \/ \E t \in Threads :
       \/ Switch(t)
       \/ \E f \in Funs, x \in Args : Create(t, f, x)

Spec == Init /\ [][Next]_vars

===============================================================================
