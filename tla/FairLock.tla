------------------------------- MODULE FairLock -------------------------------
(***************************************************************************)
(* What the mutexes of src/threading-lib promise: each has one owner or    *)
(* none, and is handed on in the order of the requests.                    *)
(***************************************************************************)
EXTENDS Naturals, Sequences

CONSTANTS Threads, Mutexes, NULL

VARIABLES
  owner,    \* of each mutex, NULL when it is free
  waiting   \* the threads that asked for it while it was not, first come first

Waits(t) == \E m \in Mutexes : \E i \in 1 .. Len(waiting[m]) : waiting[m][i] = t

Init ==
  /\ owner = [m \in Mutexes |-> NULL]
  /\ waiting = [m \in Mutexes |-> <<>>]

Acquire(m, t) ==
  /\ owner[m] = NULL
  /\ owner' = [owner EXCEPT ![m] = t]
  /\ UNCHANGED waiting

Wait(m, t) ==
  /\ owner[m] # NULL /\ ~Waits(t)
  /\ waiting' = [waiting EXCEPT ![m] = Append(@, t)]
  /\ UNCHANGED owner

Release(m) ==
  /\ owner[m] # NULL
  /\ IF waiting[m] = <<>>
     THEN owner' = [owner EXCEPT ![m] = NULL] /\ UNCHANGED waiting
     ELSE /\ owner' = [owner EXCEPT ![m] = Head(waiting[m])]
          /\ waiting' = [waiting EXCEPT ![m] = Tail(@)]

Next == \E m \in Mutexes : Release(m) \/ \E t \in Threads : Acquire(m, t) \/ Wait(m, t)

Spec == Init /\ [][Next]_<<owner, waiting>>

==============================================================================
