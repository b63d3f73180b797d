------------------------------ MODULE ThreadFifo ------------------------------
(***************************************************************************)
(* What the thread queues of src/threading-lib promise: each is a sequence *)
(* of threads, served first come first served.                             *)
(***************************************************************************)
EXTENDS Naturals, Sequences

CONSTANTS Threads, Queues, NULL

VARIABLES
  queue,   \* the threads of each queue, front first
  popped   \* what the last pop_front returned

Elements(s) == {s[i] : i \in DOMAIN s}

Init ==
  /\ queue = [q \in Queues |-> <<>>]
  /\ popped = NULL

Push(q, t) ==
  /\ \A p \in Queues : t \notin Elements(queue[p])
  /\ queue' = [queue EXCEPT ![q] = Append(@, t)]
  /\ UNCHANGED popped

Pop(q) ==
  IF queue[q] = <<>>
  THEN popped' = NULL /\ UNCHANGED queue
  ELSE /\ popped' = Head(queue[q])
       /\ queue' = [queue EXCEPT ![q] = Tail(@)]

Next == \E q \in Queues : Pop(q) \/ \E t \in Threads : Push(q, t)

Spec == Init /\ [][Next]_<<queue, popped>>

==============================================================================
