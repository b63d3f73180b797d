----------------------------- MODULE ThreadQueue -----------------------------
(***************************************************************************)
(* The linked representation of the thread queues: struct threadq and the  *)
(* next pointer of struct qthread (qthread_manager.c).                     *)
(*                                                                         *)
(* malloc returns used memory: the queues of mutexes and condition         *)
(* variables have wild front and end pointers until they are first used,   *)
(* for their creation writes only the size; so does the main thread's next.*)
(* QThread shows that the library never queues a thread that is in a queue *)
(* (NoDoubleQueue): here that is the guard of push_back.                   *)
(***************************************************************************)
EXTENDS Integers, Sequences

CONSTANTS Threads,
          InitQueues,  \* runnable_queue and sleeping_set
          SyncQueues,  \* the queues of mutexes and condition variables
          NULL,
          Wild         \* a pointer read from memory nobody initialised

Queues == InitQueues \cup SyncQueues
Pointers == Threads \cup {NULL, Wild}

ASSUME PointersDiffer ==
  NULL \notin Threads \cup {Wild} /\ Wild \notin Threads /\ InitQueues \cap SyncQueues = {}

VARIABLES
  front, end, size,   \* of each queue
  next,               \* of each thread
  live,               \* the queues that are allocated
  popped,             \* what the last pop_front returned
  queue               \* history: the threads pushed and not yet popped

vars == <<front, end, size, next, live, popped, queue>>

Elements(s) == {s[i] : i \in DOMAIN s}

\* qthread_init's queues are clean, and nobody has written the other ones.
Init ==
  /\ front \in [Queues -> Pointers]
  /\ end \in [Queues -> Pointers]
  /\ size \in [Queues -> {0, 1}]
  /\ \A q \in InitQueues : front[q] = NULL /\ end[q] = NULL /\ size[q] = 0
  /\ next \in [Threads -> Pointers]
  /\ live = InitQueues
  /\ popped = NULL
  /\ queue = [q \in Queues |-> <<>>]

\* The queue's part of qthread_mutex_create and qthread_cond_create.
create(q) ==
  /\ q \notin live
  /\ live' = live \cup {q}
  /\ size' = [size EXCEPT ![q] = 0]
  /\ UNCHANGED <<front, end, next, popped, queue>>

\* Slips: the new thread keeps its old next; end is set in an empty queue only;
\* front is set in every case.
push_back_StaleNext(q, t) ==
  /\ q \in live
  /\ \A p \in Queues : t \notin Elements(queue[p])
  /\ front' = IF size[q] = 0 THEN [front EXCEPT ![q] = t] ELSE front
  /\ end' = [end EXCEPT ![q] = t]
  /\ next' = IF size[q] = 0 THEN next ELSE [next EXCEPT ![end[q]] = t]
  /\ size' = [size EXCEPT ![q] = @ + 1]
  /\ queue' = [queue EXCEPT ![q] = Append(@, t)]
  /\ UNCHANGED <<live, popped>>
push_back_OldEnd(q, t) ==
  /\ q \in live
  /\ \A p \in Queues : t \notin Elements(queue[p])
  /\ front' = IF size[q] = 0 THEN [front EXCEPT ![q] = t] ELSE front
  /\ end' = IF size[q] = 0 THEN [end EXCEPT ![q] = t] ELSE end
  /\ next' = [next EXCEPT ![t] = NULL,
                          ![IF size[q] = 0 THEN t ELSE end[q]] = IF size[q] = 0 THEN NULL ELSE t]
  /\ size' = [size EXCEPT ![q] = @ + 1]
  /\ queue' = [queue EXCEPT ![q] = Append(@, t)]
  /\ UNCHANGED <<live, popped>>
push_back_NewFront(q, t) ==
  /\ q \in live
  /\ \A p \in Queues : t \notin Elements(queue[p])
  /\ front' = [front EXCEPT ![q] = t]
  /\ end' = [end EXCEPT ![q] = t]
  /\ next' = [next EXCEPT ![t] = NULL]
  /\ size' = [size EXCEPT ![q] = @ + 1]
  /\ queue' = [queue EXCEPT ![q] = Append(@, t)]
  /\ UNCHANGED <<live, popped>>

push_back(q, t) ==
  /\ q \in live
  /\ \A p \in Queues : t \notin Elements(queue[p])
  /\ front' = IF size[q] = 0 THEN [front EXCEPT ![q] = t] ELSE front
  /\ end' = [end EXCEPT ![q] = t]
  /\ next' = IF size[q] = 0 THEN [next EXCEPT ![t] = NULL]
                            ELSE [next EXCEPT ![t] = NULL, ![end[q]] = t]
  /\ size' = [size EXCEPT ![q] = @ + 1]
  /\ queue' = [queue EXCEPT ![q] = Append(@, t)]
  /\ UNCHANGED <<live, popped>>

\* Slip: the size is decremented before it is tested.
pop_empty_Decrements(q) ==
  /\ q \in live
  /\ size[q] = 0
  /\ popped' = NULL
  /\ size' = [size EXCEPT ![q] = @ - 1]
  /\ UNCHANGED <<front, end, next, live, queue>>

pop_empty(q) ==
  /\ q \in live
  /\ size[q] = 0
  /\ popped' = NULL
  /\ UNCHANGED <<front, end, size, next, live, queue>>

\* The popped thread keeps its next.
pop_front(q) ==
  /\ q \in live
  /\ size[q] # 0
  /\ LET head == front[q] IN
     /\ popped' = head
     /\ front' = [front EXCEPT ![q] = next[head]]
  /\ size' = [size EXCEPT ![q] = @ - 1]
  /\ end' = IF size[q] = 1 THEN [end EXCEPT ![q] = NULL] ELSE end
  /\ queue' = [queue EXCEPT ![q] = Tail(@)]
  /\ UNCHANGED <<next, live>>

Next ==
  \E q \in Queues : \/ create(q) \/ pop_empty(q) \/ pop_front(q)
                    \/ \E t \in Threads : push_back(q, t)

Spec == Init /\ [][Next]_vars

(***************************************************************************)
(* Properties.                                                             *)
(***************************************************************************)

\* Type invariant: a pointer is a thread, NULL or wild, and no size is negative.
TypeOK ==
  /\ front \in [Queues -> Pointers] /\ end \in [Queues -> Pointers]
  /\ size \in [Queues -> Nat]
  /\ next \in [Threads -> Pointers]
  /\ live \subseteq Queues
  /\ popped \in Threads \cup {NULL}
  /\ queue \in [Queues -> Seq(Threads)]

\* The list that starts at front and follows next holds the threads pushed and
\* not popped, in that order; end is its last, whose next is NULL.
Chained(q) ==
  LET s == queue[q] IN
  /\ size[q] = Len(s)
  /\ s # <<>> => /\ front[q] = s[1]
                 /\ end[q] = s[Len(s)]
                 /\ next[s[Len(s)]] = NULL
  /\ \A i \in 1 .. Len(s) - 1 : next[s[i]] = s[i + 1]

\* No wild pointer is ever part of a queue in use: whatever malloc left in
\* front, end and next, the links spell out the queue.
LinksSpellQueue == \A q \in live : Chained(q)

\* Right after a pop the popped thread's next tells whether the queue has more
\* threads: this is what the test head->next of wake_sleeping_threads relies on.
NextTellsMore ==
  [][\A q \in Queues : pop_front(q) => (next'[popped'] # NULL <=> size'[q] # 0)]_vars

Fifo == INSTANCE ThreadFifo WITH queue <- queue, popped <- popped

\* The linked queues serve threads first come first served.
IsFifo == Fifo!Spec

==============================================================================
