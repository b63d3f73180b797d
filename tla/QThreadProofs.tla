--------------------------- MODULE QThreadProofs ---------------------------
(***************************************************************************)
(* Theorems about QThread, for any threads, mutexes, condition variables   *)
(* and bounds: types, and the places a thread may be in.                   *)
(***************************************************************************)
EXTENDS QThread, SequenceTheorems, TLAPS

QueueMaps == [Queues -> Seq(Threads)]

(***************************************************************************)
(* The queue operators.                                                    *)
(***************************************************************************)

\* push_back keeps every queue a sequence of threads.
LEMMA PushBackType ==
  ASSUME NEW qs \in QueueMaps, NEW q \in Queues, NEW t \in Threads
  PROVE  PushBack(qs, q, t) \in QueueMaps
BY DEF PushBack, QueueMaps

\* push_back adds its thread and nothing else.
LEMMA PushBackQueued ==
  ASSUME NEW qs \in QueueMaps, NEW q \in Queues, NEW t \in Threads, NEW x
  PROVE  QueuedIn(PushBack(qs, q, t), x) <=> QueuedIn(qs, x) \/ x = t
<1> DEFINE new == PushBack(qs, q, t)
<1>1. new[q] = Append(qs[q], t) /\ \A p \in Queues \ {q} : new[p] = qs[p]
  BY DEF PushBack, QueueMaps
<1>2. x \in Elements(new[q]) <=> x \in Elements(qs[q]) \/ x = t
  BY <1>1 DEF Elements, QueueMaps
<1> QED BY <1>1, <1>2 DEF QueuedIn

\* push_back of a thread that is in no queue keeps all places distinct.
LEMMA PushBackDistinct ==
  ASSUME NEW qs \in QueueMaps, NEW q \in Queues, NEW t \in Threads,
         Distinct(qs), ~QueuedIn(qs, t)
  PROVE  Distinct(PushBack(qs, q, t))
<1> DEFINE new == PushBack(qs, q, t)
<1>1. new[q] = Append(qs[q], t) /\ \A p \in Queues \ {q} : new[p] = qs[p]
  BY DEF PushBack, QueueMaps
<1>2. \A p \in Queues : \A i \in DOMAIN qs[p] : qs[p][i] # t
  BY DEF QueuedIn, Elements
<1>3. /\ DOMAIN qs[q] = 1..Len(qs[q]) /\ Len(qs[q]) \in Nat
      /\ DOMAIN new[q] = 1..Len(qs[q]) + 1
      /\ \A i \in DOMAIN new[q] : new[q][i] = IF i = Len(qs[q]) + 1 THEN t ELSE qs[q][i]
  BY <1>1 DEF QueueMaps
<1> SUFFICES ASSUME NEW p1 \in Queues, NEW p2 \in Queues,
                    NEW i \in DOMAIN new[p1], NEW j \in DOMAIN new[p2],
                    new[p1][i] = new[p2][j]
             PROVE  p1 = p2 /\ i = j
  BY DEF Distinct
<1> HIDE DEF new
<1>4. \A k \in DOMAIN new[q] : k \in DOMAIN qs[q] \/ k = Len(qs[q]) + 1
  BY <1>3
<1>5. CASE p1 = q /\ p2 = q
  BY <1>1, <1>2, <1>3, <1>4, <1>5, SMTT(30) DEF Distinct
<1>6. CASE p1 = q /\ p2 # q
  BY <1>1, <1>2, <1>3, <1>4, <1>6, SMTT(30) DEF Distinct
<1>7. CASE p1 # q /\ p2 = q
  BY <1>1, <1>2, <1>3, <1>4, <1>7 DEF Distinct
<1>8. CASE p1 # q /\ p2 # q
  BY <1>1, <1>8 DEF Distinct
<1> QED BY <1>5, <1>6, <1>7, <1>8

\* pop_front of a non-empty queue takes a thread that was queued.
LEMMA PopFrontType ==
  ASSUME NEW qs \in QueueMaps, NEW q \in Queues, qs[q] # <<>>
  PROVE  /\ PopFront(qs, q) \in QueueMaps
         /\ Head(qs[q]) \in Threads
         /\ QueuedIn(qs, Head(qs[q]))
<1>1. qs[q] \in Seq(Threads) /\ Len(qs[q]) >= 1
  BY DEF QueueMaps
<1>2. Head(qs[q]) \in Elements(qs[q])
  BY <1>1 DEF Elements
<1> QED BY <1>1, <1>2 DEF PopFront, QueueMaps, QueuedIn

\* pop_front takes that thread and no other, when places are distinct.
LEMMA PopFrontQueued ==
  ASSUME NEW qs \in QueueMaps, NEW q \in Queues, qs[q] # <<>>, Distinct(qs), NEW x
  PROVE  QueuedIn(PopFront(qs, q), x) <=> QueuedIn(qs, x) /\ x # Head(qs[q])
<1> DEFINE new == PopFront(qs, q)
<1>1. new[q] = Tail(qs[q]) /\ \A p \in Queues \ {q} : new[p] = qs[p]
  BY DEF PopFront, QueueMaps
<1>2. qs[q] \in Seq(Threads) /\ Len(qs[q]) >= 1 /\ Head(qs[q]) = qs[q][1]
  BY DEF QueueMaps
<1>3. x \in Elements(Tail(qs[q])) <=> x \in Elements(qs[q]) /\ x # Head(qs[q])
  <2>1. \A i \in DOMAIN qs[q] : qs[q][i] = qs[q][1] => i = 1
    BY <1>2 DEF Distinct
  <2>2. /\ DOMAIN Tail(qs[q]) = 1..Len(qs[q]) - 1
        /\ \A i \in 1..Len(qs[q]) - 1 : Tail(qs[q])[i] = qs[q][i + 1]
    BY <1>2
  <2>3. ASSUME x \in Elements(qs[q]), x # Head(qs[q])
        PROVE  x \in Elements(Tail(qs[q]))
    <3>1. PICK i \in 1..Len(qs[q]) : x = qs[q][i]
      BY <2>3, <1>2 DEF Elements
    <3>2. i # 1 /\ Len(qs[q]) \in Nat
      BY <3>1, <2>3, <1>2
    <3>3. i - 1 \in 1..Len(qs[q]) - 1 /\ (i - 1) + 1 = i
      BY <3>2
    <3>4. Tail(qs[q])[i - 1] = x
      BY <3>1, <3>3, <2>2
    <3> QED BY <3>3, <3>4, <2>2, <1>2 DEF Elements
  <2>4. ASSUME x \in Elements(Tail(qs[q]))
        PROVE  x \in Elements(qs[q]) /\ x # Head(qs[q])
    <3>1. PICK i \in 1..Len(qs[q]) - 1 : x = Tail(qs[q])[i]
      BY <2>4, <2>2, <1>2 DEF Elements
    <3>2. i + 1 \in DOMAIN qs[q] /\ x = qs[q][i + 1] /\ i + 1 # 1
      BY <3>1, <2>2, <1>2
    <3> QED BY <3>2, <2>1, <1>2 DEF Elements
  <2> QED BY <2>3, <2>4
<1>4. \A p \in Queues \ {q} : Head(qs[q]) \notin Elements(qs[p])
  BY <1>2 DEF Distinct, Elements
<1> QED BY <1>1, <1>3, <1>4 DEF QueuedIn

\* pop_front keeps all places distinct.
LEMMA PopFrontDistinct ==
  ASSUME NEW qs \in QueueMaps, NEW q \in Queues, qs[q] # <<>>, Distinct(qs)
  PROVE  Distinct(PopFront(qs, q))
<1> DEFINE new == PopFront(qs, q)
<1>1. new[q] = Tail(qs[q]) /\ \A p \in Queues \ {q} : new[p] = qs[p]
  BY DEF PopFront, QueueMaps
<1>2. qs[q] \in Seq(Threads) /\ Len(qs[q]) >= 1
  BY DEF QueueMaps
<1>3. \A i \in DOMAIN new[q] : i + 1 \in DOMAIN qs[q] /\ new[q][i] = qs[q][i + 1] /\ i \in Nat
  BY <1>1, <1>2
<1> SUFFICES ASSUME NEW p1 \in Queues, NEW p2 \in Queues,
                    NEW i \in DOMAIN new[p1], NEW j \in DOMAIN new[p2],
                    new[p1][i] = new[p2][j]
             PROVE  p1 = p2 /\ i = j
  BY DEF Distinct
<1> HIDE DEF new
<1>4. CASE p1 = q /\ p2 = q
  <2>1. i + 1 = j + 1
    BY <1>3, <1>4 DEF Distinct
  <2> QED BY <2>1, <1>3, <1>4
<1>5. CASE p1 = q /\ p2 # q
  <2>1. i + 1 \in DOMAIN qs[q] /\ j \in DOMAIN qs[p2] /\ qs[q][i + 1] = qs[p2][j]
    BY <1>1, <1>3, <1>5
  <2> QED BY <2>1, <1>5 DEF Distinct
<1>6. CASE p1 # q /\ p2 = q
  <2>1. j + 1 \in DOMAIN qs[q] /\ i \in DOMAIN qs[p1] /\ qs[q][j + 1] = qs[p1][i]
    BY <1>1, <1>3, <1>6
  <2> QED BY <2>1, <1>6 DEF Distinct
<1>7. CASE p1 # q /\ p2 # q
  BY <1>1, <1>7 DEF Distinct
<1> QED BY <1>4, <1>5, <1>6, <1>7

(***************************************************************************)
(* Type correctness.                                                       *)
(***************************************************************************)
\* The scheduler leaves a thread running, the wake loop with a head, or a crash.
LEMMA SwitchType ==
  ASSUME NEW qs \in QueueMaps, switch_runnable(qs), head' = NULL, more' = FALSE
  PROVE  SchedulerTypeOK'
<1>1. runnable_queue \in Queues
  BY DEF Queues
<1>2. CASE qs[runnable_queue] = <<>>
  BY <1>2 DEF switch_runnable, SchedulerTypeOK, QueueMaps
<1>3. CASE qs[runnable_queue] # <<>>
  <2>1. /\ Head(qs[runnable_queue]) \in Threads
        /\ PopFront(qs, runnable_queue) \in QueueMaps
    BY <1>1, <1>3, PopFrontType
  <2> QED BY <1>3, <2>1 DEF switch_runnable, SchedulerTypeOK, QueueMaps
<1> QED BY <1>2, <1>3

LEMMA RequeueType ==
  ASSUME NEW qs \in QueueMaps, NEW exit, current_thread \in Threads
  PROVE  requeue(exit, qs) \in QueueMaps
<1>1. {runnable_queue, sleeping_set} \subseteq Queues
  BY DEF Queues
<1> QED BY <1>1, PushBackType DEF requeue

LEMMA ScheduleType ==
  ASSUME NEW qs \in QueueMaps, NEW exit, SchedulerTypeOK, phase = "user",
         schedule(exit, qs)
  PROVE  SchedulerTypeOK'
<1> DEFINE requeued == requeue(exit, qs)
<1>1. requeued \in QueueMaps /\ current_thread \in Threads /\ head = NULL /\ more = FALSE
  BY RequeueType DEF SchedulerTypeOK
<1>2. sleeping_set \in Queues
  BY DEF Queues
<1>3. CASE requeued[runnable_queue] = <<>> /\ requeued[sleeping_set] # <<>>
  <2>1. /\ Head(requeued[sleeping_set]) \in Threads
        /\ PopFront(requeued, sleeping_set) \in QueueMaps
    BY <1>1, <1>2, <1>3, PopFrontType
  <2>2. PopFront(requeued, sleeping_set)[sleeping_set] = Tail(requeued[sleeping_set])
    BY <1>1, <1>2 DEF PopFront, QueueMaps
  <2> QED BY <1>1, <1>3, <2>1, <2>2, ConstantsOK DEF schedule, enter_wake_loop, SchedulerTypeOK, QueueMaps
<1>4. CASE ~(requeued[runnable_queue] = <<>> /\ requeued[sleeping_set] # <<>>)
  <2>1. switch_runnable(requeued) /\ head' = NULL /\ more' = FALSE
    BY <1>1, <1>4 DEF schedule, SchedulerTypeOK
  <2> QED BY <2>1, <1>1, SwitchType
<1> QED BY <1>3, <1>4

\* What an unlock leaves in the queues and the lock words.
LEMMA ReleaseType ==
  ASSUME TypeOK, NEW m \in Mutexes
  PROVE  release_queue(m) \in QueueMaps /\ release_word(m) \in [Mutexes -> BOOLEAN]
<1>1. queue \in QueueMaps /\ m \in Queues /\ runnable_queue \in Queues
  BY DEF TypeOK, SchedulerTypeOK, QueueMaps, Queues
<1>2. CASE queue[m] # <<>>
  BY <1>1, <1>2, PopFrontType, PushBackType DEF release_queue, release_word, MoveFront, TypeOK, ThreadTypeOK
<1>3. CASE queue[m] = <<>>
  BY <1>1, <1>3 DEF release_queue, release_word, TypeOK, ThreadTypeOK
<1> QED BY <1>2, <1>3

LEMMA SuspendType ==
  ASSUME ThreadTypeOK, current_thread \in Threads,
         NEW call \in Calls, NEW x \in Threads \cup Mutexes \cup {NULL},
         call = "join" => x \in Threads,
         call \in {"lock", "wait"} => x \in Mutexes,
         Suspend(call, x)
  PROVE  /\ pc' \in [Threads -> Calls]
         /\ obj' \in [Threads -> Threads \cup Mutexes \cup {NULL}]
         /\ \A t \in Threads : /\ pc'[t] = "join" => obj'[t] \in Threads
                               /\ pc'[t] \in {"lock", "wait"} => obj'[t] \in Mutexes
<1>1. /\ pc' = [pc EXCEPT ![current_thread] = call]
      /\ obj' = [obj EXCEPT ![current_thread] = x]
      /\ pc \in [Threads -> Calls]
      /\ obj \in [Threads -> Threads \cup Mutexes \cup {NULL}]
  BY DEF Suspend, ThreadTypeOK
<1>2. pc' \in [Threads -> Calls] /\ obj' \in [Threads -> Threads \cup Mutexes \cup {NULL}]
  BY <1>1
<1>3. ASSUME NEW t \in Threads
      PROVE  /\ pc'[t] = "join" => obj'[t] \in Threads
             /\ pc'[t] \in {"lock", "wait"} => obj'[t] \in Mutexes
  <2>1. CASE t = current_thread
    BY <1>1, <2>1
  <2>2. CASE t # current_thread
    BY <1>1, <2>2 DEF ThreadTypeOK
  <2> QED BY <2>1, <2>2
<1> QED BY <1>2, <1>3

LEMMA AcquireType ==
  ASSUME TypeOK, phase = "user", NEW m \in Mutexes, acquire(m),
         UNCHANGED <<dead, waiter, timing, live, clock>>
  PROVE  TypeOK'
<1>1. SchedulerTypeOK /\ ThreadTypeOK /\ current_thread \in Threads
      /\ queue \in QueueMaps /\ m \in Queues
  BY DEF TypeOK, SchedulerTypeOK, QueueMaps, Queues
<1>2. CASE ~locked[m]
  <2>1. SchedulerTypeOK'
    BY <1>1, <1>2 DEF acquire, scheduler, SchedulerTypeOK
  <2>2. Suspend("client", NULL)
    BY <1>2 DEF acquire, Return
  <2>4. locked' \in [Mutexes -> BOOLEAN]
    BY <1>2, <1>1 DEF acquire, ThreadTypeOK
  <2>5. holding' \in [Threads -> SUBSET Mutexes]
    <3>1. holding' = [holding EXCEPT ![current_thread] = holding[current_thread] \cup {m}]
      BY <1>2 DEF acquire
    <3> QED BY <1>1, <3>1 DEF ThreadTypeOK
  <2>3. ThreadTypeOK'
    BY <1>1, <2>2, <2>4, <2>5, SuspendType DEF ThreadTypeOK, Calls
  <2> QED BY <2>1, <2>3 DEF TypeOK
<1>3. CASE locked[m]
  <2>1. PushBack(queue, m, current_thread) \in QueueMaps
    BY <1>1, PushBackType
  <2>2. SchedulerTypeOK'
    BY <1>1, <1>3, <2>1, ScheduleType DEF acquire
  <2>3. ThreadTypeOK'
    BY <1>1, <1>3, SuspendType DEF acquire, ThreadTypeOK, Calls
  <2> QED BY <2>2, <2>3 DEF TypeOK
<1> QED BY <1>2, <1>3

LEMMA JoinLoopType ==
  ASSUME TypeOK, phase = "user", NEW u \in Threads, join_loop(u),
         waiter' \in [Threads -> Threads \cup {NULL, Wild}],
         UNCHANGED <<dead, timing, locked, live, holding, clock>>
  PROVE  TypeOK'
<1>1. SchedulerTypeOK /\ ThreadTypeOK /\ current_thread \in Threads /\ queue \in QueueMaps
  BY DEF TypeOK, SchedulerTypeOK, QueueMaps
<1>2. CASE dead[u]
  <2>1. SchedulerTypeOK'
    BY <1>1, <1>2 DEF join_loop, scheduler, SchedulerTypeOK
  <2>2. Suspend("client", NULL)
    BY <1>2 DEF join_loop, Return
  <2>3. ThreadTypeOK'
    BY <1>1, <2>2, SuspendType DEF ThreadTypeOK, Calls
  <2> QED BY <2>1, <2>3 DEF TypeOK
<1>3. CASE ~dead[u]
  <2>1. SchedulerTypeOK'
    BY <1>1, <1>3, ScheduleType DEF join_loop
  <2>2. Suspend("join", u)
    BY <1>3 DEF join_loop
  <2>3. ThreadTypeOK'
    BY <1>1, <2>2, SuspendType DEF ThreadTypeOK, Calls
  <2> QED BY <2>1, <2>3 DEF TypeOK
<1> QED BY <1>2, <1>3

\* Init establishes TypeOK.
LEMMA InitType == Init => TypeOK
<1> SUFFICES ASSUME Init PROVE TypeOK
  OBVIOUS
<1>1. [q \in Queues |-> <<>>] \in [Queues -> Seq(Threads)]
  OBVIOUS
<1>2. SchedulerTypeOK
  BY <1>1, ConstantsOK DEF Init, SchedulerTypeOK
<1>3. ThreadTypeOK
  BY ConstantsOK DEF Init, ThreadTypeOK, Calls
<1> QED BY <1>2, <1>3 DEF TypeOK

\* Every action keeps TypeOK.
LEMMA NextType == TypeOK /\ [Next]_vars => TypeOK'
<1> SUFFICES ASSUME TypeOK, [Next]_vars PROVE TypeOK'
  OBVIOUS
<1> USE DEF TypeOK
<1>1. /\ queue \in QueueMaps
      /\ runnable_queue \in Queues /\ sleeping_set \in Queues
      /\ Mutexes \subseteq Queues /\ Conds \subseteq Queues
      /\ phase = "user" => current_thread \in Threads /\ ~more
      /\ phase = "waking" => head \in Threads /\ current_thread \in Threads
  BY ConstantsOK DEF SchedulerTypeOK, QueueMaps, Queues
<1>2. ASSUME NEW u \in Threads, qthread_create(u) PROVE TypeOK'
  <2>1. queue' \in QueueMaps
    BY <1>1, <1>2, PushBackType DEF qthread_create
  <2>2. SchedulerTypeOK'
    BY <1>1, <2>1, <1>2 DEF qthread_create, InClient, SchedulerTypeOK, QueueMaps
  <2>3. ThreadTypeOK'
    BY <1>2 DEF qthread_create, ThreadTypeOK
  <2> QED BY <2>2, <2>3
<1>3. ASSUME NEW u \in Threads, qthread_join(u) PROVE TypeOK'
  <2>1. waiter' \in [Threads -> Threads \cup {NULL, Wild}]
    BY <1>1, <1>3 DEF qthread_join, InClient, ThreadTypeOK
  <2> QED BY <2>1, <1>3, JoinLoopType DEF qthread_join, InClient
<1>4. CASE qthread_yield
  <2>1. SchedulerTypeOK'
    BY <1>1, <1>4, ScheduleType DEF qthread_yield, InClient
  <2>2. ThreadTypeOK'
    BY <1>4 DEF qthread_yield, ThreadTypeOK
  <2> QED BY <2>1, <2>2
<1>5. CASE qthread_exit
  <2>1. dead' \in [Threads -> BOOLEAN]
    BY <1>5 DEF qthread_exit, ThreadTypeOK
  <2>2. ThreadTypeOK'
    BY <1>1, <1>5, <2>1, SuspendType DEF qthread_exit, InClient, ThreadTypeOK, Calls
  <2>3. CASE waiter[current_thread] = Wild
    BY <1>5, <2>2, <2>3 DEF qthread_exit, InClient, SchedulerTypeOK
  <2>4. CASE waiter[current_thread] # Wild
    <3> DEFINE w == waiter[current_thread]
               qs == IF w = NULL THEN queue ELSE PushBack(queue, runnable_queue, w)
    <3>1. w \in Threads \cup {NULL}
      BY <1>1, <1>5, <2>4 DEF qthread_exit, InClient, ThreadTypeOK
    <3>2. qs \in QueueMaps
      BY <1>1, <3>1, PushBackType
    <3>3. SchedulerTypeOK'
      BY <1>5, <2>4, <3>2, ScheduleType DEF qthread_exit, InClient
    <3> QED BY <2>2, <3>3
  <2> QED BY <2>2, <2>3, <2>4
<1>6. ASSUME NEW usecs \in Delays, qthread_usleep(usecs) PROVE TypeOK'
  <2>1. timing' \in [Threads -> Nat]
    <3>1. clock + usecs \in Nat
      BY ConstantsOK DEF ThreadTypeOK
    <3> QED BY <1>6, <3>1 DEF qthread_usleep, ThreadTypeOK
  <2>2. ThreadTypeOK'
    BY <1>1, <1>6, <2>1, SuspendType DEF qthread_usleep, InClient, ThreadTypeOK, Calls
  <2>3. SchedulerTypeOK'
    BY <1>1, <1>6, ScheduleType DEF qthread_usleep, InClient
  <2> QED BY <2>2, <2>3
<1>7. CASE MainReturns
  BY <1>7 DEF MainReturns, InClient, SchedulerTypeOK, ThreadTypeOK
<1>8. ASSUME NEW m \in Mutexes, qthread_mutex_create(m) PROVE TypeOK'
  <2>1. queue' \in QueueMaps
    BY <1>1, <1>8 DEF qthread_mutex_create, QueueMaps
  <2>2. SchedulerTypeOK'
    BY <1>1, <2>1, <1>8 DEF qthread_mutex_create, InClient, SchedulerTypeOK, QueueMaps
  <2>3. ThreadTypeOK'
    BY <1>8 DEF qthread_mutex_create, ThreadTypeOK
  <2> QED BY <2>2, <2>3
<1>9. ASSUME NEW m \in Mutexes, qthread_mutex_destroy(m) PROVE TypeOK'
  BY <1>9 DEF qthread_mutex_destroy, scheduler, SchedulerTypeOK, ThreadTypeOK
<1>10. ASSUME NEW m \in Mutexes, qthread_mutex_lock(m) PROVE TypeOK'
  BY <1>10, AcquireType DEF qthread_mutex_lock, InClient
<1>11. ASSUME NEW m \in Mutexes, qthread_mutex_unlock(m) PROVE TypeOK'
  <2>1. queue' \in QueueMaps /\ locked' \in [Mutexes -> BOOLEAN]
    BY <1>11, ReleaseType DEF qthread_mutex_unlock
  <2>2. SchedulerTypeOK'
    BY <1>1, <2>1, <1>11 DEF qthread_mutex_unlock, InClient, SchedulerTypeOK, QueueMaps
  <2>3. holding' \in [Threads -> SUBSET Mutexes]
    BY <1>11 DEF qthread_mutex_unlock, ThreadTypeOK
  <2>4. ThreadTypeOK'
    BY <2>1, <2>3, <1>11 DEF qthread_mutex_unlock, ThreadTypeOK
  <2> QED BY <2>2, <2>4
<1>12. ASSUME NEW c \in Conds, qthread_cond_create(c) PROVE TypeOK'
  <2>1. queue' \in QueueMaps
    BY <1>1, <1>12 DEF qthread_cond_create, QueueMaps
  <2>2. SchedulerTypeOK'
    BY <1>1, <2>1, <1>12 DEF qthread_cond_create, InClient, SchedulerTypeOK, QueueMaps
  <2>3. ThreadTypeOK'
    BY <1>12 DEF qthread_cond_create, ThreadTypeOK
  <2> QED BY <2>2, <2>3
<1>13. ASSUME NEW c \in Conds, qthread_cond_destroy(c) PROVE TypeOK'
  BY <1>13 DEF qthread_cond_destroy, scheduler, SchedulerTypeOK, ThreadTypeOK
<1>14. ASSUME NEW c \in Conds, qthread_cond_signal(c) PROVE TypeOK'
  <2>1. queue' \in QueueMaps
    BY <1>1, <1>14, PopFrontType, PushBackType DEF qthread_cond_signal, MoveFront
  <2>2. SchedulerTypeOK'
    BY <1>1, <2>1, <1>14 DEF qthread_cond_signal, InClient, SchedulerTypeOK, QueueMaps
  <2>3. ThreadTypeOK'
    BY <1>14 DEF qthread_cond_signal, ThreadTypeOK
  <2> QED BY <2>2, <2>3
<1>15. ASSUME NEW c \in Conds, qthread_cond_broadcast(c) PROVE TypeOK'
  <2>1. queue' \in QueueMaps
    <3>1. queue[runnable_queue] \o queue[c] \in Seq(Threads) /\ <<>> \in Seq(Threads)
      BY <1>1 DEF QueueMaps
    <3> QED BY <1>1, <1>15, <3>1 DEF qthread_cond_broadcast, QueueMaps
  <2>2. SchedulerTypeOK'
    BY <1>1, <2>1, <1>15 DEF qthread_cond_broadcast, InClient, SchedulerTypeOK, QueueMaps
  <2>3. ThreadTypeOK'
    BY <1>15 DEF qthread_cond_broadcast, ThreadTypeOK
  <2> QED BY <2>2, <2>3
<1>16. ASSUME NEW c \in Conds, NEW m \in Mutexes, qthread_cond_wait(c, m)
       PROVE  TypeOK'
  <2>1. /\ release_queue(m) \in QueueMaps /\ locked' \in [Mutexes -> BOOLEAN]
        /\ current_thread \in Threads /\ phase = "user"
    BY <1>1, <1>16, ReleaseType DEF qthread_cond_wait, InClient
  <2>2. PushBack(release_queue(m), c, current_thread) \in QueueMaps
    BY <1>1, <2>1, PushBackType
  <2>3. SchedulerTypeOK'
    BY <2>1, <2>2, <1>16, ScheduleType DEF qthread_cond_wait
  <2>4. holding' \in [Threads -> SUBSET Mutexes]
    BY <1>16 DEF qthread_cond_wait, ThreadTypeOK
  <2>5. ThreadTypeOK'
    BY <2>1, <2>4, <1>16, SuspendType DEF qthread_cond_wait, ThreadTypeOK, Calls
  <2> QED BY <2>3, <2>5
<1>17. CASE ResumeJoin
  <2>1. obj[current_thread] \in Threads /\ phase = "user"
    BY <1>1, <1>17 DEF ResumeJoin, ResumedIn, ThreadTypeOK
  <2>2. waiter' \in [Threads -> Threads \cup {NULL, Wild}]
    BY <1>17 DEF ResumeJoin, ThreadTypeOK
  <2> QED BY <1>17, <2>1, <2>2, JoinLoopType DEF ResumeJoin
<1>18. CASE ResumeSleep
  <2>1. SchedulerTypeOK'
    BY <1>18 DEF ResumeSleep, scheduler, SchedulerTypeOK
  <2>2. ThreadTypeOK'
    BY <1>1, <1>18, SuspendType DEF ResumeSleep, ResumedIn, Return, ThreadTypeOK, Calls
  <2> QED BY <2>1, <2>2
<1>19. CASE ResumeLock
  <2>1. SchedulerTypeOK'
    BY <1>19 DEF ResumeLock, scheduler, SchedulerTypeOK
  <2>2. holding' \in [Threads -> SUBSET Mutexes]
    BY <1>1, <1>19 DEF ResumeLock, ResumedIn, ThreadTypeOK
  <2>3. ThreadTypeOK'
    BY <1>1, <1>19, <2>2, SuspendType DEF ResumeLock, ResumedIn, Return, ThreadTypeOK, Calls
  <2> QED BY <2>1, <2>3
<1>20. CASE ResumeWait
  <2>1. obj[current_thread] \in Mutexes /\ phase = "user"
    BY <1>1, <1>20 DEF ResumeWait, ResumedIn, ThreadTypeOK
  <2> QED BY <1>20, <2>1, AcquireType DEF ResumeWait
<1>21. CASE WakeRotate
  <2> DEFINE rest == Tail(queue[sleeping_set])
  <2>1. /\ head \in Threads
        /\ queue[sleeping_set] \in Seq(Threads) /\ queue[sleeping_set] # <<>>
    BY <1>1, <1>21 DEF WakeRotate, SchedulerTypeOK
  <2>2. /\ rest \in Seq(Threads) /\ Head(queue[sleeping_set]) \in Threads
        /\ Append(rest, head) \in Seq(Threads) /\ Append(rest, head) # <<>>
    BY <2>1
  <2>3. /\ queue' \in QueueMaps /\ queue'[sleeping_set] # <<>>
        /\ head' \in Threads /\ more' \in BOOLEAN
    BY <1>1, <1>21, <2>2 DEF WakeRotate, QueueMaps
  <2>4. SchedulerTypeOK'
    BY <2>3, <1>21, ConstantsOK DEF WakeRotate, SchedulerTypeOK, QueueMaps
  <2>5. ThreadTypeOK'
    BY <1>21 DEF WakeRotate, ThreadTypeOK
  <2> QED BY <2>4, <2>5
<1>22. CASE WakeDone
  <2>1. PushBack(queue, runnable_queue, head) \in QueueMaps
    BY <1>1, <1>22, PushBackType DEF WakeDone
  <2>2. SchedulerTypeOK'
    BY <2>1, <1>22, SwitchType DEF WakeDone
  <2>3. ThreadTypeOK'
    BY <1>22 DEF WakeDone, ThreadTypeOK
  <2> QED BY <2>2, <2>3
<1>23. CASE Tick
  BY <1>23 DEF Tick, scheduler, SchedulerTypeOK, ThreadTypeOK
<1>24. CASE UNCHANGED vars
  BY <1>24 DEF vars, SchedulerTypeOK, ThreadTypeOK
<1> QED BY <1>2, <1>3, <1>4, <1>5, <1>6, <1>7, <1>8, <1>9, <1>10, <1>11, <1>12,
           <1>13, <1>14, <1>15, <1>16, <1>17, <1>18, <1>19, <1>20, <1>21, <1>22,
           <1>23, <1>24
        DEF Next, ThreadStep, SyncStep, ResumeStep, WakeStep, Terminated

\* Every variable stays in its range, for any number of threads, mutexes and
\* condition variables and whatever malloc returns.
THEOREM TypeCorrect == Spec => []TypeOK
<1>1. Init => TypeOK
  BY InitType
<1>2. TypeOK /\ [Next]_vars => TypeOK'
  BY NextType
<1> QED BY <1>1, <1>2, PTL DEF Spec

-----------------------------------------------------------------------------
(***************************************************************************)
(* The places a thread may be in: NoDoubleQueue and NoThreadLost, for any  *)
(* number of threads, mutexes and condition variables.                     *)
(***************************************************************************)

(***************************************************************************)
(* NoDoubleQueue and NoThreadLost need each other.  A thread's exit queues *)
(* its waiter, which must be in no queue: it must be suspended in the join *)
(* of this very thread, scheduled nowhere.  And a thread in a join may be  *)
(* scheduled nowhere only while the thread it joins lives and knows it.    *)
(***************************************************************************)
PlacesInv ==
  /\ NoDoubleQueue
  /\ NoThreadLost
  /\ Main \in live
  /\ \A t \in Threads : Scheduled(t) => t \in live
  /\ \A t \in Threads : t \notin live => pc[t] = "client"
  /\ \A u \in Threads : u \notin live \/ u = Main => waiter[u] \notin Threads
  /\ \A u \in Threads : u \in live /\ u # Main /\ dead[u] => pc[u] = "exited"
  /\ \A t \in Threads : pc[t] = "join" => obj[t] \in live
  /\ \A t \in Threads : pc[t] = "join" /\ Scheduled(t) => dead[obj[t]]
  /\ \A u \in Threads :
       ~dead[u] /\ waiter[u] \in Threads =>
         /\ pc[waiter[u]] = "join"
         /\ obj[waiter[u]] = u
         /\ ~Scheduled(waiter[u])

\* What the contract of _destroy keeps: an object that is not allocated has an
\* empty queue, and no thread holds it or is on its way to take it.
LiveInv ==
  /\ \A x \in (Mutexes \cup Conds) \ live : queue[x] = <<>>
  /\ \A t \in Threads : holding[t] \subseteq live
  /\ \A t \in Threads : pc[t] \in {"lock", "wait"} => obj[t] \in live

(***************************************************************************)
(* What the scheduler does to places.                                      *)
(***************************************************************************)

\* switch_runnable drops nobody: it takes the thread it runs out of its queue.
LEMMA SwitchPlaces ==
  ASSUME NEW qs \in QueueMaps, Distinct(qs), switch_runnable(qs), head' = NULL
  PROVE  /\ NoDoubleQueue'
         /\ \A x \in Threads : Scheduled(x)' <=> QueuedIn(qs, x)
<1>1. runnable_queue \in Queues
  BY DEF Queues
<1>2. CASE qs[runnable_queue] = <<>>
  BY <1>2, ConstantsOK DEF switch_runnable, NoDoubleQueue, Scheduled
<1>3. CASE qs[runnable_queue] # <<>>
  <2> DEFINE next == Head(qs[runnable_queue])
  <2>1. /\ next \in Threads /\ QueuedIn(qs, next)
        /\ Distinct(PopFront(qs, runnable_queue))
        /\ \A x : QueuedIn(PopFront(qs, runnable_queue), x) <=> QueuedIn(qs, x) /\ x # next
    BY <1>1, <1>3, PopFrontType, PopFrontDistinct, PopFrontQueued
  <2>2. /\ current_thread' = next /\ queue' = PopFront(qs, runnable_queue)
        /\ phase' \in {"user", "skipped"}
    BY <1>3 DEF switch_runnable
  <2> QED BY <2>1, <2>2, ConstantsOK DEF NoDoubleQueue, Scheduled
<1> QED BY <1>2, <1>3

\* schedule() leaves scheduled exactly who was queued, and its caller when the
\* caller yields or sleeps; a caller that waits may have queued itself before.
LEMMA SchedulePlaces ==
  ASSUME NEW qs \in QueueMaps, Distinct(qs), NEW exit \in {"yield", "exit", "wait", "sleep"},
         current_thread \in Threads,
         exit \in {"yield", "sleep"} => ~QueuedIn(qs, current_thread),
         head = NULL, schedule(exit, qs)
  PROVE  /\ NoDoubleQueue'
         /\ \A x \in Threads : Scheduled(x)' <=>
              QueuedIn(qs, x) \/ (exit \in {"yield", "sleep"} /\ x = current_thread)
<1> DEFINE requeued == requeue(exit, qs)
<1>1. runnable_queue \in Queues /\ sleeping_set \in Queues
  BY DEF Queues
<1>2. /\ requeued \in QueueMaps /\ Distinct(requeued)
      /\ \A x : QueuedIn(requeued, x) <=>
           QueuedIn(qs, x) \/ (exit \in {"yield", "sleep"} /\ x = current_thread)
  <2>1. CASE exit = "yield"
    <3>1. requeued = PushBack(qs, runnable_queue, current_thread)
      BY <2>1 DEF requeue
    <3> HIDE DEF requeued
    <3> QED BY <1>1, <2>1, <3>1, PushBackType, PushBackDistinct, PushBackQueued
  <2>2. CASE exit = "sleep"
    <3>1. requeued = PushBack(qs, sleeping_set, current_thread)
      BY <2>2 DEF requeue
    <3> HIDE DEF requeued
    <3> QED BY <1>1, <2>2, <3>1, PushBackType, PushBackDistinct, PushBackQueued
  <2>3. CASE exit \in {"exit", "wait"}
    <3>1. requeued = qs
      BY <2>3 DEF requeue
    <3> HIDE DEF requeued
    <3> QED BY <2>3, <3>1
  <2> QED BY <2>1, <2>2, <2>3
<1> HIDE DEF requeued
<1>3. CASE requeued[runnable_queue] = <<>> /\ requeued[sleeping_set] # <<>>
  <2>1. /\ head' = Head(requeued[sleeping_set]) /\ queue' = PopFront(requeued, sleeping_set)
        /\ phase' = "waking"
    BY <1>3 DEF requeued, schedule, enter_wake_loop
  <2>2. /\ head' \in Threads /\ QueuedIn(requeued, head') /\ Distinct(queue')
        /\ \A x : QueuedIn(queue', x) <=> QueuedIn(requeued, x) /\ x # head'
    BY <1>1, <1>2, <1>3, <2>1, PopFrontType, PopFrontDistinct, PopFrontQueued
  <2> QED BY <1>2, <2>1, <2>2 DEF NoDoubleQueue, Scheduled
<1>4. CASE ~(requeued[runnable_queue] = <<>> /\ requeued[sleeping_set] # <<>>)
  <2>1. switch_runnable(requeued) /\ head' = NULL
    BY <1>4 DEF requeued, schedule
  <2> QED BY <1>2, <2>1, SwitchPlaces
<1> QED BY <1>3, <1>4

\* Moving the front of one queue to another keeps everybody's place unique.
LEMMA MovePlaces ==
  ASSUME NEW qs \in QueueMaps, Distinct(qs), NEW from \in Queues, NEW to \in Queues,
         qs[from] # <<>>
  PROVE  /\ MoveFront(qs, from, to) \in QueueMaps
         /\ Distinct(MoveFront(qs, from, to))
         /\ \A x : QueuedIn(MoveFront(qs, from, to), x) <=> QueuedIn(qs, x)
<1> DEFINE t == Head(qs[from])
           popped == PopFront(qs, from)
<1>1. /\ t \in Threads /\ QueuedIn(qs, t)
      /\ popped \in QueueMaps /\ Distinct(popped)
      /\ \A x : QueuedIn(popped, x) <=> QueuedIn(qs, x) /\ x # t
  BY PopFrontType, PopFrontDistinct, PopFrontQueued
<1> HIDE DEF t, popped
<1>2. /\ PushBack(popped, to, t) \in QueueMaps
      /\ Distinct(PushBack(popped, to, t))
      /\ \A x : QueuedIn(PushBack(popped, to, t), x) <=> QueuedIn(popped, x) \/ x = t
  BY <1>1, PushBackType, PushBackDistinct, PushBackQueued
<1>3. MoveFront(qs, from, to) = PushBack(popped, to, t)
  BY DEF MoveFront, popped, t
<1> QED BY <1>1, <1>2, <1>3

LEMMA ReleasePlaces ==
  ASSUME TypeOK, Distinct(queue), NEW m \in Mutexes
  PROVE  /\ release_queue(m) \in QueueMaps /\ Distinct(release_queue(m))
         /\ \A x : QueuedIn(release_queue(m), x) <=> QueuedIn(queue, x)
<1>1. queue \in QueueMaps /\ m \in Queues /\ runnable_queue \in Queues
  BY DEF TypeOK, SchedulerTypeOK, QueueMaps, Queues
<1>2. CASE queue[m] # <<>>
  BY <1>1, <1>2, MovePlaces DEF release_queue
<1>3. CASE queue[m] = <<>>
  BY <1>1, <1>3 DEF release_queue
<1> QED BY <1>2, <1>3

\* Moving a whole queue behind another keeps everybody's place unique.
LEMMA JoinPlaces ==
  ASSUME NEW qs \in QueueMaps, Distinct(qs), NEW from \in Queues, NEW to \in Queues,
         from # to
  PROVE  LET new == [qs EXCEPT ![to] = @ \o qs[from], ![from] = <<>>] IN
         /\ Distinct(new)
         /\ \A x : QueuedIn(new, x) <=> QueuedIn(qs, x)
<1> DEFINE new == [qs EXCEPT ![to] = @ \o qs[from], ![from] = <<>>]
           n == Len(qs[to])
           k == Len(qs[from])
<1>1. /\ qs[to] \in Seq(Threads) /\ qs[from] \in Seq(Threads)
      /\ n \in Nat /\ k \in Nat
      /\ DOMAIN qs[to] = 1..n /\ DOMAIN qs[from] = 1..k
  BY DEF QueueMaps
<1>2. /\ new[to] = qs[to] \o qs[from] /\ new[from] = <<>>
      /\ \A p \in Queues \ {from, to} : new[p] = qs[p]
  BY DEF QueueMaps
<1> HIDE DEF new
<1> DEFINE cat == qs[to] \o qs[from]
<1>8. /\ cat \in Seq(Threads) /\ Len(cat) = n + k
      /\ \A i \in 1..n + k : cat[i] = IF i <= n THEN qs[to][i] ELSE qs[from][i - n]
      /\ new[to] = cat
  BY <1>1, <1>2, ConcatProperties, ZenonT(40)
<1> HIDE DEF n, k, cat
<1>3. /\ DOMAIN new[to] = 1..n + k
      /\ \A i \in 1..n : new[to][i] = qs[to][i]
      /\ \A i \in 1..k : new[to][n + i] = qs[from][i]
  <2>1. DOMAIN new[to] = 1..n + k
    BY <1>8
  <2>2. ASSUME NEW i \in 1..n PROVE new[to][i] = qs[to][i]
    <3>1. i \in 1..n + k /\ i <= n
      BY <1>1
    <3> QED BY <1>8, <3>1
  <2>3. ASSUME NEW i \in 1..k PROVE new[to][n + i] = qs[from][i]
    <3>1. n + i \in 1..n + k /\ ~(n + i <= n) /\ (n + i) - n = i
      BY <1>1
    <3> QED BY <1>8, <3>1
  <2> QED BY <2>1, <2>2, <2>3
<1>4. DOMAIN new[from] = {}
  BY <1>2
\* Where a place of the new queues was before.
<1>5. ASSUME NEW p \in Queues, NEW i \in DOMAIN new[p]
      PROVE  \/ p # from /\ i \in DOMAIN qs[p] /\ new[p][i] = qs[p][i]
             \/ p = to /\ i - n \in DOMAIN qs[from] /\ new[p][i] = qs[from][i - n] /\ i > n
  <2>1. CASE p = to
    <3>1. CASE i \in 1..n
      BY <2>1, <3>1, <1>1, <1>3
    <3>2. CASE i \notin 1..n
      <4>1. i \in 1..n + k /\ i > n
        BY <2>1, <3>2, <1>1, <1>3
      <4>2. i - n \in 1..k /\ n + (i - n) = i
        BY <4>1, <1>1
      <4> QED BY <2>1, <4>1, <4>2, <1>1, <1>3
    <3> QED BY <3>1, <3>2
  <2>2. CASE p # to
    BY <2>2, <1>2, <1>4
  <2> QED BY <2>1, <2>2
<1>6. Distinct(new)
  <2> SUFFICES ASSUME NEW p \in Queues, NEW q \in Queues,
                      NEW i \in DOMAIN new[p], NEW j \in DOMAIN new[q],
                      new[p][i] = new[q][j]
               PROVE  p = q /\ i = j
    BY DEF Distinct
  <2>0. \A a, b \in Queues : \A y \in DOMAIN qs[a], z \in DOMAIN qs[b] :
          qs[a][y] = qs[b][z] => a = b /\ y = z
    BY DEF Distinct
  <2>1. CASE p # from /\ i \in DOMAIN qs[p] /\ new[p][i] = qs[p][i]
    <3>1. CASE q # from /\ j \in DOMAIN qs[q] /\ new[q][j] = qs[q][j]
      <4>1. qs[p][i] = qs[q][j] /\ j \in DOMAIN qs[q]
        BY <2>1, <3>1
      <4> QED BY <2>0, <2>1, <4>1
    <3>2. CASE j - n \in DOMAIN qs[from] /\ new[q][j] = qs[from][j - n]
      <4>1. qs[p][i] = qs[from][j - n] /\ j - n \in DOMAIN qs[from]
        BY <2>1, <3>2
      <4> QED BY <2>0, <2>1, <4>1
    <3> QED BY <3>1, <3>2, <1>5
  <2>2. CASE p = to /\ i - n \in DOMAIN qs[from] /\ new[p][i] = qs[from][i - n] /\ i > n
    <3>1. CASE q # from /\ j \in DOMAIN qs[q] /\ new[q][j] = qs[q][j]
      BY <2>2, <3>1 DEF Distinct
    <3>2. CASE q = to /\ j - n \in DOMAIN qs[from] /\ new[q][j] = qs[from][j - n] /\ j > n
      <4>1. i - n = j - n
        BY <2>2, <3>2 DEF Distinct
      <4>2. i \in 1..n + k /\ j \in 1..n + k
        BY <2>2, <3>2, <1>3
      <4> QED BY <2>2, <3>2, <4>1, <4>2, <1>1
    <3> QED BY <3>1, <3>2, <1>5
  <2> QED BY <2>1, <2>2, <1>5
<1>7. ASSUME NEW x PROVE QueuedIn(new, x) <=> QueuedIn(qs, x)
  <2>1. ASSUME QueuedIn(new, x) PROVE QueuedIn(qs, x)
    <3>1. PICK p \in Queues : \E i \in DOMAIN new[p] : new[p][i] = x
      BY <2>1 DEF QueuedIn, Elements
    <3>2. PICK i \in DOMAIN new[p] : new[p][i] = x
      BY <3>1
    <3> QED BY <3>2, <1>5 DEF QueuedIn, Elements
  <2>2. ASSUME QueuedIn(qs, x) PROVE QueuedIn(new, x)
    <3>5. PICK p \in Queues : \E i \in DOMAIN qs[p] : qs[p][i] = x
      BY <2>2 DEF QueuedIn, Elements
    <3>1. PICK i \in DOMAIN qs[p] : qs[p][i] = x
      BY <3>5
    <3>2. CASE p = from
      <4>1. n + i \in DOMAIN new[to] /\ new[to][n + i] = x
        BY <3>1, <3>2, <1>1, <1>3
      <4> QED BY <4>1 DEF QueuedIn, Elements
    <3>3. CASE p = to
      <4>1. i \in DOMAIN new[to] /\ new[to][i] = x
        BY <3>1, <3>3, <1>1, <1>3
      <4> QED BY <4>1 DEF QueuedIn, Elements
    <3>4. CASE p \notin {from, to}
      BY <3>1, <3>4, <1>2 DEF QueuedIn, Elements
    <3> QED BY <3>2, <3>3, <3>4
  <2> QED BY <2>1, <2>2
<1> QED BY <1>6, <1>7 DEF new

(***************************************************************************)
(* The steps.                                                              *)
(***************************************************************************)

\* Most steps keep who is scheduled, and change what a thread is doing only for
\* one that is scheduled and does not go into a join.
Quiet ==
  /\ UNCHANGED <<dead, waiter>>
  /\ live' \cap Threads = live \cap Threads
  /\ NoDoubleQueue'
  /\ \A t \in Threads : Scheduled(t)' <=> Scheduled(t)
  /\ \A t \in Threads : \/ pc'[t] = pc[t] /\ obj'[t] = obj[t]
                        \/ Scheduled(t) /\ pc[t] # "exited" /\ pc'[t] # "join"

\* Such a step keeps the invariant.
LEMMA QuietPlaces ==
  ASSUME TypeOK, PlacesInv, Quiet
  PROVE  PlacesInv'
<1> USE DEF Quiet
<1>1. \A t \in Threads : t \in live' <=> t \in live
  OBVIOUS
<1>2. Main \in Threads
  BY ConstantsOK
<1>3. NoThreadLost'
  <2> SUFFICES ASSUME NEW t \in Threads, t \in live, ~dead[t], ~Scheduled(t)
               PROVE  AwaitsExit(t)'
    BY <1>1 DEF NoThreadLost
  <2>1. AwaitsExit(t)
    BY DEF PlacesInv, NoThreadLost
  <2> QED BY <2>1 DEF AwaitsExit
<1>4. Main \in live'
  BY <1>1, <1>2 DEF PlacesInv
<1>5. \A t \in Threads : /\ Scheduled(t)' => t \in live'
                         /\ t \notin live' => pc'[t] = "client"
  BY <1>1 DEF PlacesInv
<1>6. \A u \in Threads : u \notin live' \/ u = Main => waiter'[u] \notin Threads
  BY <1>1 DEF PlacesInv
<1>7. \A u \in Threads : u \in live' /\ u # Main /\ dead'[u] => pc'[u] = "exited"
  BY <1>1 DEF PlacesInv
<1>8. \A t \in Threads : pc'[t] = "join" => /\ obj'[t] \in live'
                                            /\ Scheduled(t)' => dead'[obj'[t]]
  <2> SUFFICES ASSUME NEW t \in Threads, pc'[t] = "join"
               PROVE  obj'[t] \in live' /\ (Scheduled(t)' => dead'[obj'[t]])
    OBVIOUS
  <2>1. pc[t] = "join" /\ obj'[t] = obj[t] /\ obj[t] \in Threads
    BY DEF TypeOK, ThreadTypeOK
  <2> QED BY <2>1, <1>1 DEF PlacesInv
<1>9. ASSUME NEW u \in Threads, ~dead'[u], waiter'[u] \in Threads
      PROVE  /\ pc'[waiter'[u]] = "join"
             /\ obj'[waiter'[u]] = u
             /\ ~Scheduled(waiter[u])'
  <2>1. /\ waiter[u] \in Threads /\ pc[waiter[u]] = "join"
        /\ obj[waiter[u]] = u /\ ~Scheduled(waiter[u])
    BY <1>9 DEF PlacesInv
  <2> QED BY <2>1
<1> QED BY <1>3, <1>4, <1>5, <1>6, <1>7, <1>8, <1>9 DEF PlacesInv

\* A client's call finds its caller scheduled, alone, alive, and awaited by
\* nobody who is scheduled himself.
LEMMA CallerPlaces ==
  ASSUME TypeOK, PlacesInv, phase = "user"
  PROVE  /\ queue \in QueueMaps /\ Distinct(queue)
         /\ current_thread \in Threads /\ current_thread \in live
         /\ Scheduled(current_thread) /\ ~QueuedIn(queue, current_thread)
         /\ head = NULL
         /\ \A x \in Threads : Scheduled(x) <=> QueuedIn(queue, x) \/ x = current_thread
<1>1. queue \in QueueMaps /\ current_thread \in Threads /\ head = NULL
  BY DEF TypeOK, SchedulerTypeOK, QueueMaps
<1>2. \A x \in Threads : Scheduled(x) <=> QueuedIn(queue, x) \/ x = current_thread
  BY <1>1, ConstantsOK DEF Scheduled
<1> QED BY <1>1, <1>2 DEF PlacesInv, NoDoubleQueue

\* Locking, from a client's call or from cond_wait, keeps everybody scheduled:
\* one who must wait is in the mutex's queue.
LEMMA AcquirePlaces ==
  ASSUME TypeOK, PlacesInv, phase = "user", pc[current_thread] # "exited",
         NEW m \in Mutexes, acquire(m), UNCHANGED <<dead, waiter, live>>
  PROVE  Quiet
<1>1. m \in Queues
  BY DEF Queues
<1>2. NoDoubleQueue' /\ \A t \in Threads : Scheduled(t)' <=> Scheduled(t)
  <2>1. CASE ~locked[m]
    BY <2>1 DEF acquire, scheduler, PlacesInv, NoDoubleQueue, Scheduled
  <2>2. CASE locked[m]
    <3> DEFINE qs == PushBack(queue, m, current_thread)
    <3>1. /\ qs \in QueueMaps
          /\ \A x : QueuedIn(qs, x) <=> QueuedIn(queue, x) \/ x = current_thread
          /\ Distinct(qs)
      BY <1>1, CallerPlaces, PushBackType, PushBackQueued, PushBackDistinct
    <3>2. schedule("wait", qs)
      BY <2>2 DEF acquire
    <3> QED BY <3>1, <3>2, CallerPlaces, SchedulePlaces
  <2> QED BY <2>1, <2>2
<1>3. \A t \in Threads : \/ pc'[t] = pc[t] /\ obj'[t] = obj[t]
                         \/ t = current_thread /\ pc'[t] # "join"
  BY CallerPlaces DEF acquire, Return, Suspend, TypeOK, ThreadTypeOK
<1> QED BY <1>2, <1>3, CallerPlaces DEF Quiet

LEMMA InitPlaces == Init => PlacesInv
<1> SUFFICES ASSUME Init PROVE PlacesInv
  OBVIOUS
<1>1. \A t : ~QueuedIn(queue, t)
  <2>1. DOMAIN <<>> = {}
    OBVIOUS
  <2>2. Elements(<<>>) = {}
    BY <2>1 DEF Elements
  <2>3. \A q \in Queues : queue[q] = <<>>
    BY DEF Init
  <2> QED BY <2>2, <2>3 DEF QueuedIn
<1>2. NoDoubleQueue
  BY <1>1, ConstantsOK DEF Init, NoDoubleQueue, Distinct
<1>3. \A t \in Threads : Scheduled(t) <=> t = Main
  BY <1>1, ConstantsOK DEF Init, Scheduled
<1>4. NoThreadLost
  BY <1>3 DEF Init, NoThreadLost
<1> QED BY <1>2, <1>3, <1>4, ConstantsOK DEF Init, PlacesInv

LEMMA CreatePlaces ==
  ASSUME TypeOK, PlacesInv, NEW u \in Threads, qthread_create(u)
  PROVE  PlacesInv'
<1>1. /\ phase = "user" /\ u \notin live /\ live' = live \cup {u}
      /\ ~dead'[u] /\ waiter'[u] = NULL
      /\ \A t \in Threads \ {u} : dead'[t] = dead[t] /\ waiter'[t] = waiter[t]
      /\ queue' = PushBack(queue, runnable_queue, u)
      /\ UNCHANGED <<current_thread, phase, head, pc, obj>>
  BY DEF qthread_create, InClient, TypeOK, ThreadTypeOK
<1>2. runnable_queue \in Queues /\ queue \in QueueMaps
  BY <1>1, CallerPlaces DEF Queues
<1>3. ~Scheduled(u) /\ u # current_thread /\ u # Main
  BY <1>1, CallerPlaces DEF PlacesInv
<1>4. Distinct(queue') /\ \A x \in Threads : QueuedIn(queue', x) <=> QueuedIn(queue, x) \/ x = u
  BY <1>1, <1>2, <1>3, CallerPlaces, PushBackDistinct, PushBackQueued DEF Scheduled
<1>5. NoDoubleQueue'
  BY <1>1, <1>3, <1>4, CallerPlaces DEF NoDoubleQueue
<1>6. \A x \in Threads : Scheduled(x)' <=> Scheduled(x) \/ x = u
  BY <1>1, <1>4, CallerPlaces DEF Scheduled
<1>7. ASSUME NEW t \in Threads, pc[t] = "join"
      PROVE  /\ t # u /\ obj[t] \in Threads /\ obj[t] \in live' /\ obj[t] # u
             /\ dead'[obj[t]] = dead[obj[t]]
             /\ waiter'[obj[t]] = waiter[obj[t]]
  BY <1>1, <1>7 DEF PlacesInv, TypeOK, ThreadTypeOK
<1>8. NoThreadLost'
  <2> SUFFICES ASSUME NEW t \in Threads, t \in live', ~dead'[t], ~Scheduled(t)'
               PROVE  AwaitsExit(t)'
    BY DEF NoThreadLost
  <2>1. AwaitsExit(t)
    BY <1>1, <1>6 DEF PlacesInv, NoThreadLost
  <2> QED BY <1>1, <1>7, <2>1 DEF AwaitsExit
<1>9. \A t \in Threads : pc[t] = "join" /\ Scheduled(t)' => dead'[obj[t]]
  BY <1>6, <1>7 DEF PlacesInv
<1>10. ASSUME NEW v \in Threads, ~dead'[v], waiter'[v] \in Threads
       PROVE  pc[waiter'[v]] = "join" /\ obj[waiter'[v]] = v /\ ~Scheduled(waiter[v])'
  <2>1. v # u
    BY <1>1, <1>10, ConstantsOK
  <2>2. /\ waiter[v] \in Threads /\ waiter'[v] = waiter[v] /\ pc[waiter[v]] = "join"
        /\ obj[waiter[v]] = v /\ ~Scheduled(waiter[v])
    BY <1>1, <1>10, <2>1 DEF PlacesInv
  <2> QED BY <1>6, <1>7, <2>2
<1>11. /\ \A t \in Threads : t \notin live' => pc'[t] = "client"
       /\ \A v \in Threads : v \notin live' \/ v = Main => waiter'[v] \notin Threads
       /\ \A v \in Threads : v \in live' /\ v # Main /\ dead'[v] => pc'[v] = "exited"
       /\ \A t \in Threads : Scheduled(t)' => t \in live'
       /\ Main \in live'
  BY <1>1, <1>3, <1>6 DEF PlacesInv
<1> QED BY <1>1, <1>5, <1>7, <1>8, <1>9, <1>10, <1>11 DEF PlacesInv

LEMMA ExitPlaces ==
  ASSUME TypeOK, PlacesInv, qthread_exit
  PROVE  PlacesInv'
<1> DEFINE me == current_thread
           w == waiter[me]
<1>1. /\ phase = "user" /\ pc[me] = "client"
      /\ dead'[me] /\ pc'[me] = "exited"
      /\ \A t \in Threads \ {me} : dead'[t] = dead[t] /\ pc'[t] = pc[t] /\ obj'[t] = obj[t]
      /\ UNCHANGED <<waiter, live>>
      /\ me \in Threads /\ me \in live
  BY CallerPlaces DEF qthread_exit, InClient, Suspend, TypeOK, ThreadTypeOK
<1>2. \A t \in Threads : pc'[t] = "join" => t # me /\ pc[t] = "join" /\ obj'[t] = obj[t]
  BY <1>1
<1>3. w \in Threads => ~dead[me] /\ me # Main /\ w # me /\ ~Scheduled(w)
                       /\ pc[w] = "join" /\ obj[w] = me
  BY <1>1, CallerPlaces DEF PlacesInv
\* Who is scheduled now: the waiter is, and the caller no more unless the
\* process crashed.
<1>4. /\ NoDoubleQueue'
      /\ \A x \in Threads : (Scheduled(x) /\ x # me) \/ (x = w /\ x # me) => Scheduled(x)'
      /\ \A x \in Threads : Scheduled(x)' => Scheduled(x) \/ x = w
  <2>1. CASE w = Wild
    <3>1. phase' = "segv" /\ UNCHANGED <<current_thread, queue, head, more>>
      BY <2>1 DEF qthread_exit
    <3> QED BY <1>1, <2>1, <3>1, CallerPlaces, ConstantsOK DEF NoDoubleQueue, Scheduled
  <2>2. CASE w = NULL
    <3>1. schedule("exit", queue)
      BY <2>2, ConstantsOK DEF qthread_exit
    <3> QED BY <1>1, <2>2, <3>1, CallerPlaces, SchedulePlaces, ConstantsOK
  <2>3. CASE w \in Threads
    <3> DEFINE qs == PushBack(queue, runnable_queue, w)
    <3>1. schedule("exit", qs)
      BY <2>3, ConstantsOK DEF qthread_exit
    <3>2. ~QueuedIn(queue, w)
      BY <1>1, <1>3, <2>3, CallerPlaces
    <3>3. /\ qs \in QueueMaps /\ Distinct(qs)
          /\ \A x : QueuedIn(qs, x) <=> QueuedIn(queue, x) \/ x = w
      BY <1>1, <2>3, <3>2, CallerPlaces, PushBackType, PushBackDistinct, PushBackQueued
         DEF Queues
    <3> HIDE DEF qs
    <3>4. NoDoubleQueue' /\ \A x \in Threads : Scheduled(x)' <=> QueuedIn(qs, x)
      BY <1>1, <3>1, <3>3, CallerPlaces, SchedulePlaces
    <3> QED BY <1>1, <1>3, <2>3, <3>3, <3>4, CallerPlaces
  <2> QED BY <1>1, <2>1, <2>2, <2>3 DEF TypeOK, ThreadTypeOK
<1> HIDE DEF w
<1>5. NoThreadLost'
  <2> SUFFICES ASSUME NEW t \in Threads, t \in live', ~dead'[t], ~Scheduled(t)'
               PROVE  AwaitsExit(t)'
    BY DEF NoThreadLost
  <2>1. t # me /\ ~dead[t] /\ ~Scheduled(t) /\ t # w
    BY <1>1, <1>4
  <2>2. pc[t] = "join" /\ ~dead[obj[t]] /\ waiter[obj[t]] = t
    BY <1>1, <2>1 DEF PlacesInv, NoThreadLost, AwaitsExit
  <2>3. obj[t] # me /\ obj[t] \in Threads
    BY <2>1, <2>2 DEF w, TypeOK, ThreadTypeOK
  <2> QED BY <1>1, <2>1, <2>2, <2>3 DEF AwaitsExit
<1>6. \A t \in Threads : Scheduled(t)' => t \in live'
  BY <1>1, <1>3, <1>4 DEF PlacesInv
<1>7. \A t \in Threads : pc'[t] = "join" => /\ obj'[t] \in live'
                                            /\ Scheduled(t)' => dead'[obj'[t]]
  <2> SUFFICES ASSUME NEW t \in Threads, pc'[t] = "join"
               PROVE  obj'[t] \in live' /\ (Scheduled(t)' => dead'[obj'[t]])
    OBVIOUS
  <2>1. pc[t] = "join" /\ obj'[t] = obj[t] /\ obj[t] \in Threads /\ t # me
    BY <1>2 DEF TypeOK, ThreadTypeOK
  <2>2. Scheduled(t)' => Scheduled(t) \/ obj[t] = me
    BY <1>3, <1>4
  <2> QED BY <1>1, <2>1, <2>2 DEF PlacesInv
<1>8. ASSUME NEW u \in Threads, ~dead'[u], waiter'[u] \in Threads
      PROVE  /\ pc'[waiter'[u]] = "join"
             /\ obj'[waiter'[u]] = u
             /\ ~Scheduled(waiter[u])'
  <2>1. u # me /\ ~dead[u] /\ waiter[u] \in Threads
    BY <1>1, <1>8
  <2>2. /\ pc[waiter[u]] = "join" /\ obj[waiter[u]] = u /\ ~Scheduled(waiter[u])
    BY <2>1 DEF PlacesInv
  <2>3. waiter[u] # w /\ waiter[u] # me
    BY <1>1, <1>3, <2>1, <2>2
  <2> QED BY <1>1, <1>4, <2>1, <2>2, <2>3
<1>9. /\ Main \in live'
      /\ \A t \in Threads : t \notin live' => pc'[t] = "client"
      /\ \A u \in Threads : u \notin live' \/ u = Main => waiter'[u] \notin Threads
      /\ \A u \in Threads : u \in live' /\ u # Main /\ dead'[u] => pc'[u] = "exited"
  BY <1>1 DEF PlacesInv
<1> QED BY <1>4, <1>5, <1>6, <1>7, <1>8, <1>9 DEF PlacesInv

LEMMA JoinLoopReturns ==
  ASSUME TypeOK, PlacesInv, phase = "user", pc[current_thread] # "exited",
         NEW u \in Threads, dead[u], join_loop(u),
         UNCHANGED <<dead, waiter, live>>
  PROVE  Quiet
<1>1. UNCHANGED scheduler /\ Suspend("client", NULL)
  BY DEF join_loop, Return
<1>2. NoDoubleQueue' /\ \A t \in Threads : Scheduled(t)' <=> Scheduled(t)
  BY <1>1 DEF scheduler, PlacesInv, NoDoubleQueue, Scheduled
<1>3. \A t \in Threads : \/ pc'[t] = pc[t] /\ obj'[t] = obj[t]
                         \/ t = current_thread /\ pc'[t] # "join"
  BY <1>1, CallerPlaces DEF Suspend, TypeOK, ThreadTypeOK
<1> QED BY <1>2, <1>3, CallerPlaces DEF Quiet

LEMMA JoinCallPlaces ==
  ASSUME TypeOK, PlacesInv, NEW u \in Threads, qthread_join(u)
  PROVE  PlacesInv'
<1> DEFINE me == current_thread
<1>1. /\ phase = "user" /\ pc[me] = "client"
      /\ u \in live /\ u # Main
      /\ dead[u] \/ waiter[u] = NULL
      /\ waiter'[u] = me
      /\ \A t \in Threads \ {u} : waiter'[t] = waiter[t]
      /\ UNCHANGED <<dead, live>>
      /\ join_loop(u)
      /\ me \in Threads /\ me \in live /\ Scheduled(me)
  BY CallerPlaces DEF qthread_join, InClient, TypeOK, ThreadTypeOK
\* In neither case does anybody but the caller change places.
<1>2. /\ NoDoubleQueue'
      /\ \A x \in Threads : Scheduled(x)' <=> Scheduled(x) /\ (dead[u] \/ x # me)
      /\ \A t \in Threads \ {me} : pc'[t] = pc[t] /\ obj'[t] = obj[t]
      /\ dead[u] => pc'[me] = "client"
      /\ ~dead[u] => pc'[me] = "join" /\ obj'[me] = u
  <2>1. CASE dead[u]
    BY <1>1, <2>1 DEF join_loop, Return, Suspend, scheduler, PlacesInv, NoDoubleQueue,
       Scheduled, TypeOK, ThreadTypeOK
  <2>2. CASE ~dead[u]
    <3>1. schedule("wait", queue) /\ Suspend("join", u)
      BY <1>1, <2>2 DEF join_loop
    <3>2. NoDoubleQueue' /\ \A x \in Threads : Scheduled(x)' <=> QueuedIn(queue, x)
      BY <1>1, <3>1, CallerPlaces, SchedulePlaces
    <3>3. /\ \A t \in Threads \ {me} : pc'[t] = pc[t] /\ obj'[t] = obj[t]
          /\ pc'[me] = "join" /\ obj'[me] = u
      BY <1>1, <3>1 DEF Suspend, TypeOK, ThreadTypeOK
    <3> QED BY <1>1, <2>2, <3>2, <3>3, CallerPlaces
  <2> QED BY <2>1, <2>2
<1>3. NoThreadLost'
  <2> SUFFICES ASSUME NEW t \in Threads, t \in live', ~dead'[t], ~Scheduled(t)'
               PROVE  AwaitsExit(t)'
    BY DEF NoThreadLost
  <2>1. CASE t = me
    BY <1>1, <1>2, <2>1 DEF AwaitsExit
  <2>2. CASE t # me
    <3>1. pc[t] = "join" /\ ~dead[obj[t]] /\ waiter[obj[t]] = t /\ obj[t] \in Threads
      BY <1>1, <1>2, <2>2 DEF PlacesInv, NoThreadLost, AwaitsExit, TypeOK, ThreadTypeOK
    <3>2. obj[t] # u
      BY <1>1, <3>1, ConstantsOK
    <3> QED BY <1>1, <1>2, <2>2, <3>1, <3>2 DEF AwaitsExit
  <2> QED BY <2>1, <2>2
<1>4. /\ Main \in live'
      /\ \A t \in Threads : Scheduled(t)' => t \in live'
      /\ \A t \in Threads : t \notin live' => pc'[t] = "client"
      /\ \A v \in Threads : v \notin live' \/ v = Main => waiter'[v] \notin Threads
  BY <1>1, <1>2 DEF PlacesInv
<1>5. \A v \in Threads : v \in live' /\ v # Main /\ dead'[v] => pc'[v] = "exited"
  BY <1>1, <1>2 DEF PlacesInv
<1>6. \A t \in Threads : pc'[t] = "join" => /\ obj'[t] \in live'
                                            /\ Scheduled(t)' => dead'[obj'[t]]
  BY <1>1, <1>2 DEF PlacesInv
<1>7. ASSUME NEW v \in Threads, ~dead'[v], waiter'[v] \in Threads
      PROVE  /\ pc'[waiter'[v]] = "join"
             /\ obj'[waiter'[v]] = v
             /\ ~(Scheduled(waiter[v])')
  <2>1. CASE v = u
    BY <1>1, <1>2, <1>7, <2>1
  <2>2. CASE v # u
    <3>1. /\ waiter[v] \in Threads /\ waiter'[v] = waiter[v] /\ pc[waiter[v]] = "join"
          /\ obj[waiter[v]] = v /\ ~Scheduled(waiter[v])
      BY <1>1, <1>7, <2>2 DEF PlacesInv
    <3> QED BY <1>1, <1>2, <3>1
  <2> QED BY <2>1, <2>2
<1> QED BY <1>2, <1>3, <1>4, <1>5, <1>6, <1>7 DEF PlacesInv

\* The two _create functions find the queue of a structure that is not
\* allocated empty, so their new queue drops nobody.
LEMMA NextLive == TypeOK /\ LiveInv /\ [Next]_vars => LiveInv'
<1> SUFFICES ASSUME TypeOK, LiveInv, [Next]_vars PROVE LiveInv'
  OBVIOUS
<1> DEFINE Objects == Mutexes \cup Conds
<1>1. /\ queue \in QueueMaps
      /\ runnable_queue \in Queues /\ sleeping_set \in Queues /\ Objects \subseteq Queues
      /\ \A x \in Objects : x \notin Threads /\ x \notin {runnable_queue, sleeping_set}
      /\ phase = "user" => current_thread \in Threads
      /\ pc \in [Threads -> Calls] /\ obj \in [Threads -> Threads \cup Mutexes \cup {NULL}]
      /\ holding \in [Threads -> SUBSET Mutexes]
  BY ConstantsOK DEF Queues, TypeOK, SchedulerTypeOK, ThreadTypeOK, QueueMaps
\* What a step must leave as it is.
<1>2. ASSUME live \subseteq live',
             \A x \in Objects \ live' : queue'[x] = queue[x],
             \A t \in Threads : holding'[t] \subseteq live,
             \A t \in Threads : \/ pc'[t] = pc[t] /\ obj'[t] = obj[t]
                                \/ pc'[t] \in {"lock", "wait"} => obj'[t] \in live
      PROVE  LiveInv'
  BY <1>2 DEF LiveInv
<1>3. ASSUME NEW qs \in QueueMaps, NEW exit, current_thread \in Threads, schedule(exit, qs)
      PROVE  \A x \in Objects : queue'[x] = qs[x]
  <2>1. /\ requeue(exit, qs) \in QueueMaps
        /\ \A x \in Objects : requeue(exit, qs)[x] = qs[x]
    BY <1>1, <1>3, RequeueType DEF requeue, PushBack, QueueMaps
  <2>2. ASSUME NEW rs \in QueueMaps, switch_runnable(rs)
        PROVE  \A x \in Objects : queue'[x] = rs[x]
    BY <1>1, <2>2 DEF switch_runnable, PopFront, QueueMaps
  <2>3. ASSUME NEW rs \in QueueMaps, enter_wake_loop(rs)
        PROVE  \A x \in Objects : queue'[x] = rs[x]
    BY <1>1, <2>3 DEF enter_wake_loop, PopFront, QueueMaps
  <2> QED BY <1>3, <2>1, <2>2, <2>3 DEF schedule
\* A step that changes neither the objects' queues nor what is allocated, and
\* leaves its caller with no object it did not have.
<1>4. ASSUME UNCHANGED <<live, holding>>,
             \A x \in Objects : queue'[x] = queue[x],
             \A t \in Threads : \/ pc'[t] = pc[t] /\ obj'[t] = obj[t]
                                \/ pc'[t] \notin {"lock", "wait"}
      PROVE  LiveInv'
  BY <1>2, <1>4 DEF LiveInv
<1>5. ASSUME NEW call, NEW x, Suspend(call, x), current_thread \in Threads
      PROVE  \A t \in Threads : \/ pc'[t] = pc[t] /\ obj'[t] = obj[t]
                                \/ pc'[t] = call /\ obj'[t] = x
  BY <1>1, <1>5 DEF Suspend
<1>6. ASSUME NEW u, join_loop(u), phase = "user", UNCHANGED <<live, holding>>
      PROVE  LiveInv'
  <2>1. CASE dead[u]
    BY <1>1, <1>4, <1>5, <1>6, <2>1 DEF join_loop, Return, scheduler
  <2>2. CASE ~dead[u]
    BY <1>1, <1>3, <1>4, <1>5, <1>6, <2>2 DEF join_loop
  <2> QED BY <2>1, <2>2
<1>7. ASSUME NEW m \in Mutexes, m \in live, acquire(m), phase = "user", UNCHANGED live
      PROVE  LiveInv'
  <2>1. CASE ~locked[m]
    <3>1. \A t \in Threads : holding'[t] \subseteq live
      BY <1>1, <1>7, <2>1 DEF acquire, LiveInv
    <3> QED BY <1>1, <1>2, <1>5, <1>7, <2>1, <3>1 DEF acquire, Return, scheduler
  <2>2. CASE locked[m]
    <3> DEFINE qs == PushBack(queue, m, current_thread)
    <3>1. /\ schedule("wait", qs) /\ Suspend("lock", m) /\ holding' = holding
          /\ current_thread \in Threads
      BY <1>1, <1>7, <2>2 DEF acquire
    <3>2. qs \in QueueMaps /\ \A x \in Objects \ live : qs[x] = queue[x]
      BY <1>1, <1>7, <3>1, PushBackType DEF PushBack, QueueMaps
    <3>3. \A x \in Objects \ live : queue'[x] = queue[x]
      BY <1>3, <3>1, <3>2
    <3> QED BY <1>2, <1>5, <1>7, <3>1, <3>3 DEF LiveInv
  <2> QED BY <2>1, <2>2
\* What an unlock and the signals do to the objects' queues.
<1>8. ASSUME NEW x \in Objects, queue[x] # <<>>
      PROVE  \A y \in Objects \ live : MoveFront(queue, x, runnable_queue)[y] = queue[y]
  BY <1>1, <1>8 DEF MoveFront, PushBack, PopFront, LiveInv, QueueMaps
<1>9. ASSUME NEW m \in Mutexes
      PROVE  \A y \in Objects \ live : release_queue(m)[y] = queue[y]
  BY <1>8 DEF release_queue
<1>10. ASSUME NEW u \in Threads, qthread_create(u) PROVE LiveInv'
  <2>1. \A x \in Objects : queue'[x] = queue[x]
    BY <1>1, <1>10 DEF qthread_create, PushBack, QueueMaps
  <2> QED BY <1>2, <1>10, <2>1 DEF qthread_create, LiveInv
<1>11. ASSUME NEW u \in Threads, qthread_join(u) PROVE LiveInv'
  BY <1>6, <1>11 DEF qthread_join, InClient
<1>12. CASE qthread_yield
  BY <1>1, <1>3, <1>4, <1>12 DEF qthread_yield, InClient
<1>13. CASE qthread_exit
  <2>1. /\ phase = "user" /\ Suspend("exited", NULL) /\ UNCHANGED <<live, holding>>
        /\ waiter[current_thread] \in Threads \cup {NULL, Wild}
    BY <1>1, <1>13 DEF qthread_exit, InClient, TypeOK, ThreadTypeOK
  <2>2. \A x \in Objects : queue'[x] = queue[x]
    <3>1. CASE waiter[current_thread] = Wild
      BY <1>13, <3>1 DEF qthread_exit
    <3>2. CASE waiter[current_thread] = NULL
      BY <1>1, <1>3, <1>13, <2>1, <3>2, ConstantsOK DEF qthread_exit
    <3>3. CASE waiter[current_thread] \in Threads
      <4> DEFINE qs == PushBack(queue, runnable_queue, waiter[current_thread])
      <4>1. qs \in QueueMaps /\ \A x \in Objects : qs[x] = queue[x]
        BY <1>1, <3>3, PushBackType DEF PushBack, QueueMaps
      <4>2. schedule("exit", qs) /\ current_thread \in Threads
        BY <1>1, <1>13, <2>1, <3>3, ConstantsOK DEF qthread_exit
      <4> HIDE DEF qs
      <4> QED BY <1>3, <4>1, <4>2
    <3> QED BY <2>1, <3>1, <3>2, <3>3
  <2> QED BY <1>1, <1>4, <1>5, <2>1, <2>2
<1>14. ASSUME NEW usecs \in Delays, qthread_usleep(usecs) PROVE LiveInv'
  BY <1>1, <1>3, <1>4, <1>5, <1>14 DEF qthread_usleep, InClient
<1>15. CASE MainReturns
  BY <1>4, <1>15 DEF MainReturns
<1>16. ASSUME NEW m \in Mutexes, qthread_mutex_create(m) PROVE LiveInv'
  BY <1>1, <1>2, <1>16 DEF qthread_mutex_create, LiveInv, QueueMaps
<1>17. ASSUME NEW m \in Mutexes, qthread_mutex_destroy(m) PROVE LiveInv'
  BY <1>17 DEF qthread_mutex_destroy, scheduler, LiveInv
<1>18. ASSUME NEW m \in Mutexes, qthread_mutex_lock(m) PROVE LiveInv'
  BY <1>7, <1>18 DEF qthread_mutex_lock, InClient
<1>19. ASSUME NEW m \in Mutexes, qthread_mutex_unlock(m) PROVE LiveInv'
  <2>1. \A t \in Threads : holding'[t] \subseteq live
    BY <1>1, <1>19 DEF qthread_mutex_unlock, InClient, LiveInv
  <2> QED BY <1>2, <1>9, <1>19, <2>1 DEF qthread_mutex_unlock
<1>20. ASSUME NEW c \in Conds, qthread_cond_create(c) PROVE LiveInv'
  BY <1>1, <1>2, <1>20 DEF qthread_cond_create, LiveInv, QueueMaps
<1>21. ASSUME NEW c \in Conds, qthread_cond_destroy(c) PROVE LiveInv'
  <2>1. c \notin Mutexes
    BY ConstantsOK
  <2>2. /\ live' = live \ {c} /\ queue[c] = <<>>
        /\ UNCHANGED <<queue, holding, pc, obj>>
    BY <1>21 DEF qthread_cond_destroy, scheduler
  <2>3. \A t \in Threads : pc[t] \in {"lock", "wait"} => obj[t] \in Mutexes
    BY DEF TypeOK, ThreadTypeOK
  <2> QED BY <1>1, <2>1, <2>2, <2>3 DEF LiveInv
<1>22. ASSUME NEW c \in Conds, qthread_cond_signal(c) PROVE LiveInv'
  BY <1>2, <1>8, <1>22 DEF qthread_cond_signal, LiveInv
<1>23. ASSUME NEW c \in Conds, qthread_cond_broadcast(c) PROVE LiveInv'
  <2>1. \A x \in Objects \ live : queue'[x] = queue[x]
    BY <1>1, <1>23 DEF qthread_cond_broadcast, LiveInv, QueueMaps
  <2> QED BY <1>2, <1>23, <2>1 DEF qthread_cond_broadcast, LiveInv
<1>24. ASSUME NEW c \in Conds, NEW m \in Mutexes, qthread_cond_wait(c, m)
       PROVE  LiveInv'
  <2> DEFINE qs == PushBack(release_queue(m), c, current_thread)
  <2>1. /\ phase = "user" /\ current_thread \in Threads
        /\ c \in live /\ m \in live /\ UNCHANGED live
        /\ schedule("wait", qs) /\ Suspend("wait", m)
    BY <1>1, <1>24 DEF qthread_cond_wait, InClient, LiveInv
  <2>2. release_queue(m) \in QueueMaps
    BY ReleaseType
  <2>3. qs \in QueueMaps /\ \A x \in Objects \ live : qs[x] = queue[x]
    BY <1>1, <1>9, <2>1, <2>2, PushBackType DEF PushBack, QueueMaps
  <2> HIDE DEF qs
  <2>4. \A x \in Objects \ live : queue'[x] = queue[x]
    BY <1>3, <2>1, <2>3
  <2>5. \A t \in Threads : holding'[t] \subseteq live
    BY <1>1, <1>24, <2>1 DEF qthread_cond_wait, LiveInv
  <2> QED BY <1>2, <1>5, <2>1, <2>4, <2>5
<1>25. CASE ResumeJoin
  BY <1>6, <1>25 DEF ResumeJoin, ResumedIn
<1>26. CASE ResumeSleep
  BY <1>1, <1>4, <1>5, <1>26 DEF ResumeSleep, ResumedIn, Return, scheduler
<1>27. CASE ResumeLock
  <2>1. /\ current_thread \in Threads /\ obj[current_thread] \in live
        /\ Suspend("client", NULL) /\ UNCHANGED <<scheduler, live>>
    BY <1>1, <1>27 DEF ResumeLock, ResumedIn, Return, LiveInv
  <2>2. \A t \in Threads : holding'[t] \subseteq live
    BY <1>1, <1>27, <2>1 DEF ResumeLock, LiveInv
  <2> QED BY <1>2, <1>5, <2>1, <2>2 DEF scheduler
<1>28. CASE ResumeWait
  <2>1. obj[current_thread] \in Mutexes /\ obj[current_thread] \in live
    BY <1>1, <1>28 DEF ResumeWait, ResumedIn, LiveInv, TypeOK, ThreadTypeOK
  <2> QED BY <1>7, <1>28, <2>1 DEF ResumeWait, ResumedIn
<1>29. CASE WakeRotate
  BY <1>1, <1>4, <1>29 DEF WakeRotate, QueueMaps
<1>30. CASE WakeDone
  <2> DEFINE qs == PushBack(queue, runnable_queue, head)
  <2>1. qs \in QueueMaps /\ \A x \in Objects : qs[x] = queue[x]
    BY <1>1, <1>30, PushBackType DEF WakeDone, PushBack, QueueMaps, TypeOK, SchedulerTypeOK
  <2>2. switch_runnable(qs)
    BY <1>30 DEF WakeDone
  <2> HIDE DEF qs
  <2>3. \A x \in Objects : queue'[x] = qs[x]
    BY <1>1, <2>1, <2>2 DEF switch_runnable, PopFront, QueueMaps
  <2> QED BY <1>4, <1>30, <2>1, <2>3 DEF WakeDone
<1>31. CASE Tick
  BY <1>4, <1>31 DEF Tick, scheduler
<1>32. CASE UNCHANGED vars
  BY <1>4, <1>32 DEF vars
<1> QED BY <1>10, <1>11, <1>12, <1>13, <1>14, <1>15, <1>16, <1>17, <1>18, <1>19,
           <1>20, <1>21, <1>22, <1>23, <1>24, <1>25, <1>26, <1>27, <1>28, <1>29,
           <1>30, <1>31, <1>32
        DEF Next, ThreadStep, SyncStep, ResumeStep, WakeStep, Terminated

\* Every step is quiet but those that make, join or end a thread.
QuietStep ==
  \/ qthread_yield
  \/ \E usecs \in Delays : qthread_usleep(usecs)
  \/ MainReturns
  \/ SyncStep \/ ResumeStep \/ WakeStep \/ Tick \/ UNCHANGED vars

LEMMA QuietSteps ==
  ASSUME TypeOK, LiveInv, PlacesInv, QuietStep
  PROVE  Quiet
<1>1. /\ runnable_queue \in Queues /\ sleeping_set \in Queues
      /\ Mutexes \subseteq Queues /\ Conds \subseteq Queues
      /\ \A m \in Mutexes \cup Conds : m \notin {runnable_queue, sleeping_set} /\ m \notin Threads
  BY ConstantsOK DEF Queues
<1>2. CASE qthread_yield
  <2>1. /\ phase = "user" /\ schedule("yield", queue)
        /\ UNCHANGED <<dead, waiter, live, pc, obj>>
    BY <1>2 DEF qthread_yield, InClient
  <2>2. NoDoubleQueue' /\ \A t \in Threads : Scheduled(t)' <=> Scheduled(t)
    BY <2>1, CallerPlaces, SchedulePlaces
  <2> QED BY <2>1, <2>2 DEF Quiet
<1>3. ASSUME NEW usecs \in Delays, qthread_usleep(usecs) PROVE Quiet
  <2>1. /\ phase = "user" /\ schedule("sleep", queue) /\ Suspend("sleep", NULL)
        /\ pc[current_thread] = "client"
        /\ UNCHANGED <<dead, waiter, live>>
    BY <1>3 DEF qthread_usleep, InClient
  <2>2. NoDoubleQueue' /\ \A t \in Threads : Scheduled(t)' <=> Scheduled(t)
    BY <2>1, CallerPlaces, SchedulePlaces
  <2>3. \A t \in Threads : \/ pc'[t] = pc[t] /\ obj'[t] = obj[t]
                           \/ t = current_thread /\ pc'[t] # "join"
    BY <2>1, CallerPlaces DEF Suspend, TypeOK, ThreadTypeOK
  <2> QED BY <2>1, <2>2, <2>3, CallerPlaces DEF Quiet
<1>4. CASE MainReturns
  <2>1. /\ phase = "user" /\ phase' = "returned"
        /\ UNCHANGED <<current_thread, queue, head, dead, waiter, live, pc, obj>>
    BY <1>4 DEF MainReturns, InClient
  <2>2. NoDoubleQueue' /\ \A t \in Threads : Scheduled(t)' <=> Scheduled(t)
    BY <2>1 DEF PlacesInv, NoDoubleQueue, Scheduled
  <2> QED BY <2>1, <2>2 DEF Quiet
<1>5. ASSUME NEW m \in Mutexes, qthread_mutex_create(m) PROVE Quiet
  <2>1. /\ m \notin live /\ queue' = [queue EXCEPT ![m] = <<>>] /\ live' = live \cup {m}
        /\ phase = "user"
        /\ UNCHANGED <<current_thread, dead, waiter, phase, head, pc, obj>>
    BY <1>5 DEF qthread_mutex_create, InClient
  <2>2. \A q \in Queues : queue'[q] = queue[q]
    <3>1. queue[m] = <<>> /\ m \in Queues /\ queue \in QueueMaps
      BY <1>1, <2>1, CallerPlaces DEF LiveInv
    <3> QED BY <2>1, <3>1 DEF QueueMaps
  <2>4. Distinct(queue') /\ \A t : QueuedIn(queue', t) <=> QueuedIn(queue, t)
    BY <2>2, CallerPlaces, <2>1 DEF Distinct, QueuedIn
  <2>3. NoDoubleQueue' /\ \A t \in Threads : Scheduled(t)' <=> Scheduled(t)
    BY <2>1, <2>4 DEF PlacesInv, NoDoubleQueue, Scheduled
  <2> QED BY <1>1, <2>1, <2>3 DEF Quiet
<1>6. ASSUME NEW m \in Mutexes, qthread_mutex_destroy(m) PROVE Quiet
  <2>1. /\ live' = live \ {m}
        /\ UNCHANGED <<scheduler, dead, waiter, pc, obj>>
    BY <1>6 DEF qthread_mutex_destroy
  <2>2. NoDoubleQueue' /\ \A t \in Threads : Scheduled(t)' <=> Scheduled(t)
    BY <2>1 DEF scheduler, PlacesInv, NoDoubleQueue, Scheduled
  <2> QED BY <1>1, <2>1, <2>2 DEF Quiet
<1>7. ASSUME NEW m \in Mutexes, qthread_mutex_lock(m) PROVE Quiet
  BY <1>7, AcquirePlaces DEF qthread_mutex_lock, InClient
<1>8. ASSUME NEW m \in Mutexes, qthread_mutex_unlock(m) PROVE Quiet
  <2>1. /\ phase = "user" /\ queue' = release_queue(m)
        /\ UNCHANGED <<current_thread, dead, waiter, live, phase, head, pc, obj>>
    BY <1>8 DEF qthread_mutex_unlock, InClient
  <2>2. NoDoubleQueue' /\ \A t \in Threads : Scheduled(t)' <=> Scheduled(t)
    BY <2>1, CallerPlaces, ReleasePlaces, ConstantsOK DEF NoDoubleQueue, Scheduled
  <2> QED BY <2>1, <2>2 DEF Quiet
<1>9. ASSUME NEW c \in Conds, qthread_cond_create(c) PROVE Quiet
  <2>1. /\ c \notin live /\ queue' = [queue EXCEPT ![c] = <<>>] /\ live' = live \cup {c}
        /\ phase = "user"
        /\ UNCHANGED <<current_thread, dead, waiter, phase, head, pc, obj>>
    BY <1>9 DEF qthread_cond_create, InClient
  <2>2. \A q \in Queues : queue'[q] = queue[q]
    <3>1. queue[c] = <<>> /\ c \in Queues /\ queue \in QueueMaps
      BY <1>1, <2>1, CallerPlaces DEF LiveInv
    <3> QED BY <2>1, <3>1 DEF QueueMaps
  <2>4. Distinct(queue') /\ \A t : QueuedIn(queue', t) <=> QueuedIn(queue, t)
    BY <2>2, CallerPlaces, <2>1 DEF Distinct, QueuedIn
  <2>3. NoDoubleQueue' /\ \A t \in Threads : Scheduled(t)' <=> Scheduled(t)
    BY <2>1, <2>4 DEF PlacesInv, NoDoubleQueue, Scheduled
  <2> QED BY <1>1, <2>1, <2>3 DEF Quiet
<1>10. ASSUME NEW c \in Conds, qthread_cond_destroy(c) PROVE Quiet
  <2>1. /\ live' = live \ {c}
        /\ UNCHANGED <<scheduler, dead, waiter, pc, obj>>
    BY <1>10 DEF qthread_cond_destroy
  <2>2. NoDoubleQueue' /\ \A t \in Threads : Scheduled(t)' <=> Scheduled(t)
    BY <2>1 DEF scheduler, PlacesInv, NoDoubleQueue, Scheduled
  <2> QED BY <1>1, <2>1, <2>2 DEF Quiet
<1>11. ASSUME NEW c \in Conds, qthread_cond_signal(c) PROVE Quiet
  <2>1. /\ phase = "user" /\ queue[c] # <<>> /\ queue' = MoveFront(queue, c, runnable_queue)
        /\ UNCHANGED <<current_thread, dead, waiter, live, phase, head, pc, obj>>
    BY <1>11 DEF qthread_cond_signal, InClient
  <2>2. Distinct(queue') /\ \A x : QueuedIn(queue', x) <=> QueuedIn(queue, x)
    BY <1>1, <2>1, CallerPlaces, MovePlaces
  <2>3. NoDoubleQueue' /\ \A t \in Threads : Scheduled(t)' <=> Scheduled(t)
    BY <2>1, <2>2, CallerPlaces, ConstantsOK DEF NoDoubleQueue, Scheduled
  <2> QED BY <2>1, <2>3 DEF Quiet
<1>12. ASSUME NEW c \in Conds, qthread_cond_broadcast(c) PROVE Quiet
  <2>1. /\ phase = "user"
        /\ queue' = [queue EXCEPT ![runnable_queue] = @ \o queue[c], ![c] = <<>>]
        /\ UNCHANGED <<current_thread, dead, waiter, live, phase, head, pc, obj>>
    BY <1>12 DEF qthread_cond_broadcast, InClient
  <2>2. Distinct(queue') /\ \A x : QueuedIn(queue', x) <=> QueuedIn(queue, x)
    BY <1>1, <2>1, CallerPlaces, JoinPlaces
  <2>3. NoDoubleQueue' /\ \A t \in Threads : Scheduled(t)' <=> Scheduled(t)
    BY <2>1, <2>2, CallerPlaces, ConstantsOK DEF NoDoubleQueue, Scheduled
  <2> QED BY <2>1, <2>3 DEF Quiet
<1>13. ASSUME NEW c \in Conds, NEW m \in Mutexes, qthread_cond_wait(c, m)
       PROVE  Quiet
  <2> DEFINE qs == PushBack(release_queue(m), c, current_thread)
  <2>1. /\ phase = "user" /\ pc[current_thread] = "client"
        /\ Suspend("wait", m) /\ schedule("wait", qs)
        /\ UNCHANGED <<dead, waiter, live>>
    BY <1>13 DEF qthread_cond_wait, InClient
  <2>2. /\ release_queue(m) \in QueueMaps /\ Distinct(release_queue(m))
        /\ \A x : QueuedIn(release_queue(m), x) <=> QueuedIn(queue, x)
    BY <2>1, CallerPlaces, ReleasePlaces
  <2>3. /\ qs \in QueueMaps /\ Distinct(qs)
        /\ \A x : QueuedIn(qs, x) <=> QueuedIn(queue, x) \/ x = current_thread
    BY <1>1, <2>1, <2>2, CallerPlaces, PushBackType, PushBackDistinct, PushBackQueued
  <2> HIDE DEF qs
  <2>4. NoDoubleQueue' /\ \A t \in Threads : Scheduled(t)' <=> Scheduled(t)
    BY <2>1, <2>3, CallerPlaces, SchedulePlaces
  <2>5. \A t \in Threads : \/ pc'[t] = pc[t] /\ obj'[t] = obj[t]
                           \/ t = current_thread /\ pc'[t] # "join"
    BY <2>1, CallerPlaces DEF Suspend, TypeOK, ThreadTypeOK
  <2> QED BY <2>1, <2>4, <2>5, CallerPlaces DEF Quiet
<1>14. CASE ResumeJoin
  <2>1. /\ phase = "user" /\ pc[current_thread] = "join"
        /\ join_loop(obj[current_thread]) /\ UNCHANGED <<dead, waiter, live>>
    BY <1>14 DEF ResumeJoin, ResumedIn
  <2>2. obj[current_thread] \in Threads /\ dead[obj[current_thread]]
    BY <2>1, CallerPlaces DEF PlacesInv, TypeOK, ThreadTypeOK
  <2> QED BY <2>1, <2>2, JoinLoopReturns
<1>15. ASSUME ResumeSleep \/ ResumeLock PROVE Quiet
  <2>1. /\ phase = "user" /\ pc[current_thread] # "exited" /\ Suspend("client", NULL)
        /\ UNCHANGED <<scheduler, dead, waiter, live>>
    BY <1>15 DEF ResumeSleep, ResumeLock, ResumedIn, Return
  <2>2. NoDoubleQueue' /\ \A t \in Threads : Scheduled(t)' <=> Scheduled(t)
    BY <2>1 DEF scheduler, PlacesInv, NoDoubleQueue, Scheduled
  <2>3. \A t \in Threads : \/ pc'[t] = pc[t] /\ obj'[t] = obj[t]
                           \/ t = current_thread /\ pc'[t] # "join"
    BY <2>1, CallerPlaces DEF Suspend, TypeOK, ThreadTypeOK
  <2> QED BY <2>1, <2>2, <2>3, CallerPlaces DEF Quiet
<1>16. CASE ResumeWait
  <2>1. /\ phase = "user" /\ pc[current_thread] = "wait"
        /\ acquire(obj[current_thread]) /\ UNCHANGED <<dead, waiter, live>>
    BY <1>16 DEF ResumeWait, ResumedIn
  <2>2. obj[current_thread] \in Mutexes
    BY <2>1, CallerPlaces DEF TypeOK, ThreadTypeOK
  <2> QED BY <2>1, <2>2, AcquirePlaces
<1>17. CASE WakeRotate
  <2> DEFINE new == Head(queue[sleeping_set])
             popped == PopFront(queue, sleeping_set)
  <2>1. /\ phase = "waking" /\ phase' = "waking" /\ more
        /\ head \in Threads /\ queue \in QueueMaps /\ queue[sleeping_set] # <<>>
        /\ Distinct(queue) /\ ~QueuedIn(queue, head)
        /\ UNCHANGED <<current_thread, dead, waiter, live, pc, obj>>
    BY <1>17 DEF WakeRotate, TypeOK, SchedulerTypeOK, QueueMaps, PlacesInv, NoDoubleQueue
  <2>2. /\ head' = new
        /\ queue' = PushBack(popped, sleeping_set, head)
    BY <1>1, <1>17, <2>1 DEF WakeRotate, PushBack, PopFront, QueueMaps
  <2>3. /\ popped \in QueueMaps /\ Distinct(popped)
        /\ new \in Threads /\ QueuedIn(queue, new)
        /\ \A x : QueuedIn(popped, x) <=> QueuedIn(queue, x) /\ x # new
    BY <1>1, <2>1, PopFrontType, PopFrontDistinct, PopFrontQueued
  <2> HIDE DEF popped, new
  <2>4. /\ Distinct(queue')
        /\ \A x : QueuedIn(queue', x) <=> QueuedIn(popped, x) \/ x = head
    BY <1>1, <2>1, <2>2, <2>3, PushBackDistinct, PushBackQueued
  <2>5. NoDoubleQueue' /\ \A t \in Threads : Scheduled(t)' <=> Scheduled(t)
    BY <2>1, <2>2, <2>3, <2>4 DEF NoDoubleQueue, Scheduled
  <2> QED BY <2>1, <2>5 DEF Quiet
<1>18. CASE WakeDone
  <2> DEFINE qs == PushBack(queue, runnable_queue, head)
  <2>1. /\ phase = "waking" /\ head' = NULL /\ switch_runnable(qs)
        /\ UNCHANGED <<dead, waiter, live, pc, obj>>
        /\ head \in Threads /\ queue \in QueueMaps
        /\ Distinct(queue) /\ ~QueuedIn(queue, head)
    BY <1>18 DEF WakeDone, TypeOK, SchedulerTypeOK, QueueMaps, PlacesInv, NoDoubleQueue
  <2>2. /\ qs \in QueueMaps /\ Distinct(qs)
        /\ \A x : QueuedIn(qs, x) <=> QueuedIn(queue, x) \/ x = head
    BY <1>1, <2>1, PushBackType, PushBackDistinct, PushBackQueued
  <2> HIDE DEF qs
  <2>3. NoDoubleQueue' /\ \A t \in Threads : Scheduled(t)' <=> QueuedIn(qs, t)
    BY <2>1, <2>2, SwitchPlaces
  <2>4. \A t \in Threads : Scheduled(t)' <=> Scheduled(t)
    BY <2>1, <2>2, <2>3 DEF Scheduled
  <2> QED BY <2>1, <2>3, <2>4 DEF Quiet
<1>19. ASSUME Tick \/ UNCHANGED vars PROVE Quiet
  <2>1. UNCHANGED <<scheduler, dead, waiter, live, pc, obj>>
    BY <1>19 DEF Tick, vars, scheduler
  <2>2. NoDoubleQueue' /\ \A t \in Threads : Scheduled(t)' <=> Scheduled(t)
    BY <2>1 DEF scheduler, PlacesInv, NoDoubleQueue, Scheduled
  <2> QED BY <2>1, <2>2 DEF Quiet
<1> QED BY <1>2, <1>3, <1>4, <1>5, <1>6, <1>7, <1>8, <1>9, <1>10, <1>11, <1>12, <1>13, <1>14, <1>15, <1>16, <1>17, <1>18, <1>19
        DEF QuietStep, SyncStep, ResumeStep, WakeStep

LEMMA NextPlaces == TypeOK /\ LiveInv /\ PlacesInv /\ [Next]_vars => PlacesInv'
<1> SUFFICES ASSUME TypeOK, LiveInv, PlacesInv, [Next]_vars PROVE PlacesInv'
  OBVIOUS
<1>1. ASSUME NEW u \in Threads, qthread_create(u) PROVE PlacesInv'
  BY <1>1, CreatePlaces
<1>2. ASSUME NEW u \in Threads, qthread_join(u) PROVE PlacesInv'
  BY <1>2, JoinCallPlaces
<1>3. CASE qthread_exit
  BY <1>3, ExitPlaces
<1>4. CASE QuietStep
  BY <1>4, QuietSteps, QuietPlaces
<1> QED BY <1>1, <1>2, <1>3, <1>4 DEF Next, ThreadStep, QuietStep, Terminated

(***************************************************************************)
(* The theorems.                                                           *)
(***************************************************************************)
LEMMA SpecPlaces == Spec => [](TypeOK /\ LiveInv /\ PlacesInv)
<1>1. Init => TypeOK /\ LiveInv /\ PlacesInv
  <2>1. Init => LiveInv
    BY DEF Init, LiveInv, Queues
  <2> QED BY <2>1, InitType, InitPlaces
<1>2. TypeOK /\ LiveInv /\ PlacesInv /\ [Next]_vars => (TypeOK /\ LiveInv /\ PlacesInv)'
  BY NextType, NextLive, NextPlaces
<1> QED BY <1>1, <1>2, PTL DEF Spec

\* The one next pointer of a thread never serves two queues: no sequence of
\* calls puts a thread into a queue while it is in another one, is running, or
\* is in the hands of the wake loop.
THEOREM PlacesAreUnique == Spec => []NoDoubleQueue
<1>1. PlacesInv => NoDoubleQueue
  BY DEF PlacesInv
<1> QED BY <1>1, SpecPlaces, PTL

\* No sequence of calls drops a thread: it runs, it is queued, or the thread it
\* joins is alive and knows it.
THEOREM NobodyIsLost == Spec => []NoThreadLost
<1>1. PlacesInv => NoThreadLost
  BY DEF PlacesInv
<1> QED BY <1>1, SpecPlaces, PTL

(***************************************************************************)
(* A process that starts on a clean heap.                                  *)
(***************************************************************************)

\* Only the living are scheduled, no waiter is wild, and the process crashes
\* only by popping the empty runnable queue when nobody sleeps.
CleanInv ==
  /\ phase # "skipped"
  /\ \A t \in Threads : Scheduled(t) => ~dead[t]
  /\ dead[Main] => pc[Main] = "exited"
  /\ \A t \in live \cap Threads : waiter[t] # Wild
  /\ phase = "segv" => /\ current_thread = NULL /\ head = NULL
                       /\ queue[runnable_queue] = <<>>
                       /\ queue[sleeping_set] = <<>>

\* What schedule() makes of queues that hold only the living.
CleanSwitch ==
  /\ phase' # "skipped"
  /\ phase' = "segv" => /\ current_thread' = NULL /\ head' = NULL
                        /\ queue'[runnable_queue] = <<>>
                        /\ queue'[sleeping_set] = <<>>

LEMMA SwitchClean ==
  ASSUME NEW qs \in QueueMaps, switch_runnable(qs), head' = NULL,
         qs[runnable_queue] = <<>> => qs[sleeping_set] = <<>>,
         \A x \in Threads : QueuedIn(qs, x) => ~dead'[x]
  PROVE  CleanSwitch
<1>1. CASE qs[runnable_queue] = <<>>
  BY <1>1 DEF switch_runnable, CleanSwitch
<1>2. CASE qs[runnable_queue] # <<>>
  <2>1. ~dead'[Head(qs[runnable_queue])]
    BY <1>2, PopFrontType DEF Queues
  <2> QED BY <1>2, <2>1 DEF switch_runnable, CleanSwitch
<1> QED BY <1>1, <1>2

LEMMA ScheduleClean ==
  ASSUME NEW qs \in QueueMaps, NEW exit \in {"yield", "exit", "wait", "sleep"},
         current_thread \in Threads, head = NULL, schedule(exit, qs),
         exit \in {"yield", "sleep"} => ~dead'[current_thread],
         \A x \in Threads : QueuedIn(qs, x) => ~dead'[x]
  PROVE  CleanSwitch
<1> DEFINE requeued == requeue(exit, qs)
<1>1. requeued \in QueueMaps /\ \A x \in Threads : QueuedIn(requeued, x) => ~dead'[x]
  <2>1. CASE exit = "yield"
    BY <2>1, PushBackType, PushBackQueued DEF requeue, Queues
  <2>2. CASE exit = "sleep"
    BY <2>2, PushBackType, PushBackQueued DEF requeue, Queues
  <2>3. CASE exit \in {"exit", "wait"}
    BY <2>3 DEF requeue
  <2> QED BY <2>1, <2>2, <2>3
<1> HIDE DEF requeued
<1>2. CASE requeued[runnable_queue] = <<>> /\ requeued[sleeping_set] # <<>>
  BY <1>2 DEF requeued, schedule, enter_wake_loop, CleanSwitch
<1>3. CASE ~(requeued[runnable_queue] = <<>> /\ requeued[sleeping_set] # <<>>)
  <2>1. switch_runnable(requeued) /\ head' = NULL
    BY <1>3 DEF requeued, schedule
  <2> QED BY <1>1, <1>3, <2>1, SwitchClean
<1> QED BY <1>2, <1>3

\* An exit offers the scheduler the living only: its waiter, if any, is in a join.
LEMMA ExitQueues ==
  ASSUME TypeOK, PlacesInv, CleanInv, qthread_exit
  PROVE  \E qs \in QueueMaps :
           /\ Distinct(qs) /\ schedule("exit", qs)
           /\ \A x \in Threads : QueuedIn(qs, x) => ~dead'[x]
<1> DEFINE me == current_thread
           w == waiter[me]
<1>1. /\ phase = "user" /\ pc[me] = "client" /\ me \in Threads /\ me \in live
      /\ ~dead[me] /\ ~QueuedIn(queue, me) /\ queue \in QueueMaps /\ Distinct(queue)
      /\ \A x \in Threads \ {me} : dead'[x] = dead[x]
      /\ \A x \in Threads : QueuedIn(queue, x) => ~dead[x]
      /\ w \in Threads \cup {NULL}
  <2>1. phase = "user" /\ pc[me] = "client"
    BY DEF qthread_exit, InClient
  <2> QED BY <2>1, CallerPlaces DEF qthread_exit, CleanInv, TypeOK, ThreadTypeOK
<1>2. schedule("exit", IF w = NULL THEN queue ELSE PushBack(queue, runnable_queue, w))
  BY <1>1, ConstantsOK DEF qthread_exit
<1>3. CASE w = NULL
  <2>1. schedule("exit", queue)
    BY <1>2, <1>3
  <2> QED BY <1>1, <2>1
<1>4. CASE w \in Threads
  <2> DEFINE qs == PushBack(queue, runnable_queue, w)
  <2>1. schedule("exit", qs)
    BY <1>2, <1>4, ConstantsOK
  <2>2. pc[w] = "join" /\ ~Scheduled(w) /\ w # me
    BY <1>1, <1>4 DEF PlacesInv
  <2>3. w \in live
    BY <1>4, <2>2 DEF PlacesInv
  <2>4. ~dead[w] /\ ~QueuedIn(queue, w)
    BY <1>1, <1>4, <2>2, <2>3, CallerPlaces DEF PlacesInv, CleanInv
  <2>5. qs \in QueueMaps /\ Distinct(qs) /\ \A x : QueuedIn(qs, x) <=> QueuedIn(queue, x) \/ x = w
    BY <1>1, <1>4, <2>4, PushBackType, PushBackDistinct, PushBackQueued DEF Queues
  <2> HIDE DEF qs, w
  <2>6. \A x \in Threads : QueuedIn(qs, x) => ~dead'[x]
    BY <1>1, <2>2, <2>4, <2>5
  <2> QED BY <2>1, <2>5, <2>6
<1> QED BY <1>1, <1>3, <1>4

\* Every call into the scheduler offers it the living only.
LEMMA CallClean ==
  ASSUME TypeOK, PlacesInv, CleanInv, [Next]_vars
  PROVE  CleanSwitch
<1>1. ASSUME phase = "user"
      PROVE  /\ queue \in QueueMaps /\ Distinct(queue) /\ head = NULL
             /\ current_thread \in Threads /\ ~dead[current_thread]
             /\ \A x \in Threads : QueuedIn(queue, x) => ~dead[x]
  BY <1>1, CallerPlaces DEF CleanInv
<1>2. runnable_queue \in Queues /\ Mutexes \subseteq Queues /\ Conds \subseteq Queues
  BY DEF Queues
<1>3. ASSUME phase' \in {"user", "waking", "returned"} PROVE CleanSwitch
  BY <1>3 DEF CleanSwitch
<1>4. CASE qthread_yield
  BY <1>1, <1>4, ScheduleClean DEF qthread_yield, InClient
<1>5. ASSUME NEW usecs \in Delays, qthread_usleep(usecs) PROVE CleanSwitch
  BY <1>1, <1>5, ScheduleClean DEF qthread_usleep, InClient
<1>6. ASSUME NEW u \in Threads, join_loop(u), phase = "user", UNCHANGED dead
      PROVE  CleanSwitch
  <2>1. CASE dead[u]
    BY <1>3, <1>6, <2>1 DEF join_loop, scheduler
  <2>2. CASE ~dead[u]
    BY <1>1, <1>6, <2>2, ScheduleClean DEF join_loop
  <2> QED BY <2>1, <2>2
<1>7. ASSUME NEW m \in Mutexes, acquire(m), phase = "user", UNCHANGED dead
      PROVE  CleanSwitch
  <2>1. CASE ~locked[m]
    BY <1>3, <1>7, <2>1 DEF acquire, scheduler
  <2>2. CASE locked[m]
    <3> DEFINE qs == PushBack(queue, m, current_thread)
    <3>1. qs \in QueueMaps /\ \A x \in Threads : QueuedIn(qs, x) => ~dead'[x]
      BY <1>1, <1>2, <1>7, PushBackType, PushBackQueued
    <3>2. schedule("wait", qs)
      BY <1>7, <2>2 DEF acquire
    <3> HIDE DEF qs
    <3> QED BY <1>1, <1>7, <3>1, <3>2, ScheduleClean
  <2> QED BY <2>1, <2>2
<1>8. ASSUME NEW c \in Conds, NEW m \in Mutexes, qthread_cond_wait(c, m)
      PROVE  CleanSwitch
  <2> DEFINE qs == PushBack(release_queue(m), c, current_thread)
  <2>1. phase = "user" /\ schedule("wait", qs) /\ UNCHANGED dead
    BY <1>8 DEF qthread_cond_wait, InClient
  <2>2. qs \in QueueMaps /\ \A x \in Threads : QueuedIn(qs, x) => ~dead'[x]
    BY <1>1, <1>2, <2>1, ReleasePlaces, PushBackType, PushBackQueued
  <2> HIDE DEF qs
  <2> QED BY <1>1, <2>1, <2>2, ScheduleClean
<1>9. CASE qthread_exit
  <2>1. current_thread \in Threads /\ head = NULL
    BY <1>1, <1>9 DEF qthread_exit, InClient
  <2> QED BY <1>9, <2>1, ExitQueues, ScheduleClean
<1>10. CASE ResumeJoin
  <2>1. obj[current_thread] \in Threads
    BY <1>1, <1>10 DEF ResumeJoin, ResumedIn, TypeOK, ThreadTypeOK
  <2> QED BY <1>6, <1>10, <2>1 DEF ResumeJoin, ResumedIn
<1>11. CASE ResumeWait
  <2>1. obj[current_thread] \in Mutexes
    BY <1>1, <1>11 DEF ResumeWait, ResumedIn, TypeOK, ThreadTypeOK
  <2> QED BY <1>7, <1>11, <2>1 DEF ResumeWait, ResumedIn
<1>12. CASE WakeDone
  <2> DEFINE qs == PushBack(queue, runnable_queue, head)
  <2>1. /\ head \in Threads /\ queue \in QueueMaps /\ head' = NULL /\ UNCHANGED dead
        /\ \A x \in Threads : QueuedIn(queue, x) \/ x = head => ~dead[x]
        /\ switch_runnable(qs)
    BY <1>12 DEF WakeDone, TypeOK, SchedulerTypeOK, QueueMaps, CleanInv, Scheduled
  <2>2. qs \in QueueMaps /\ \A x \in Threads : QueuedIn(qs, x) => ~dead'[x]
    BY <1>2, <2>1, PushBackType, PushBackQueued
  <2>3. qs[runnable_queue] = Append(queue[runnable_queue], head)
    BY <1>2, <2>1 DEF PushBack, QueueMaps
  <2>4. qs[runnable_queue] # <<>>
    BY <1>2, <2>1, <2>3 DEF QueueMaps
  <2> HIDE DEF qs
  <2> QED BY <2>1, <2>2, <2>4, SwitchClean
<1>13. CASE WakeRotate \/ MainReturns \/ ResumeSleep \/ ResumeLock
  BY <1>3, <1>13 DEF WakeRotate, MainReturns, ResumeSleep, ResumeLock, ResumedIn, scheduler
<1>14. ASSUME NEW m \in Mutexes,
              \/ qthread_mutex_create(m) \/ qthread_mutex_destroy(m)
              \/ qthread_mutex_lock(m) \/ qthread_mutex_unlock(m)
       PROVE  CleanSwitch
  BY <1>3, <1>7, <1>14 DEF qthread_mutex_create, qthread_mutex_destroy, qthread_mutex_lock,
     qthread_mutex_unlock, InClient, scheduler
<1>15. ASSUME NEW c \in Conds,
              \/ qthread_cond_create(c) \/ qthread_cond_destroy(c)
              \/ qthread_cond_signal(c) \/ qthread_cond_broadcast(c)
       PROVE  CleanSwitch
  BY <1>3, <1>15 DEF qthread_cond_create, qthread_cond_destroy, qthread_cond_signal,
     qthread_cond_broadcast, InClient, scheduler
<1>16. ASSUME NEW u \in Threads, qthread_create(u) \/ qthread_join(u) PROVE CleanSwitch
  BY <1>3, <1>6, <1>16 DEF qthread_create, qthread_join, InClient
<1>17. CASE Tick \/ UNCHANGED vars
  BY <1>17 DEF Tick, vars, scheduler, CleanInv, CleanSwitch
<1> QED BY <1>4, <1>5, <1>8, <1>9, <1>10, <1>11, <1>12, <1>13, <1>14, <1>15, <1>16, <1>17
        DEF Next, ThreadStep, SyncStep, ResumeStep, WakeStep, Terminated

\* On a clean heap the invariant of the living is kept.
LEMMA NextClean ==
  ASSUME TypeOK, LiveInv, PlacesInv, CleanInv, [Next]_vars
  PROVE  CleanInv'
<1>1. CleanSwitch
  BY CallClean
<1>2. ASSUME Quiet PROVE CleanInv'
  <2>1. \A t \in Threads : Scheduled(t)' => ~dead'[t]
    BY <1>2 DEF Quiet, CleanInv
  <2>2. \A t \in live' \cap Threads : waiter'[t] # Wild
    BY <1>2 DEF Quiet, CleanInv
  <2>3. dead'[Main] => pc'[Main] = "exited"
    BY <1>2, ConstantsOK DEF Quiet, CleanInv
  <2> QED BY <1>1, <2>1, <2>2, <2>3 DEF CleanSwitch, CleanInv
<1>3. ASSUME NEW u \in Threads, qthread_create(u) PROVE CleanInv'
  <2>1. /\ phase = "user" /\ u \notin live /\ live' = live \cup {u}
        /\ ~dead'[u] /\ waiter'[u] = NULL
        /\ \A t \in Threads \ {u} : dead'[t] = dead[t] /\ waiter'[t] = waiter[t]
        /\ queue' = PushBack(queue, runnable_queue, u)
        /\ UNCHANGED <<current_thread, phase, head, pc>>
    BY <1>3 DEF qthread_create, InClient, TypeOK, ThreadTypeOK
  <2>2. \A x \in Threads : QueuedIn(queue', x) <=> QueuedIn(queue, x) \/ x = u
    BY <2>1, CallerPlaces, PushBackQueued DEF Queues
  <2>3. \A t \in Threads : Scheduled(t)' => ~dead'[t]
    BY <2>1, <2>2, CallerPlaces DEF Scheduled, CleanInv
  <2>4. u # Main
    BY <2>1 DEF PlacesInv
  <2>5. dead'[Main] => pc'[Main] = "exited"
    BY <2>1, <2>4, ConstantsOK DEF CleanInv
  <2>6. \A t \in live' \cap Threads : waiter'[t] # Wild
    BY <2>1, ConstantsOK DEF CleanInv
  <2> QED BY <1>1, <2>3, <2>5, <2>6 DEF CleanSwitch, CleanInv
<1>4. ASSUME NEW u \in Threads, qthread_join(u) PROVE CleanInv'
  <2>1. /\ phase = "user" /\ pc[current_thread] = "client" /\ current_thread \in Threads
        /\ waiter'[u] = current_thread
        /\ \A t \in Threads \ {u} : waiter'[t] = waiter[t]
        /\ UNCHANGED <<dead, live>>
        /\ join_loop(u)
    BY <1>4 DEF qthread_join, InClient, TypeOK, SchedulerTypeOK, ThreadTypeOK
  <2>2. \A x \in Threads : Scheduled(x)' => Scheduled(x)
    <3>1. CASE dead[u]
      BY <2>1, <3>1 DEF join_loop, scheduler, Scheduled
    <3>2. CASE ~dead[u]
      <4>1. schedule("wait", queue)
        BY <2>1, <3>2 DEF join_loop
      <4>2. \A x \in Threads : Scheduled(x)' <=> QueuedIn(queue, x)
        BY <2>1, <4>1, CallerPlaces, SchedulePlaces
      <4> QED BY <2>1, <4>2, CallerPlaces
    <3> QED BY <3>1, <3>2
  <2>3. \A t \in Threads : Scheduled(t)' => ~dead'[t]
    BY <2>1, <2>2 DEF CleanInv
  <2>4. \A t \in live' \cap Threads : waiter'[t] # Wild
    BY <2>1, ConstantsOK DEF CleanInv
  <2>5. dead'[Main] => pc'[Main] = "exited"
    BY <2>1, ConstantsOK DEF CleanInv, join_loop, Return, Suspend, TypeOK, ThreadTypeOK
  <2> QED BY <1>1, <2>3, <2>4, <2>5 DEF CleanSwitch, CleanInv
<1>5. CASE qthread_exit
  <2>1. PICK qs \in QueueMaps :
           /\ Distinct(qs) /\ schedule("exit", qs)
           /\ \A x \in Threads : QueuedIn(qs, x) => ~dead'[x]
    BY <1>5, ExitQueues
  <2>2. /\ current_thread \in Threads /\ head = NULL
        /\ UNCHANGED <<waiter, live>>
        /\ \A t \in Threads : dead'[t] => dead[t] \/ t = current_thread
        /\ \A t \in Threads : pc'[t] = pc[t] \/ t = current_thread
        /\ pc'[current_thread] = "exited"
    BY <1>5, CallerPlaces DEF qthread_exit, InClient, Suspend, TypeOK, ThreadTypeOK
  <2>3. \A x \in Threads : Scheduled(x)' => ~dead'[x]
    BY <2>1, <2>2, SchedulePlaces
  <2>4. dead'[Main] => pc'[Main] = "exited"
    BY <2>2, ConstantsOK DEF CleanInv
  <2>5. \A t \in live' \cap Threads : waiter'[t] # Wild
    BY <2>2 DEF CleanInv
  <2> QED BY <1>1, <2>3, <2>4, <2>5 DEF CleanSwitch, CleanInv
<1>6. CASE QuietStep
  BY <1>2, <1>6, QuietSteps
<1> QED BY <1>3, <1>4, <1>5, <1>6 DEF Next, ThreadStep, QuietStep, Terminated

LEMMA SpecClean == ~DirtyHeap /\ Spec => [](TypeOK /\ LiveInv /\ PlacesInv /\ CleanInv)
<1>1. Init /\ ~DirtyHeap => CleanInv
  <2> SUFFICES ASSUME Init, ~DirtyHeap PROVE CleanInv
    OBVIOUS
  <2>1. \A t \in Threads : Scheduled(t) => t = Main
    BY ConstantsOK DEF Init, Scheduled, QueuedIn, Elements
  <2> QED BY <2>1, ConstantsOK DEF Init, CleanInv
<1>2. TypeOK /\ LiveInv /\ PlacesInv /\ CleanInv /\ [Next]_vars => CleanInv'
  BY NextClean
<1> QED BY <1>1, <1>2, SpecPlaces, PTL DEF Spec

\* On a clean heap a thread taken from the runnable queue is always switched to:
\* the queue never holds a thread that exited.
THEOREM DeadNeverPopped == ~DirtyHeap /\ Spec => []NeverSkipped
<1>1. CleanInv => NeverSkipped
  BY DEF CleanInv, NeverSkipped
<1> QED BY <1>1, SpecClean, PTL

\* On a clean heap the process crashes only when no thread could ever run again.
THEOREM CrashIsDeadlock == ~DirtyHeap /\ Spec => []CrashOnlyWhenStuck
<1>1. PlacesInv /\ CleanInv => CrashOnlyWhenStuck
  <2> SUFFICES ASSUME PlacesInv, CleanInv, phase = "segv" PROVE CrashOnlyWhenStuck
    BY DEF CrashOnlyWhenStuck
  <2>1. /\ current_thread = NULL /\ head = NULL
        /\ queue[runnable_queue] = <<>> /\ queue[sleeping_set] = <<>>
    BY DEF CleanInv
  <2>2. \A t \in Threads : Scheduled(t) => \E q \in Mutexes \cup Conds : t \in Elements(queue[q])
    BY <2>1, ConstantsOK DEF Scheduled, QueuedIn, Queues, Elements
  <2>3. \A t \in live \cap Threads : dead[t] \/ Scheduled(t) \/ AwaitsExit(t)
    BY DEF PlacesInv, NoThreadLost
  <2> QED BY <2>1, <2>2, <2>3 DEF CrashOnlyWhenStuck
<1> QED BY <1>1, SpecClean, PTL

=============================================================================
