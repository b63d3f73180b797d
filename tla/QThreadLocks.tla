---------------------------- MODULE QThreadLocks ----------------------------
(***************************************************************************)
(* The mutexes of QThread are fair locks, and sleepers are not woken       *)
(* early, for any number of threads, mutexes and condition variables.      *)
(***************************************************************************)
EXTENDS QThreadProofs

\* Whoever waits in an object's queue is suspended in the call that put it
\* there, so an unlock hands the mutex to a thread that asked for this mutex.
WaitersInv ==
  /\ \A m \in Mutexes : \A t \in Elements(queue[m]) : pc[t] = "lock" /\ obj[t] = m
  /\ \A c \in Conds : \A t \in Elements(queue[c]) : pc[t] = "wait"

(***************************************************************************)
(* What a step does to one mutex.                                          *)
(***************************************************************************)

\* It leaves it alone; at most it allocates it, free, or destroys it.
Keeps(m) ==
  /\ Owners(m)' = Owners(m) /\ queue'[m] = queue[m]
  /\ m \in live' => \/ m \in live /\ locked'[m] = locked[m]
                    \/ ~locked'[m] /\ Owners(m) = {} /\ queue[m] = <<>>

\* t takes it while it is free.
Takes(m, t) ==
  /\ Owners(m) = {} /\ Owners(m)' = {t} /\ locked'[m]
  /\ queue'[m] = queue[m]

\* t queues up for it while somebody owns it.
QueuesUp(m, t) ==
  /\ Owners(m)' = Owners(m) /\ locked[m] /\ locked'[m] /\ m \in live
  /\ \A n \in Mutexes : t \notin Elements(queue[n])
  /\ queue'[m] = Append(queue[m], t)

\* Its owner gives it up: to the first thread in the queue, if there is one.
Passes(m) ==
  /\ \E t \in Threads : Owners(m) = {t}
  /\ IF queue[m] = <<>>
     THEN Owners(m)' = {} /\ queue'[m] = queue[m] /\ ~locked'[m]
     ELSE Owners(m)' = {Head(queue[m])} /\ queue'[m] = Tail(queue[m]) /\ locked'[m]

\* No step changes two mutexes, and none changes one in any other way.
LockStep ==
  \/ \A m \in Mutexes : Keeps(m)
  \/ \E m \in Mutexes :
       /\ \A n \in Mutexes \ {m} : Keeps(n)
       /\ Passes(m) \/ \E t \in Threads : Takes(m, t) \/ QueuesUp(m, t)

(***************************************************************************)
(* Lemmas on the queues and the owners.                                    *)
(***************************************************************************)
Objects == Mutexes \cup Conds

LEMMA ObjectQueues ==
  /\ runnable_queue \in Queues /\ sleeping_set \in Queues /\ Objects \subseteq Queues
  /\ runnable_queue # sleeping_set
  /\ \A x \in Objects : x # runnable_queue /\ x # sleeping_set
  /\ \A m \in Mutexes, c \in Conds : m # c
BY ConstantsOK DEF Queues, Objects, runnable_queue, sleeping_set

\* The scheduler moves threads between its own two queues only.
LEMMA SwitchObjects ==
  ASSUME NEW qs \in QueueMaps, switch_runnable(qs)
  PROVE  \A x \in Objects : queue'[x] = qs[x]
BY ObjectQueues DEF switch_runnable, PopFront, QueueMaps

LEMMA ScheduleObjects ==
  ASSUME NEW qs \in QueueMaps, NEW exit, current_thread \in Threads, schedule(exit, qs)
  PROVE  \A x \in Objects : queue'[x] = qs[x]
<1>1. requeue(exit, qs) \in QueueMaps
  BY RequeueType
<1>2. \A x \in Objects : requeue(exit, qs)[x] = qs[x]
  BY ObjectQueues DEF requeue, PushBack, QueueMaps
<1>3. ASSUME enter_wake_loop(requeue(exit, qs))
      PROVE  \A x \in Objects : queue'[x] = requeue(exit, qs)[x]
  BY <1>1, <1>3, ObjectQueues DEF enter_wake_loop, PopFront, QueueMaps
<1> QED BY <1>1, <1>2, <1>3, SwitchObjects DEF schedule

\* What moving a front does to each queue.
LEMMA MoveFrontQueues ==
  ASSUME NEW qs \in QueueMaps, NEW from \in Queues, NEW to \in Queues, from # to
  PROVE  /\ MoveFront(qs, from, to)[from] = Tail(qs[from])
         /\ MoveFront(qs, from, to)[to] = Append(qs[to], Head(qs[from]))
         /\ \A q \in Queues \ {from, to} : MoveFront(qs, from, to)[q] = qs[q]
BY DEF MoveFront, PushBack, PopFront, QueueMaps

LEMMA TailElements ==
  ASSUME NEW s \in Seq(Threads), s # <<>>
  PROVE  /\ Elements(Tail(s)) \subseteq Elements(s)
         /\ Head(s) \in Elements(s) /\ Head(s) \in Threads
BY DEF Elements

LEMMA AppendElements ==
  ASSUME NEW s \in Seq(Threads), NEW t \in Threads
  PROVE  \A x : x \in Elements(Append(s, t)) <=> x \in Elements(s) \/ x = t
<1>1. /\ DOMAIN s = 1 .. Len(s) /\ Len(s) \in Nat
      /\ DOMAIN Append(s, t) = 1 .. Len(s) + 1
      /\ \A i \in 1 .. Len(s) + 1 : Append(s, t)[i] = IF i = Len(s) + 1 THEN t ELSE s[i]
  OBVIOUS
<1>2. \A i \in 1 .. Len(s) + 1 : i \in 1 .. Len(s) \/ i = Len(s) + 1
  BY <1>1
<1>3. ASSUME NEW i \in 1 .. Len(s) PROVE i \in 1 .. Len(s) + 1 /\ i # Len(s) + 1
  BY <1>1
<1>4. Len(s) + 1 \in 1 .. Len(s) + 1
  BY <1>1
<1> QED BY <1>1, <1>2, <1>3, <1>4 DEF Elements

\* The front of a queue stands in it once.
LEMMA HeadOnce ==
  ASSUME queue \in QueueMaps, Distinct(queue), NEW q \in Queues, queue[q] # <<>>
  PROVE  Head(queue[q]) \notin Elements(Tail(queue[q]))
<1>1. ~QueuedIn(PopFront(queue, q), Head(queue[q]))
  BY PopFrontQueued
<1>2. PopFront(queue, q)[q] = Tail(queue[q])
  BY DEF PopFront, QueueMaps
<1> QED BY <1>1, <1>2 DEF QueuedIn

\* The owners of a mutex depend on who holds it, who is suspended in its lock,
\* and who of these is queued.
LEMMA OwnersKept ==
  ASSUME NEW m \in Mutexes,
         \A t \in Threads :
           /\ m \in holding'[t] <=> m \in holding[t]
           /\ (pc'[t] = "lock" /\ obj'[t] = m /\ t \notin Elements(queue'[m])) <=>
              (pc[t] = "lock" /\ obj[t] = m /\ t \notin Elements(queue[m]))
  PROVE  Owners(m)' = Owners(m)
BY DEF Owners

\* An object that is not allocated has no owner.
LEMMA NoOwnerUnlessLive ==
  ASSUME LiveInv, NEW m \in Mutexes, m \notin live
  PROVE  Owners(m) = {} /\ queue[m] = <<>>
BY DEF LiveInv, Owners

(***************************************************************************)
(* The steps.                                                              *)
(***************************************************************************)

\* A step that does not concern mutexes: it takes threads out of the queues of
\* condition variables at most, and changes only what a thread is doing that is
\* in no queue and does not come from a lock or go into one.
Aside ==
  /\ UNCHANGED holding
  /\ \A m \in live' \cap Mutexes : \/ m \in live /\ locked'[m] = locked[m]
                                   \/ m \notin live /\ ~locked'[m]
  /\ \A m \in Mutexes : queue'[m] = queue[m]
  /\ \A c \in Conds : Elements(queue'[c]) \subseteq Elements(queue[c])
  /\ \A t \in Threads : \/ pc'[t] = pc[t] /\ obj'[t] = obj[t]
                        \/ ~QueuedIn(queue, t) /\ pc[t] # "lock" /\ pc'[t] # "lock"

LEMMA AsideLocks ==
  ASSUME TypeOK, LiveInv, WaitersInv, Aside
  PROVE  LockStep /\ WaitersInv'
<1>1. ASSUME NEW m \in Mutexes PROVE Keeps(m)
  <2>1. Owners(m)' = Owners(m)
    BY OwnersKept DEF Aside
  <2> QED BY <2>1, NoOwnerUnlessLive DEF Aside, Keeps
<1>2. \A x \in Objects : \A t \in Elements(queue[x]) : QueuedIn(queue, t) /\ t \in Threads
  BY ObjectQueues DEF QueuedIn, Elements, TypeOK, SchedulerTypeOK
<1>3. WaitersInv'
  BY <1>2 DEF Aside, WaitersInv, Objects
<1> QED BY <1>1, <1>3 DEF LockStep

LEMMA AcquireLocks ==
  ASSUME TypeOK, LiveInv, PlacesInv, WaitersInv, LockWordCountsOwners,
         phase = "user", pc[current_thread] # "lock",
         NEW m \in Mutexes, m \in live, acquire(m), UNCHANGED live
  PROVE  LockStep /\ WaitersInv'
<1> DEFINE me == current_thread
<1>1. /\ queue \in QueueMaps /\ me \in Threads /\ ~QueuedIn(queue, me)
      /\ pc \in [Threads -> Calls] /\ obj \in [Threads -> Threads \cup Mutexes \cup {NULL}]
      /\ holding \in [Threads -> SUBSET Mutexes] /\ locked \in [Mutexes -> BOOLEAN]
  BY CallerPlaces DEF TypeOK, ThreadTypeOK
<1>2. \A x \in Objects : \A t \in Elements(queue[x]) : t # me /\ t \in Threads
  BY <1>1, ObjectQueues DEF QueuedIn, Elements, QueueMaps
<1>3. CASE ~locked[m]
  <2>1. /\ locked' = [locked EXCEPT ![m] = TRUE]
        /\ holding' = [holding EXCEPT ![me] = @ \cup {m}]
        /\ Suspend("client", NULL) /\ queue' = queue
    BY <1>3 DEF acquire, Return, scheduler
  <2>2. /\ pc'[me] = "client"
        /\ \A t \in Threads \ {me} : pc'[t] = pc[t] /\ obj'[t] = obj[t] /\ holding'[t] = holding[t]
        /\ holding'[me] = holding[me] \cup {m}
    BY <1>1, <2>1 DEF Suspend
  <2>3. ASSUME NEW n \in Mutexes \ {m} PROVE Keeps(n)
    <3>1. Owners(n)' = Owners(n)
      BY <2>1, <2>2, OwnersKept
    <3> QED BY <1>1, <2>1, <3>1 DEF Keeps
  <2>4. Owners(m) = {}
    BY <1>3 DEF LockWordCountsOwners
  <2>5. Owners(m)' = {me}
    BY <1>1, <2>1, <2>2, <2>4 DEF Owners
  <2>6. Takes(m, me)
    BY <1>1, <2>1, <2>4, <2>5 DEF Takes
  <2>7. WaitersInv'
    BY <1>2, <2>1, <2>2 DEF WaitersInv, Objects
  <2> QED BY <1>1, <2>3, <2>6, <2>7 DEF LockStep
<1>4. CASE locked[m]
  <2> DEFINE qs == PushBack(queue, m, me)
  <2>1. /\ UNCHANGED <<locked, holding>>
        /\ Suspend("lock", m) /\ schedule("wait", qs)
    BY <1>4 DEF acquire
  <2>2. qs \in QueueMaps /\ qs[m] = Append(queue[m], me)
        /\ \A x \in Objects \ {m} : qs[x] = queue[x]
    BY <1>1, ObjectQueues, PushBackType DEF PushBack, QueueMaps, Objects
  <2> HIDE DEF qs
  <2>3. queue'[m] = Append(queue[m], me) /\ \A x \in Objects \ {m} : queue'[x] = queue[x]
    BY <1>1, <2>1, <2>2, ScheduleObjects DEF Objects
  <2>4. /\ pc'[me] = "lock" /\ obj'[me] = m
        /\ \A t \in Threads \ {me} : pc'[t] = pc[t] /\ obj'[t] = obj[t]
    BY <1>1, <2>1 DEF Suspend
  <2>5. \A x : x \in Elements(queue'[m]) <=> x \in Elements(queue[m]) \/ x = me
    BY <1>1, <2>3, AppendElements, ObjectQueues DEF QueueMaps, Objects
  <2>6. ASSUME NEW n \in Mutexes PROVE Owners(n)' = Owners(n)
    <3>1. CASE n = m
      BY <2>1, <2>4, <2>5, <3>1, OwnersKept
    <3>2. CASE n # m
      BY <2>1, <2>3, <2>4, <3>2, OwnersKept DEF Objects
    <3> QED BY <3>1, <3>2
  <2>7. \A n \in Mutexes \ {m} : Keeps(n)
    BY <2>1, <2>3, <2>6 DEF Keeps, Objects
  <2>8. QueuesUp(m, me)
    BY <1>2, <1>4, <2>1, <2>3, <2>6 DEF QueuesUp, Objects
  <2>9. WaitersInv'
    <3>1. ASSUME NEW n \in Mutexes, NEW t \in Elements(queue'[n])
          PROVE  pc'[t] = "lock" /\ obj'[t] = n
      <4>1. CASE t \in Elements(queue[n])
        <5>1. t # me /\ t \in Threads
          BY <1>2, <4>1 DEF Objects
        <5> QED BY <2>4, <4>1, <5>1 DEF WaitersInv
      <4>2. CASE t \notin Elements(queue[n])
        <5>1. n = m /\ t = me
          BY <2>3, <2>5, <4>2 DEF Objects
        <5> QED BY <2>4, <5>1
      <4> QED BY <4>1, <4>2
    <3>2. ASSUME NEW c \in Conds, NEW t \in Elements(queue'[c]) PROVE pc'[t] = "wait"
      BY <1>2, <2>3, <2>4, ObjectQueues DEF WaitersInv, Objects
    <3> QED BY <3>1, <3>2 DEF WaitersInv
  <2> QED BY <1>1, <2>7, <2>8, <2>9 DEF LockStep
<1> QED BY <1>3, <1>4

\* An unlock, by itself or in cond_wait.
LEMMA ReleaseLocks ==
  ASSUME TypeOK, LiveInv, PlacesInv, WaitersInv, LockWordCountsOwners,
         phase = "user", pc[current_thread] = "client",
         NEW m \in Mutexes, m \in holding[current_thread],
         UNCHANGED live, locked' = release_word(m),
         holding' = [holding EXCEPT ![current_thread] = @ \ {m}],
         \A n \in Mutexes : queue'[n] = release_queue(m)[n],
         \A c \in Conds : \A t \in Elements(queue'[c]) :
           t \in Elements(queue[c]) \/ (t = current_thread /\ pc'[t] = "wait"),
         \A t \in Threads \ {current_thread} : pc'[t] = pc[t] /\ obj'[t] = obj[t],
         pc'[current_thread] # "lock"
  PROVE  LockStep /\ WaitersInv'
<1> DEFINE me == current_thread
           first == Head(queue[m])
<1>1. /\ queue \in QueueMaps /\ Distinct(queue) /\ me \in Threads /\ ~QueuedIn(queue, me)
      /\ holding \in [Threads -> SUBSET Mutexes] /\ locked \in [Mutexes -> BOOLEAN]
      /\ m \in live /\ m \in Queues /\ queue[m] \in Seq(Threads)
  BY CallerPlaces, ObjectQueues DEF TypeOK, ThreadTypeOK, LiveInv, Objects, QueueMaps
<1>2. \A x \in Objects : \A t \in Elements(queue[x]) : t # me /\ t \in Threads
  BY <1>1, ObjectQueues DEF QueuedIn, Elements, QueueMaps
<1>3. locked[m] /\ Owners(m) = {me}
  <2>1. me \in Owners(m)
    BY <1>1 DEF Owners
  <2> QED BY <1>1, <2>1 DEF LockWordCountsOwners
<1>4. /\ holding'[me] = holding[me] \ {m}
      /\ \A t \in Threads \ {me} : holding'[t] = holding[t]
  BY <1>1
\* What happens to the queues of the mutexes.
<1>5. /\ queue[m] = <<>> => queue'[m] = <<>> /\ ~locked'[m]
      /\ queue[m] # <<>> => queue'[m] = Tail(queue[m]) /\ locked'[m]
      /\ \A n \in Mutexes \ {m} : queue'[n] = queue[n] /\ locked'[n] = locked[n]
  BY <1>1, <1>3, MoveFrontQueues, ObjectQueues DEF release_queue, release_word, Objects
<1>6. ASSUME NEW n \in Mutexes \ {m} PROVE Keeps(n)
  <2>1. Owners(n)' = Owners(n)
    BY <1>4, <1>5, OwnersKept
  <2> QED BY <1>5, <2>1 DEF Keeps
<1>7. queue[m] # <<>> => /\ first \in Elements(queue[m]) /\ first \in Threads
                         /\ first \notin Elements(Tail(queue[m]))
                         /\ Elements(Tail(queue[m])) \subseteq Elements(queue[m])
                         /\ \A t \in Elements(queue[m]) : t = first \/ t \in Elements(Tail(queue[m]))
  <2> SUFFICES ASSUME queue[m] # <<>>
               PROVE  /\ first \in Elements(queue[m]) /\ first \in Threads
                      /\ first \notin Elements(Tail(queue[m]))
                      /\ Elements(Tail(queue[m])) \subseteq Elements(queue[m])
                      /\ \A t \in Elements(queue[m]) : t = first \/ t \in Elements(Tail(queue[m]))
    OBVIOUS
  <2>1. /\ first \in Elements(queue[m]) /\ first \in Threads
        /\ Elements(Tail(queue[m])) \subseteq Elements(queue[m])
    BY <1>1, TailElements
  <2>2. first \notin Elements(Tail(queue[m]))
    BY <1>1, HeadOnce
  <2>3. ASSUME NEW t \in Elements(queue[m]), t # first PROVE t \in Elements(Tail(queue[m]))
    <3>1. QueuedIn(PopFront(queue, m), t)
      BY <1>1, <2>3, PopFrontQueued DEF QueuedIn
    <3>2. PICK q \in Queues : t \in Elements(PopFront(queue, m)[q])
      BY <3>1 DEF QueuedIn
    <3>3. q = m
      <4> SUFFICES ASSUME q # m PROVE FALSE
        OBVIOUS
      <4>1. t \in Elements(queue[q])
        BY <1>1, <3>2 DEF PopFront, QueueMaps
      <4> QED BY <1>1, <2>3, <4>1 DEF Distinct, Elements
    <3> QED BY <1>1, <3>2, <3>3 DEF PopFront, QueueMaps
  <2> QED BY <2>1, <2>2, <2>3
<1> HIDE DEF first
<1>8. Passes(m)
  <2>1. CASE queue[m] = <<>>
    <3>1. Owners(m)' = {}
      <4>1. \A t \in Threads \ {me} : ~(m \in holding[t]) /\ ~(pc[t] = "lock" /\ obj[t] = m /\ t \notin Elements(queue[m]))
        BY <1>3 DEF Owners
      <4> QED BY <1>4, <1>5, <2>1, <4>1 DEF Owners
    <3> QED BY <1>1, <1>3, <1>5, <2>1, <3>1 DEF Passes
  <2>2. CASE queue[m] # <<>>
    <3>1. pc[first] = "lock" /\ obj[first] = m /\ first # me /\ first \in Threads
      BY <1>2, <1>7, <2>2 DEF WaitersInv, Objects
    <3>2. first \in Owners(m)'
      BY <1>5, <1>7, <2>2, <3>1 DEF Owners
    <3>3. ASSUME NEW t \in Owners(m)' PROVE t = first
      <4>1. t \in Threads /\ (m \in holding'[t] \/ (pc'[t] = "lock" /\ obj'[t] = m /\ t \notin Elements(Tail(queue[m]))))
        BY <1>5, <2>2, <3>3 DEF Owners
      <4>2. t # me
        BY <1>4, <4>1
      <4>3. t \notin Owners(m)
        BY <1>3, <4>2
      <4> QED BY <1>4, <1>7, <2>2, <4>1, <4>2, <4>3 DEF Owners
    <3>4. Owners(m)' = {first}
      BY <3>2, <3>3
    <3> QED BY <1>1, <1>3, <1>5, <2>2, <3>4 DEF Passes, first
  <2> QED BY <2>1, <2>2
<1>9. WaitersInv'
  <2>1. ASSUME NEW n \in Mutexes, NEW t \in Elements(queue'[n])
        PROVE  pc'[t] = "lock" /\ obj'[t] = n
    <3>1. t \in Elements(queue[n])
      BY <1>5, <1>7, <2>1
    <3>2. t # me /\ t \in Threads
      BY <1>2, <3>1 DEF Objects
    <3> QED BY <3>1, <3>2 DEF WaitersInv
  <2>2. ASSUME NEW c \in Conds, NEW t \in Elements(queue'[c]) PROVE pc'[t] = "wait"
    BY <1>2, <2>2 DEF WaitersInv, Objects
  <2> QED BY <2>1, <2>2 DEF WaitersInv
<1> QED BY <1>6, <1>8, <1>9 DEF LockStep

\* The thread an unlock chose returns from lock: it owned the mutex already.
LEMMA ResumeLockLocks ==
  ASSUME TypeOK, LiveInv, PlacesInv, WaitersInv, ResumeLock
  PROVE  LockStep /\ WaitersInv'
<1> DEFINE me == current_thread
           mine == obj[current_thread]
<1>1. /\ phase = "user" /\ pc[me] = "lock" /\ Suspend("client", NULL)
      /\ holding' = [holding EXCEPT ![me] = @ \cup {mine}]
      /\ UNCHANGED <<queue, live, locked>>
  BY DEF ResumeLock, ResumedIn, Return, scheduler
<1>2. /\ queue \in QueueMaps /\ me \in Threads /\ ~QueuedIn(queue, me) /\ mine \in Mutexes
      /\ holding \in [Threads -> SUBSET Mutexes]
      /\ pc \in [Threads -> Calls] /\ obj \in [Threads -> Threads \cup Mutexes \cup {NULL}]
  BY <1>1, CallerPlaces DEF TypeOK, ThreadTypeOK
<1>3. \A x \in Objects : \A t \in Elements(queue[x]) : t # me /\ t \in Threads
  BY <1>2, ObjectQueues DEF QueuedIn, Elements, QueueMaps
<1>4. /\ pc'[me] = "client" /\ holding'[me] = holding[me] \cup {mine}
      /\ \A t \in Threads \ {me} : pc'[t] = pc[t] /\ obj'[t] = obj[t] /\ holding'[t] = holding[t]
  BY <1>1, <1>2 DEF Suspend
<1>5. ASSUME NEW m \in Mutexes PROVE Keeps(m)
  <2>1. \A t \in Threads : t \in Owners(m)' <=> t \in Owners(m)
    <3>1. me \in Owners(m)' <=> me \in Owners(m)
      BY <1>1, <1>2, <1>3, <1>4 DEF Owners, Objects
    <3>2. \A t \in Threads \ {me} : t \in Owners(m)' <=> t \in Owners(m)
      BY <1>1, <1>4 DEF Owners
    <3> QED BY <3>1, <3>2
  <2>2. Owners(m)' = Owners(m)
    BY <2>1 DEF Owners
  <2> QED BY <1>1, <2>2 DEF Keeps
<1>6. WaitersInv'
  BY <1>1, <1>3, <1>4 DEF WaitersInv, Objects
<1> QED BY <1>5, <1>6 DEF LockStep

\* The steps that lock or unlock.
LockingStep ==
  \/ \E m \in Mutexes : qthread_mutex_lock(m) \/ qthread_mutex_unlock(m)
  \/ \E c \in Conds, m \in Mutexes : qthread_cond_wait(c, m)
  \/ ResumeLock \/ ResumeWait

\* All others keep aside.
LEMMA OtherSteps ==
  ASSUME TypeOK, LiveInv, PlacesInv, [Next]_vars, ~LockingStep
  PROVE  Aside
<1>1. /\ queue \in QueueMaps /\ locked \in [Mutexes -> BOOLEAN]
      /\ pc \in [Threads -> Calls] /\ obj \in [Threads -> Threads \cup Mutexes \cup {NULL}]
  BY DEF TypeOK, SchedulerTypeOK, ThreadTypeOK, QueueMaps
\* A caller that goes into, or returns from, a call that is no lock.
<1>2. ASSUME phase = "user", pc[current_thread] # "lock",
             NEW call \in Calls \ {"lock"}, NEW x, Suspend(call, x)
      PROVE  \A t \in Threads : \/ pc'[t] = pc[t] /\ obj'[t] = obj[t]
                                \/ ~QueuedIn(queue, t) /\ pc[t] # "lock" /\ pc'[t] # "lock"
  <2>1. current_thread \in Threads /\ ~QueuedIn(queue, current_thread)
    BY <1>2, CallerPlaces
  <2>2. /\ pc'[current_thread] = call
        /\ \A t \in Threads \ {current_thread} : pc'[t] = pc[t] /\ obj'[t] = obj[t]
    BY <1>1, <1>2, <2>1 DEF Suspend
  <2> QED BY <1>2, <2>1, <2>2
\* A step that leaves the objects and the locks as they are.
<1>3. ASSUME UNCHANGED <<holding, locked, live>>, \A x \in Objects : queue'[x] = queue[x],
             \A t \in Threads : \/ pc'[t] = pc[t] /\ obj'[t] = obj[t]
                                \/ ~QueuedIn(queue, t) /\ pc[t] # "lock" /\ pc'[t] # "lock"
      PROVE  Aside
  BY <1>3 DEF Aside, Objects
<1>4. ASSUME phase = "user", NEW exit, schedule(exit, queue)
      PROVE  \A x \in Objects : queue'[x] = queue[x]
  BY <1>1, <1>4, CallerPlaces, ScheduleObjects
<1>5. ASSUME NEW u, join_loop(u), phase = "user", pc[current_thread] # "lock",
             UNCHANGED <<holding, locked, live>>
      PROVE  Aside
  <2>1. CASE dead[u]
    BY <1>2, <1>3, <1>5, <2>1 DEF join_loop, Return, scheduler, Calls
  <2>2. CASE ~dead[u]
    BY <1>2, <1>3, <1>4, <1>5, <2>2 DEF join_loop, Calls
  <2> QED BY <2>1, <2>2
<1>6. ASSUME NEW u \in Threads, qthread_create(u) PROVE Aside
  <2>1. UNCHANGED <<holding, locked, pc, obj>> /\ live' = live \cup {u} /\ u \notin Mutexes
    BY <1>6, ConstantsOK DEF qthread_create
  <2>2. \A x \in Objects : queue'[x] = queue[x]
    BY <1>1, <1>6, ObjectQueues DEF qthread_create, PushBack, QueueMaps
  <2> QED BY <2>1, <2>2 DEF Aside, Objects
<1>7. ASSUME NEW u \in Threads, qthread_join(u) PROVE Aside
  BY <1>5, <1>7 DEF qthread_join, InClient
<1>8. CASE qthread_yield
  BY <1>3, <1>4, <1>8 DEF qthread_yield, InClient
<1>9. CASE qthread_exit
  <2>1. /\ phase = "user" /\ pc[current_thread] = "client" /\ Suspend("exited", NULL)
        /\ UNCHANGED <<live, locked, holding>>
        /\ waiter[current_thread] \in Threads \cup {NULL, Wild} /\ current_thread \in Threads
    BY <1>9, CallerPlaces DEF qthread_exit, InClient, TypeOK, ThreadTypeOK
  <2>2. \A x \in Objects : queue'[x] = queue[x]
    <3>1. CASE waiter[current_thread] = Wild
      BY <1>9, <3>1 DEF qthread_exit
    <3>2. CASE waiter[current_thread] = NULL
      BY <1>4, <1>9, <2>1, <3>2, ConstantsOK DEF qthread_exit
    <3>3. CASE waiter[current_thread] \in Threads
      <4> DEFINE qs == PushBack(queue, runnable_queue, waiter[current_thread])
      <4>1. qs \in QueueMaps /\ \A x \in Objects : qs[x] = queue[x]
        BY <1>1, <3>3, PushBackType, ObjectQueues DEF PushBack, QueueMaps
      <4>2. schedule("exit", qs)
        BY <1>9, <3>3, ConstantsOK DEF qthread_exit
      <4> HIDE DEF qs
      <4> QED BY <2>1, <4>1, <4>2, ScheduleObjects
    <3> QED BY <2>1, <3>1, <3>2, <3>3
  <2> QED BY <1>2, <1>3, <2>1, <2>2 DEF Calls
<1>10. ASSUME NEW usecs \in Delays, qthread_usleep(usecs) PROVE Aside
  BY <1>2, <1>3, <1>4, <1>10 DEF qthread_usleep, InClient, Calls
<1>11. CASE MainReturns
  BY <1>3, <1>11 DEF MainReturns
<1>12. ASSUME NEW m \in Mutexes, qthread_mutex_create(m) PROVE Aside
  <2>1. /\ m \notin live /\ live' = live \cup {m} /\ locked' = [locked EXCEPT ![m] = FALSE]
        /\ queue' = [queue EXCEPT ![m] = <<>>] /\ UNCHANGED <<holding, pc, obj>>
    BY <1>12 DEF qthread_mutex_create
  <2>2. queue[m] = <<>>
    BY <2>1 DEF LiveInv
  <2>3. \A x \in Objects : queue'[x] = queue[x]
    BY <1>1, <2>1, <2>2 DEF QueueMaps
  <2> QED BY <1>1, <2>1, <2>3 DEF Aside, Objects
<1>13. ASSUME NEW m \in Mutexes, qthread_mutex_destroy(m) PROVE Aside
  BY <1>13 DEF qthread_mutex_destroy, scheduler, Aside
<1>14. ASSUME NEW c \in Conds, qthread_cond_create(c) PROVE Aside
  <2>1. /\ c \notin live /\ live' = live \cup {c}
        /\ queue' = [queue EXCEPT ![c] = <<>>] /\ UNCHANGED <<holding, locked, pc, obj>>
    BY <1>14 DEF qthread_cond_create
  <2>2. queue[c] = <<>>
    BY <2>1 DEF LiveInv
  <2>3. \A x \in Objects : queue'[x] = queue[x]
    BY <1>1, <2>1, <2>2 DEF QueueMaps
  <2> QED BY <2>1, <2>3, ObjectQueues DEF Aside, Objects
<1>15. ASSUME NEW c \in Conds, qthread_cond_destroy(c) PROVE Aside
  BY <1>15, ConstantsOK DEF qthread_cond_destroy, scheduler, Aside
<1>16. ASSUME NEW c \in Conds, qthread_cond_signal(c) PROVE Aside
  <2>1. /\ queue[c] # <<>> /\ queue' = MoveFront(queue, c, runnable_queue)
        /\ UNCHANGED <<live, holding, locked, pc, obj>>
    BY <1>16 DEF qthread_cond_signal
  <2>2. queue'[c] = Tail(queue[c]) /\ \A x \in Objects \ {c} : queue'[x] = queue[x]
    BY <1>1, <2>1, MoveFrontQueues, ObjectQueues DEF Objects
  <2>3. Elements(queue'[c]) \subseteq Elements(queue[c])
    BY <1>1, <2>1, <2>2, TailElements, ObjectQueues DEF Objects, QueueMaps
  <2> QED BY <2>1, <2>2, <2>3, ObjectQueues DEF Aside, Objects
<1>17. ASSUME NEW c \in Conds, qthread_cond_broadcast(c) PROVE Aside
  <2>1. /\ queue'[c] = <<>> /\ \A x \in Objects \ {c} : queue'[x] = queue[x]
        /\ UNCHANGED <<live, holding, locked, pc, obj>>
    BY <1>1, <1>17, ObjectQueues DEF qthread_cond_broadcast, QueueMaps, Objects
  <2>2. Elements(queue'[c]) \subseteq Elements(queue[c])
    BY <2>1 DEF Elements
  <2> QED BY <2>1, <2>2, ObjectQueues DEF Aside, Objects
<1>18. CASE ResumeJoin
  BY <1>5, <1>18 DEF ResumeJoin, ResumedIn
<1>19. CASE ResumeSleep
  BY <1>2, <1>3, <1>19 DEF ResumeSleep, ResumedIn, Return, scheduler, Calls
<1>20. CASE WakeRotate
  BY <1>1, <1>3, <1>20, ObjectQueues DEF WakeRotate, QueueMaps
<1>21. CASE WakeDone
  <2> DEFINE qs == PushBack(queue, runnable_queue, head)
  <2>1. qs \in QueueMaps /\ \A x \in Objects : qs[x] = queue[x]
    BY <1>1, <1>21, PushBackType, ObjectQueues
       DEF WakeDone, PushBack, QueueMaps, TypeOK, SchedulerTypeOK
  <2>2. switch_runnable(qs) /\ UNCHANGED <<holding, locked, live, pc, obj>>
    BY <1>21 DEF WakeDone
  <2> HIDE DEF qs
  <2> QED BY <1>3, <2>1, <2>2, SwitchObjects
<1>22. CASE Tick
  BY <1>3, <1>22 DEF Tick, scheduler
<1>23. CASE UNCHANGED vars
  BY <1>3, <1>23 DEF vars
<1> QED BY <1>6, <1>7, <1>8, <1>9, <1>10, <1>11, <1>12, <1>13, <1>14, <1>15, <1>16,
           <1>17, <1>18, <1>19, <1>20, <1>21, <1>22, <1>23
        DEF LockingStep, Next, ThreadStep, SyncStep, ResumeStep, WakeStep, Terminated

LEMMA NextLocks ==
  ASSUME TypeOK, LiveInv, PlacesInv, WaitersInv, LockWordCountsOwners, [Next]_vars
  PROVE  LockStep /\ WaitersInv'
<1>1. ASSUME NEW m \in Mutexes, qthread_mutex_lock(m) PROVE LockStep /\ WaitersInv'
  BY <1>1, AcquireLocks DEF qthread_mutex_lock, InClient
<1>2. CASE ResumeWait
  <2>1. /\ phase = "user" /\ pc[current_thread] = "wait" /\ acquire(obj[current_thread])
        /\ UNCHANGED live
    BY <1>2 DEF ResumeWait, ResumedIn
  <2>2. obj[current_thread] \in Mutexes /\ obj[current_thread] \in live
    BY <2>1, CallerPlaces DEF LiveInv, TypeOK, ThreadTypeOK
  <2> QED BY <2>1, <2>2, AcquireLocks
<1>3. ASSUME NEW m \in Mutexes, qthread_mutex_unlock(m) PROVE LockStep /\ WaitersInv'
  <2>1. /\ phase = "user" /\ pc[current_thread] = "client" /\ m \in holding[current_thread]
        /\ queue' = release_queue(m) /\ locked' = release_word(m)
        /\ holding' = [holding EXCEPT ![current_thread] = @ \ {m}]
        /\ UNCHANGED <<live, pc, obj>>
    BY <1>3 DEF qthread_mutex_unlock, InClient
  <2>2. \A c \in Conds : queue'[c] = queue[c]
    BY <2>1, MoveFrontQueues, ObjectQueues, CallerPlaces DEF release_queue, Objects
  <2> QED BY <2>1, <2>2, ReleaseLocks
<1>4. ASSUME NEW c \in Conds, NEW m \in Mutexes, qthread_cond_wait(c, m)
      PROVE  LockStep /\ WaitersInv'
  <2> DEFINE me == current_thread
             released == release_queue(m)
             qs == PushBack(released, c, me)
  <2>1. /\ phase = "user" /\ pc[me] = "client" /\ m \in holding[me]
        /\ locked' = release_word(m) /\ holding' = [holding EXCEPT ![me] = @ \ {m}]
        /\ Suspend("wait", m) /\ schedule("wait", qs) /\ UNCHANGED live
    BY <1>4 DEF qthread_cond_wait, InClient
  <2>2. /\ me \in Threads /\ queue \in QueueMaps /\ released \in QueueMaps
        /\ \A d \in Conds : released[d] = queue[d]
    BY <2>1, CallerPlaces, ReleaseType, MoveFrontQueues, ObjectQueues DEF release_queue, Objects
  <2> HIDE DEF released
  <2>3. /\ qs \in QueueMaps /\ qs[c] = Append(released[c], me)
        /\ \A x \in Objects \ {c} : qs[x] = released[x]
    BY <2>2, PushBackType, ObjectQueues DEF PushBack, QueueMaps, Objects
  <2> HIDE DEF qs
  <2>4. \A x \in Objects : queue'[x] = qs[x]
    BY <2>1, <2>2, <2>3, ScheduleObjects
  <2>5. /\ pc'[me] = "wait"
        /\ \A t \in Threads \ {me} : pc'[t] = pc[t] /\ obj'[t] = obj[t]
    BY <2>1, <2>2 DEF Suspend, TypeOK, ThreadTypeOK
  <2>6. \A n \in Mutexes : queue'[n] = released[n]
    BY <2>3, <2>4, ObjectQueues DEF Objects
  <2>7. ASSUME NEW d \in Conds, NEW t \in Elements(queue'[d])
        PROVE  t \in Elements(queue[d]) \/ (t = me /\ pc'[t] = "wait")
    <3>1. CASE d = c
      <4>1. queue'[d] = Append(queue[d], me) /\ queue[d] \in Seq(Threads)
        BY <2>2, <2>3, <2>4, <3>1, ObjectQueues DEF Objects, QueueMaps
      <4> QED BY <2>2, <2>5, <2>7, <4>1, AppendElements
    <3>2. CASE d # c
      <4>1. queue'[d] = queue[d]
        BY <2>2, <2>3, <2>4, <3>2 DEF Objects
      <4> QED BY <2>7, <4>1
    <3> QED BY <3>1, <3>2
  <2> QED BY <2>1, <2>5, <2>6, <2>7, ReleaseLocks DEF released
<1>5. CASE ResumeLock
  BY <1>5, ResumeLockLocks
<1>6. CASE ~LockingStep
  BY <1>6, OtherSteps, AsideLocks
<1> QED BY <1>1, <1>2, <1>3, <1>4, <1>5, <1>6 DEF LockingStep

\* What such steps leave of the invariant.
LEMMA LockStepCounts ==
  ASSUME TypeOK, LiveInv, LockWordCountsOwners, LockStep
  PROVE  LockWordCountsOwners'
<1>1. ASSUME NEW m \in Mutexes, m \in live', Keeps(m)
      PROVE  IF locked'[m] THEN \E t \in Threads : Owners(m)' = {t}
                           ELSE Owners(m)' = {} /\ queue'[m] = <<>>
  BY <1>1 DEF Keeps, LockWordCountsOwners
<1>2. ASSUME NEW m \in Mutexes, m \in live',
             Passes(m) \/ \E t \in Threads : Takes(m, t) \/ QueuesUp(m, t)
      PROVE  IF locked'[m] THEN \E t \in Threads : Owners(m)' = {t}
                           ELSE Owners(m)' = {} /\ queue'[m] = <<>>
  <2>1. CASE Passes(m)
    <3>1. queue[m] # <<>> => Head(queue[m]) \in Threads
      BY TailElements, ObjectQueues DEF TypeOK, SchedulerTypeOK, Objects
    <3> QED BY <2>1, <3>1 DEF Passes
  <2>2. ASSUME NEW t \in Threads, Takes(m, t)
        PROVE  locked'[m] /\ Owners(m)' = {t}
    BY <2>2 DEF Takes
  <2>3. ASSUME NEW t \in Threads, QueuesUp(m, t)
        PROVE  locked'[m] /\ \E u \in Threads : Owners(m)' = {u}
    BY <2>3 DEF QueuesUp, LockWordCountsOwners
  <2> QED BY <1>2, <2>1, <2>2, <2>3
<1> QED BY <1>1, <1>2 DEF LockStep, LockWordCountsOwners

(***************************************************************************)
(* The theorems on mutexes.                                                *)
(***************************************************************************)
LockInv == TypeOK /\ LiveInv /\ PlacesInv /\ WaitersInv /\ LockWordCountsOwners

LEMMA SpecLocks == Spec => []LockInv
<1>1. Init => WaitersInv /\ LockWordCountsOwners
  BY ConstantsOK DEF Init, WaitersInv, LockWordCountsOwners, Elements, Queues
<1>2. LockInv /\ [Next]_vars => (WaitersInv /\ LockWordCountsOwners)'
  BY NextLocks, LockStepCounts DEF LockInv
<1> QED BY <1>1, <1>2, SpecPlaces, PTL DEF Spec, LockInv

\* Mutual exclusion: the lock word of every mutex is 1 exactly while one thread
\* owns it, and nobody waits for a free one.
THEOREM MutualExclusion == Spec => []LockWordCountsOwners
BY SpecLocks, PTL DEF LockInv

\* The owner FairLock sees.
owner == [m \in Mutexes |-> IF Owners(m) = {} THEN NULL ELSE CHOOSE t \in Owners(m) : TRUE]
waiting == [m \in Mutexes |-> queue[m]]

LEMMA OwnerValue ==
  ASSUME NEW m \in Mutexes
  PROVE  /\ Owners(m) = {} => owner[m] = NULL
         /\ \A t \in Threads : Owners(m) = {t} => owner[m] = t /\ owner[m] # NULL
BY ConstantsOK DEF owner

\* A step of the library is a step of a fair lock, or none.
LEMMA LockRefines ==
  ASSUME TypeOK, LockWordCountsOwners, LockStep
  PROVE  Lock!Next \/ UNCHANGED <<owner, waiting>>
<1>1. ASSUME NEW m \in Mutexes, Keeps(m)
      PROVE  owner'[m] = owner[m] /\ waiting'[m] = waiting[m]
  BY <1>1 DEF Keeps, owner, waiting
<1>2. CASE \A m \in Mutexes : Keeps(m)
  BY <1>1, <1>2 DEF owner, waiting
<1>3. ASSUME NEW m \in Mutexes, \A n \in Mutexes \ {m} : Keeps(n),
             Passes(m) \/ \E t \in Threads : Takes(m, t) \/ QueuesUp(m, t)
      PROVE  Lock!Next
  <2>1. /\ \A n \in Mutexes \ {m} : owner'[n] = owner[n] /\ waiting'[n] = waiting[n]
        /\ waiting[m] = queue[m] /\ waiting'[m] = queue'[m]
    BY <1>1, <1>3 DEF waiting
  <2>2. /\ owner' = [owner EXCEPT ![m] = owner'[m]]
        /\ waiting' = [waiting EXCEPT ![m] = waiting'[m]]
    <3>1. /\ owner = [n \in Mutexes |-> owner[n]] /\ owner' = [n \in Mutexes |-> owner'[n]]
          /\ waiting = [n \in Mutexes |-> waiting[n]]
          /\ waiting' = [n \in Mutexes |-> waiting'[n]]
      BY DEF owner, waiting
    <3> QED BY <2>1, <3>1
  <2>3. ASSUME Passes(m) PROVE Lock!Release(m)
    <3>1. owner[m] # NULL
      BY <2>3, OwnerValue DEF Passes
    <3>2. CASE queue[m] = <<>>
      <4>1. owner'[m] = NULL /\ waiting'[m] = waiting[m]
        BY <2>1, <2>3, <3>2 DEF Passes, owner
      <4> QED BY <2>1, <2>2, <3>1, <3>2, <4>1, ZenonT(40) DEF Lock!Release, owner, waiting
    <3>3. CASE queue[m] # <<>>
      <4>1. owner'[m] = Head(waiting[m]) /\ waiting'[m] = Tail(waiting[m])
        BY <2>1, <2>3, <3>3 DEF Passes, owner
      <4> QED BY <2>1, <2>2, <3>1, <3>3, <4>1 DEF Lock!Release, owner, waiting
    <3> QED BY <3>2, <3>3
  <2>4. ASSUME NEW t \in Threads, Takes(m, t) PROVE Lock!Acquire(m, t)
    <3>1. owner[m] = NULL /\ owner'[m] = t /\ waiting'[m] = waiting[m]
      BY <2>1, <2>4 DEF Takes, owner
    <3> QED BY <2>2, <3>1 DEF Lock!Acquire, owner, waiting
  <2>5. ASSUME NEW t \in Threads, QueuesUp(m, t) PROVE Lock!Wait(m, t)
    <3>1. owner[m] # NULL
      BY <2>5, OwnerValue DEF QueuesUp, LockWordCountsOwners
    <3>2. owner'[m] = owner[m] /\ waiting'[m] = Append(waiting[m], t)
      BY <2>1, <2>5 DEF QueuesUp, owner
    <3>3. ~Lock!Waits(t)
      BY <2>5 DEF QueuesUp, Lock!Waits, Elements, waiting
    <3> QED BY <2>2, <3>1, <3>2, <3>3 DEF Lock!Wait, owner, waiting
  <2> QED BY <1>3, <2>3, <2>4, <2>5 DEF Lock!Next
<1> QED BY <1>2, <1>3 DEF LockStep

\* The mutexes implement fair locks: nobody barges in, nobody is skipped, and
\* no unlock is lost, whoever asks for the mutex before its new owner runs.
THEOREM MutexesRefineFairLock == Spec => MutexesAreFair
<1>1. Init => Lock!Init
  BY DEF Init, Lock!Init, Owners, Queues
<1>2. LockInv /\ [Next]_vars => [Lock!Next]_<<owner, waiting>>
  BY NextLocks, LockRefines DEF LockInv
<1> QED BY <1>1, <1>2, SpecLocks, PTL DEF Spec, MutexesAreFair, Lock!Spec, owner, waiting

(***************************************************************************)
(* Sleepers.                                                               *)
(***************************************************************************)

\* The next thread to run is one of these.
Ready(t) == t \in Elements(queue[runnable_queue]) \/ (phase = "user" /\ t = current_thread)
Sleeping(t) == pc[t] = "sleep" /\ timing[t] > clock

\* A step readies only threads whose sleep is over, or that do not sleep, and
\* puts to sleep only threads that it does not leave ready.
SleepStep ==
  /\ \A t \in Threads : Ready(t)' => Ready(t) \/ ~Sleeping(t)
  /\ \A t \in Threads : Sleeping(t)' => Sleeping(t) \/ ~Ready(t)'

\* The scheduler readies nobody but a caller that yields.
LEMMA SwitchReady ==
  ASSUME NEW qs \in QueueMaps, switch_runnable(qs)
  PROVE  \A t \in Threads : Ready(t)' => t \in Elements(qs[runnable_queue])
<1>1. runnable_queue \in Queues /\ qs[runnable_queue] \in Seq(Threads)
  BY ObjectQueues DEF QueueMaps
<1>2. CASE qs[runnable_queue] = <<>>
  BY <1>2 DEF switch_runnable, Ready
<1>3. CASE qs[runnable_queue] # <<>>
  <2>1. /\ current_thread' = Head(qs[runnable_queue])
        /\ queue'[runnable_queue] = Tail(qs[runnable_queue])
    BY <1>1, <1>3 DEF switch_runnable, PopFront, QueueMaps
  <2> QED BY <1>1, <1>3, <2>1, TailElements DEF Ready
<1> QED BY <1>2, <1>3

LEMMA ScheduleReady ==
  ASSUME NEW qs \in QueueMaps, NEW exit, current_thread \in Threads, schedule(exit, qs)
  PROVE  \A t \in Threads : Ready(t)' => \/ t \in Elements(qs[runnable_queue])
                                         \/ exit = "yield" /\ t = current_thread
<1> DEFINE requeued == requeue(exit, qs)
<1>1. requeued \in QueueMaps
  BY RequeueType
<1>2. \A t \in Threads : t \in Elements(requeued[runnable_queue]) =>
        \/ t \in Elements(qs[runnable_queue])
        \/ exit = "yield" /\ t = current_thread
  <2>1. CASE exit = "yield"
    <3>1. requeued[runnable_queue] = Append(qs[runnable_queue], current_thread)
      BY <2>1, ObjectQueues DEF requeue, PushBack, QueueMaps
    <3>2. qs[runnable_queue] \in Seq(Threads)
      BY ObjectQueues DEF QueueMaps
    <3> QED BY <2>1, <3>1, <3>2, AppendElements
  <2>2. CASE exit # "yield"
    <3>1. requeued[runnable_queue] = qs[runnable_queue]
      BY <2>2, ObjectQueues DEF requeue, PushBack, QueueMaps
    <3> QED BY <3>1
  <2> QED BY <2>1, <2>2
<1>3. CASE enter_wake_loop(requeued)
  <2>1. queue'[runnable_queue] = requeued[runnable_queue] /\ phase' = "waking"
    BY <1>1, <1>3, ObjectQueues DEF enter_wake_loop, PopFront, QueueMaps
  <2> QED BY <1>2, <2>1 DEF Ready
<1>4. CASE switch_runnable(requeued)
  BY <1>1, <1>2, <1>4, SwitchReady
<1> QED BY <1>3, <1>4 DEF schedule

LEMMA NextSleep ==
  ASSUME TypeOK, PlacesInv, WaitersInv, [Next]_vars
  PROVE  SleepStep
<1>1. /\ queue \in QueueMaps /\ queue[runnable_queue] \in Seq(Threads)
      /\ pc \in [Threads -> Calls] /\ obj \in [Threads -> Threads \cup Mutexes \cup {NULL}]
      /\ timing \in [Threads -> Nat] /\ clock \in Nat
      /\ phase = "user" => current_thread \in Threads
  BY ObjectQueues DEF TypeOK, SchedulerTypeOK, ThreadTypeOK, QueueMaps
\* Who may be readied, and who may fall asleep.
<1>2. ASSUME \A t \in Threads : Ready(t)' => Ready(t) \/ ~Sleeping(t),
             UNCHANGED <<timing, clock>>,
             \A t \in Threads : pc'[t] = pc[t] \/ pc'[t] # "sleep"
      PROVE  SleepStep
  BY <1>2 DEF SleepStep, Sleeping
<1>3. ASSUME phase = "user", NEW call, NEW x, Suspend(call, x)
      PROVE  \A t \in Threads : pc'[t] = pc[t] \/ (t = current_thread /\ pc'[t] = call)
  BY <1>1, <1>3 DEF Suspend
<1>4. ASSUME phase = "user", NEW exit, schedule(exit, queue)
      PROVE  \A t \in Threads : Ready(t)' => Ready(t)
  BY <1>1, <1>4, ScheduleReady DEF Ready
\* What a push to the runnable queue readies.
<1>5. ASSUME NEW qs \in QueueMaps, NEW t \in Threads, NEW u \in Threads,
             u \in Elements(PushBack(qs, runnable_queue, t)[runnable_queue])
      PROVE  u = t \/ u \in Elements(qs[runnable_queue])
  <2>1. /\ PushBack(qs, runnable_queue, t)[runnable_queue] = Append(qs[runnable_queue], t)
        /\ qs[runnable_queue] \in Seq(Threads)
    BY ObjectQueues DEF PushBack, QueueMaps
  <2> QED BY <1>5, <2>1, AppendElements
\* The front of an object's queue does not sleep, and moving it readies it alone.
<1>6. ASSUME NEW x \in Objects, queue[x] # <<>>, NEW u \in Threads,
             u \in Elements(MoveFront(queue, x, runnable_queue)[runnable_queue])
      PROVE  u \in Elements(queue[runnable_queue]) \/ ~Sleeping(u)
  <2>1. /\ PopFront(queue, x) \in QueueMaps /\ x \in Queues /\ Head(queue[x]) \in Threads
        /\ PopFront(queue, x)[runnable_queue] = queue[runnable_queue]
        /\ queue[x] \in Seq(Threads)
    BY <1>1, <1>6, PopFrontType, ObjectQueues DEF PopFront, QueueMaps
  <2>2. Head(queue[x]) \in Elements(queue[x])
    BY <1>6, <2>1, TailElements
  <2>3. pc[Head(queue[x])] # "sleep"
    BY <2>2 DEF WaitersInv, Objects
  <2>4. u = Head(queue[x]) \/ u \in Elements(queue[runnable_queue])
    BY <1>5, <1>6, <2>1 DEF MoveFront
  <2> QED BY <2>3, <2>4 DEF Sleeping
<1>7. ASSUME NEW m \in Mutexes, NEW u \in Threads,
             u \in Elements(release_queue(m)[runnable_queue])
      PROVE  u \in Elements(queue[runnable_queue]) \/ ~Sleeping(u)
  BY <1>6, <1>7 DEF release_queue, Objects
<1>8. ASSUME NEW u, join_loop(u), phase = "user", UNCHANGED <<timing, clock>>
      PROVE  SleepStep
  <2>1. CASE dead[u]
    BY <1>2, <1>3, <1>8, <2>1 DEF join_loop, Return, scheduler, Ready
  <2>2. CASE ~dead[u]
    BY <1>2, <1>3, <1>4, <1>8, <2>2 DEF join_loop
  <2> QED BY <2>1, <2>2
<1>9. ASSUME NEW m \in Mutexes, acquire(m), phase = "user", UNCHANGED <<timing, clock>>
      PROVE  SleepStep
  <2>1. CASE ~locked[m]
    BY <1>2, <1>3, <1>9, <2>1 DEF acquire, Return, scheduler, Ready
  <2>2. CASE locked[m]
    <3> DEFINE qs == PushBack(queue, m, current_thread)
    <3>1. /\ schedule("wait", qs) /\ Suspend("lock", m) /\ current_thread \in Threads
          /\ qs \in QueueMaps /\ qs[runnable_queue] = queue[runnable_queue]
      BY <1>1, <1>9, <2>2, PushBackType, ObjectQueues DEF acquire, PushBack, QueueMaps, Objects
    <3> HIDE DEF qs
    <3>2. \A t \in Threads : Ready(t)' => Ready(t)
      BY <3>1, ScheduleReady DEF Ready
    <3> QED BY <1>2, <1>3, <1>9, <3>1, <3>2
  <2> QED BY <2>1, <2>2
<1>10. ASSUME NEW u \in Threads, qthread_create(u) PROVE SleepStep
  <2>1. /\ queue' = PushBack(queue, runnable_queue, u) /\ pc[u] = "client"
        /\ UNCHANGED <<current_thread, phase, pc, timing, clock>>
    BY <1>10 DEF qthread_create, PlacesInv
  <2>2. \A t \in Threads : Ready(t)' => Ready(t) \/ ~Sleeping(t)
    BY <1>1, <1>5, <2>1 DEF Ready, Sleeping
  <2> QED BY <1>2, <2>1, <2>2
<1>11. ASSUME NEW u \in Threads, qthread_join(u) PROVE SleepStep
  BY <1>8, <1>11 DEF qthread_join, InClient
<1>12. CASE qthread_yield
  BY <1>2, <1>4, <1>12 DEF qthread_yield, InClient
<1>13. CASE qthread_exit
  <2> DEFINE w == waiter[current_thread]
  <2>1. /\ phase = "user" /\ Suspend("exited", NULL) /\ UNCHANGED <<timing, clock>>
        /\ w \in Threads \cup {NULL, Wild} /\ current_thread \in Threads
        /\ pc[current_thread] = "client" /\ current_thread \in live
    BY <1>13, CallerPlaces DEF qthread_exit, InClient, TypeOK, ThreadTypeOK
  <2>2. \A t \in Threads : Ready(t)' => Ready(t) \/ ~Sleeping(t)
    <3>1. CASE w = Wild
      BY <1>13, <3>1 DEF qthread_exit, Ready
    <3>2. CASE w = NULL
      BY <1>4, <1>13, <2>1, <3>2, ConstantsOK DEF qthread_exit
    <3>3. CASE w \in Threads
      <4> DEFINE qs == PushBack(queue, runnable_queue, w)
      <4>1. schedule("exit", qs) /\ qs \in QueueMaps
        BY <1>1, <1>13, <3>3, ConstantsOK, PushBackType, ObjectQueues DEF qthread_exit
      <4>2. pc[w] = "join"
        BY <2>1, <3>3 DEF PlacesInv
      <4>3. \A t \in Threads : t \in Elements(qs[runnable_queue]) =>
              t = w \/ t \in Elements(queue[runnable_queue])
        BY <1>1, <1>5, <3>3
      <4> HIDE DEF qs
      <4>4. \A t \in Threads : Ready(t)' => t \in Elements(qs[runnable_queue])
        BY <2>1, <4>1, ScheduleReady
      <4> QED BY <4>2, <4>3, <4>4 DEF Ready, Sleeping
    <3> QED BY <2>1, <3>1, <3>2, <3>3
  <2> QED BY <1>2, <1>3, <2>1, <2>2
\* The caller is asleep now, and in no queue that is served.
<1>14. ASSUME NEW usecs \in Delays, qthread_usleep(usecs) PROVE SleepStep
  <2>1. /\ phase = "user" /\ current_thread \in Threads /\ ~QueuedIn(queue, current_thread)
        /\ Suspend("sleep", NULL) /\ schedule("sleep", queue) /\ clock' = clock
        /\ \A t \in Threads \ {current_thread} : timing'[t] = timing[t]
    BY <1>1, <1>14, CallerPlaces DEF qthread_usleep, InClient
  <2>2. \A t \in Threads : Ready(t)' => Ready(t) /\ t # current_thread
    BY <1>1, <2>1, ScheduleReady, ObjectQueues DEF QueuedIn, Ready
  <2> QED BY <1>3, <2>1, <2>2 DEF SleepStep, Sleeping
<1>15. CASE MainReturns
  BY <1>2, <1>15 DEF MainReturns, Ready
<1>16. ASSUME NEW m \in Mutexes, qthread_mutex_create(m) PROVE SleepStep
  <2>1. queue'[runnable_queue] = queue[runnable_queue]
    BY <1>1, <1>16, ObjectQueues DEF qthread_mutex_create, QueueMaps, Objects
  <2> QED BY <1>2, <1>16, <2>1 DEF qthread_mutex_create, Ready
<1>17. ASSUME NEW m \in Mutexes, qthread_mutex_destroy(m) PROVE SleepStep
  BY <1>2, <1>17 DEF qthread_mutex_destroy, scheduler, Ready
<1>18. ASSUME NEW m \in Mutexes, qthread_mutex_lock(m) PROVE SleepStep
  BY <1>9, <1>18 DEF qthread_mutex_lock, InClient
<1>19. ASSUME NEW m \in Mutexes, qthread_mutex_unlock(m) PROVE SleepStep
  BY <1>2, <1>7, <1>19 DEF qthread_mutex_unlock, Ready
<1>20. ASSUME NEW c \in Conds, qthread_cond_create(c) PROVE SleepStep
  <2>1. queue'[runnable_queue] = queue[runnable_queue]
    BY <1>1, <1>20, ObjectQueues DEF qthread_cond_create, QueueMaps, Objects
  <2> QED BY <1>2, <1>20, <2>1 DEF qthread_cond_create, Ready
<1>21. ASSUME NEW c \in Conds, qthread_cond_destroy(c) PROVE SleepStep
  BY <1>2, <1>21 DEF qthread_cond_destroy, scheduler, Ready
<1>22. ASSUME NEW c \in Conds, qthread_cond_signal(c) PROVE SleepStep
  BY <1>2, <1>6, <1>22 DEF qthread_cond_signal, Ready, Objects
<1>23. ASSUME NEW c \in Conds, qthread_cond_broadcast(c) PROVE SleepStep
  <2>1. /\ queue'[runnable_queue] = queue[runnable_queue] \o queue[c]
        /\ queue[c] \in Seq(Threads)
        /\ UNCHANGED <<current_thread, phase, pc, timing, clock>>
    BY <1>1, <1>23, ObjectQueues DEF qthread_cond_broadcast, QueueMaps, Objects
  <2>2. \A t \in Elements(queue'[runnable_queue]) :
          t \in Elements(queue[runnable_queue]) \/ t \in Elements(queue[c])
    <3> SUFFICES ASSUME NEW i \in DOMAIN queue'[runnable_queue]
                 PROVE  \/ queue'[runnable_queue][i] \in Elements(queue[runnable_queue])
                        \/ queue'[runnable_queue][i] \in Elements(queue[c])
      BY DEF Elements
    <3> DEFINE a == queue[runnable_queue]
               b == queue[c]
    <3>1. /\ a \in Seq(Threads) /\ b \in Seq(Threads)
          /\ Len(a) \in Nat /\ Len(b) \in Nat
          /\ DOMAIN a = 1 .. Len(a) /\ DOMAIN b = 1 .. Len(b)
      BY <1>1, <2>1
    <3> HIDE DEF a, b
    <3>2. /\ Len(a \o b) = Len(a) + Len(b) /\ DOMAIN (a \o b) = 1 .. Len(a) + Len(b)
          /\ \A j \in 1 .. Len(a) + Len(b) :
               (a \o b)[j] = IF j <= Len(a) THEN a[j] ELSE b[j - Len(a)]
      BY <3>1, ConcatProperties
    <3>3. i \in 1 .. Len(a) + Len(b) /\ queue'[runnable_queue] = a \o b
      BY <2>1, <3>2 DEF a, b
    <3>4. CASE i <= Len(a)
      <4>1. i \in DOMAIN a /\ queue'[runnable_queue][i] = a[i]
        BY <3>1, <3>2, <3>3, <3>4
      <4> QED BY <4>1 DEF Elements, a
    <3>5. CASE ~(i <= Len(a))
      <4>1. i - Len(a) \in DOMAIN b /\ queue'[runnable_queue][i] = b[i - Len(a)]
        BY <3>1, <3>2, <3>3, <3>5
      <4> QED BY <4>1 DEF Elements, b
    <3> QED BY <3>4, <3>5
  <2> QED BY <1>2, <2>1, <2>2 DEF WaitersInv, Ready, Sleeping
<1>24. ASSUME NEW c \in Conds, NEW m \in Mutexes, qthread_cond_wait(c, m)
       PROVE  SleepStep
  <2> DEFINE qs == PushBack(release_queue(m), c, current_thread)
  <2>1. /\ phase = "user" /\ current_thread \in Threads
        /\ Suspend("wait", m) /\ schedule("wait", qs) /\ UNCHANGED <<timing, clock>>
    BY <1>1, <1>24 DEF qthread_cond_wait, InClient
  <2>2. release_queue(m) \in QueueMaps
    BY ReleaseType
  <2>3. qs \in QueueMaps /\ qs[runnable_queue] = release_queue(m)[runnable_queue]
    BY <2>1, <2>2, PushBackType, ObjectQueues DEF PushBack, QueueMaps, Objects
  <2> HIDE DEF qs
  <2>4. \A t \in Threads : Ready(t)' => t \in Elements(qs[runnable_queue])
    BY <2>1, <2>3, ScheduleReady
  <2>5. \A t \in Threads : Ready(t)' => Ready(t) \/ ~Sleeping(t)
    BY <1>7, <2>3, <2>4 DEF Ready
  <2> QED BY <1>2, <1>3, <2>1, <2>5
<1>25. CASE ResumeJoin
  BY <1>8, <1>25 DEF ResumeJoin, ResumedIn
<1>26. ASSUME ResumeSleep \/ ResumeLock PROVE SleepStep
  <2>1. phase = "user" /\ Suspend("client", NULL) /\ UNCHANGED <<scheduler, timing, clock>>
    BY <1>26 DEF ResumeSleep, ResumeLock, ResumedIn, Return
  <2> QED BY <1>2, <1>3, <2>1 DEF scheduler, Ready
<1>27. CASE ResumeWait
  <2>1. obj[current_thread] \in Mutexes
    BY <1>1, <1>27 DEF ResumeWait, ResumedIn, TypeOK, ThreadTypeOK
  <2> QED BY <1>9, <1>27, <2>1 DEF ResumeWait, ResumedIn
<1>28. CASE WakeRotate
  <2>1. queue'[runnable_queue] = queue[runnable_queue]
    BY <1>1, <1>28, ObjectQueues DEF WakeRotate, QueueMaps
  <2> QED BY <1>2, <1>28, <2>1 DEF WakeRotate, Ready
<1>29. CASE WakeDone
  <2> DEFINE qs == PushBack(queue, runnable_queue, head)
  <2>1. /\ head \in Threads /\ timing[head] <= clock /\ switch_runnable(qs)
        /\ UNCHANGED <<pc, timing, clock>>
    BY <1>29 DEF WakeDone, TypeOK, SchedulerTypeOK
  <2>2. qs \in QueueMaps /\ \A t \in Threads : t \in Elements(qs[runnable_queue]) =>
                              t = head \/ t \in Elements(queue[runnable_queue])
    BY <1>1, <1>5, <2>1, PushBackType, ObjectQueues
  <2> HIDE DEF qs
  <2>3. ~(timing[head] > clock)
    BY <1>1, <2>1
  <2>4. \A t \in Threads : Ready(t)' => Ready(t) \/ ~Sleeping(t)
    BY <2>1, <2>2, <2>3, SwitchReady DEF Ready, Sleeping
  <2> QED BY <1>2, <2>1, <2>4
<1>30. CASE Tick
  <2>1. /\ UNCHANGED <<current_thread, queue, phase, pc, timing>>
        /\ \A t \in Threads : timing[t] > clock' => timing[t] > clock
    BY <1>1, <1>30 DEF Tick, scheduler
  <2> QED BY <2>1 DEF SleepStep, Ready, Sleeping
<1>31. CASE UNCHANGED vars
  BY <1>31 DEF vars, SleepStep, Ready, Sleeping
<1> QED BY <1>10, <1>11, <1>12, <1>13, <1>14, <1>15, <1>16, <1>17, <1>18, <1>19, <1>20,
           <1>21, <1>22, <1>23, <1>24, <1>25, <1>26, <1>27, <1>28, <1>29, <1>30, <1>31
        DEF Next, ThreadStep, SyncStep, ResumeStep, WakeStep, Terminated

\* A thread that qthread_usleep suspended is runnable again only after its time,
\* whatever the order of the sleepers and of the calls of the others.
THEOREM SleepersStayAsleep == Spec => []NoEarlyWake
<1>1. NoEarlyWake <=> \A t \in Threads : Sleeping(t) => ~Ready(t)
  BY DEF NoEarlyWake, Sleeping, Ready
<1>2. Init => NoEarlyWake
  BY DEF Init, NoEarlyWake
<1>3. NoEarlyWake /\ LockInv /\ [Next]_vars => NoEarlyWake'
  <2> SUFFICES ASSUME NoEarlyWake, LockInv, [Next]_vars,
                      NEW t \in Threads, Sleeping(t)'
               PROVE  ~Ready(t)'
    BY DEF NoEarlyWake, Sleeping, Ready
  <2> QED BY <1>1, NextSleep DEF LockInv, SleepStep
<1> QED BY <1>2, <1>3, SpecLocks, PTL DEF Spec

=============================================================================
