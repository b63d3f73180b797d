------------------------------- MODULE QThread -------------------------------
(***************************************************************************)
(* The scheduler, threads, mutexes and condition variables of              *)
(* src/threading-lib (qthread_manager.c, qthread.c).                       *)
(*                                                                         *)
(* The library runs on one processor thread and switches only inside       *)
(* schedule(), so a library call up to its switch is one atomic step, and  *)
(* what follows the switch, once the thread runs again, is another.  The   *)
(* loop that waits for a sleeper reads the clock on every turn: each turn  *)
(* is a step of its own.                                                   *)
(*                                                                         *)
(* Between library calls a thread does what it likes, within the contract  *)
(* the header leaves to it: it unlocks and waits with mutexes it holds,    *)
(* uses objects that exist, destroys them when idle, and is the only one   *)
(* to join the thread it joins.                                            *)
(***************************************************************************)
EXTENDS Naturals, Sequences

CONSTANTS Threads,    \* the qthread structures malloc can return
          Main,       \* the one of the OS-provided thread
          Mutexes,    \* the mutex structures
          Conds,      \* the condition variable structures
          NULL,
          Wild,       \* a pointer read from memory nobody initialised
          Delays,     \* the arguments of qthread_usleep
          MaxClock,   \* bound: the clock stops there
          DirtyHeap   \* whether qthread_init's malloc returns used memory

runnable_queue == "runnable_queue"
sleeping_set == "sleeping_set"

\* The thread queues: every object that has a "struct threadq".
Queues == {runnable_queue, sleeping_set} \cup Mutexes \cup Conds

ASSUME ConstantsOK ==
  /\ Main \in Threads
  /\ NULL \notin Threads \cup Mutexes \cup {Wild}
  /\ Wild \notin Threads
  /\ Threads \cap Mutexes = {}
  /\ Conds \cap (Threads \cup Mutexes) = {}
  /\ {runnable_queue, sleeping_set} \cap (Mutexes \cup Conds) = {}
  /\ Delays \subseteq Nat
  /\ MaxClock \in Nat
  /\ DirtyHeap \in BOOLEAN

VARIABLES
  current_thread,
  queue,     \* the threads of each queue, front first
  dead,      \* thread->dead = 1
  waiter,    \* thread->waiter
  timing,    \* thread->timing_information
  locked,    \* mutex->locked = 1
  live,      \* the structures that are allocated
  phase,     \* "user", "waking" (in the wake loop), or how the process ended
  head,      \* the wake loop's head, NULL outside the loop
  more,      \* the wake loop's head->next # NULL
  pc,        \* the library call a thread is suspended in, or "client"
  obj,       \* that call's argument
  holding,   \* history: the mutexes a thread locked and did not unlock
  clock      \* get_usecs()

scheduler == <<current_thread, queue, phase, head, more>>
vars == <<current_thread, queue, dead, waiter, timing, locked, live, phase,
          head, more, pc, obj, holding, clock>>

Halted == phase \in {"segv", "skipped", "returned"}

(***************************************************************************)
(* Queues.                                                                 *)
(***************************************************************************)
Elements(s) == {s[i] : i \in DOMAIN s}
QueuedIn(qs, t) == \E q \in Queues : t \in Elements(qs[q])

\* No thread stands in two places of the queues.
Distinct(qs) ==
  \A p, q \in Queues : \A i \in DOMAIN qs[p], j \in DOMAIN qs[q] :
    qs[p][i] = qs[q][j] => p = q /\ i = j

\* Slip for the mutants: the newest thread goes to the front.
PushBack_Newest(qs, q, t) == [qs EXCEPT ![q] = <<t>> \o @]
PushBack(qs, q, t) == [qs EXCEPT ![q] = Append(@, t)]
PopFront(qs, q) == [qs EXCEPT ![q] = Tail(@)]

\* push_back(to, pop_front(from)), of two different queues.
MoveFront(qs, from, to) == PushBack(PopFront(qs, from), to, Head(qs[from]))

(***************************************************************************)
(* The scheduler, applied to the queues as its caller left them.           *)
(***************************************************************************)

\* With nothing to pop, pop_front returns NULL and current_thread->dead is a
\* wild read.  A popped thread whose dead word is 1 is made current_thread but
\* never switched to: "skipped", and the model follows the process no further.
switch_runnable(qs) ==
  IF qs[runnable_queue] = <<>>
  THEN /\ current_thread' = NULL
       /\ phase' = "segv"
       /\ queue' = qs
  ELSE LET next == Head(qs[runnable_queue]) IN
       /\ current_thread' = next
       /\ phase' = IF next # current_thread /\ dead'[next] THEN "skipped" ELSE "user"
       /\ queue' = PopFront(qs, runnable_queue)

\* The head of wake_sleeping_threads, up to its loop.
enter_wake_loop(qs) ==
  /\ head' = Head(qs[sleeping_set])
  /\ more' = (Tail(qs[sleeping_set]) # <<>>)
  /\ queue' = PopFront(qs, sleeping_set)
  /\ phase' = "waking"
  /\ UNCHANGED current_thread

\* Slips: an exiting thread stays runnable; a waiting one does.
requeue_Exiting(exit, qs) ==
  CASE exit \in {"yield", "exit"} -> PushBack(qs, runnable_queue, current_thread)
    [] exit = "sleep" -> PushBack(qs, sleeping_set, current_thread)
    [] OTHER -> qs
requeue_Waiting(exit, qs) ==
  CASE exit \in {"yield", "wait"} -> PushBack(qs, runnable_queue, current_thread)
    [] exit = "sleep" -> PushBack(qs, sleeping_set, current_thread)
    [] OTHER -> qs

\* Where schedule(exit) puts the thread that called it.
requeue(exit, qs) ==
  CASE exit = "yield" -> PushBack(qs, runnable_queue, current_thread)
    [] exit = "sleep" -> PushBack(qs, sleeping_set, current_thread)
    [] OTHER -> qs

\* Slip: sleepers are woken by an exiting thread only.
schedule_ExitWakes(exit, qs) ==
  LET requeued == requeue(exit, qs) IN
  IF exit = "exit" /\ requeued[runnable_queue] = <<>> /\ requeued[sleeping_set] # <<>>
  THEN enter_wake_loop(requeued)
  ELSE switch_runnable(requeued) /\ UNCHANGED <<head, more>>

\* schedule(exit).  The extra wake-up of exit mode (lines 170-174) finds the
\* same queues as the one every mode makes, and replaces it.
schedule(exit, qs) ==
  LET requeued == requeue(exit, qs) IN
  IF requeued[runnable_queue] = <<>> /\ requeued[sleeping_set] # <<>>
  THEN enter_wake_loop(requeued)
  ELSE switch_runnable(requeued) /\ UNCHANGED <<head, more>>

(***************************************************************************)
(* The threads.                                                            *)
(***************************************************************************)
InClient == phase = "user" /\ pc[current_thread] = "client"
ResumedIn(call) == phase = "user" /\ pc[current_thread] = call

\* current_thread is suspended in call(x) once schedule() switches away.
Suspend(call, x) ==
  /\ pc' = [pc EXCEPT ![current_thread] = call]
  /\ obj' = [obj EXCEPT ![current_thread] = x]
Return == Suspend("client", NULL)

\* qthread_init.  The main thread's structure is used as malloc returned it;
\* so is every other one until qthread_create writes its fields.
Init ==
  /\ current_thread = Main
  /\ queue = [q \in Queues |-> <<>>]
  /\ dead \in [Threads -> BOOLEAN]
  /\ waiter \in [Threads -> {NULL, Wild}]
  /\ ~DirtyHeap => ~dead[Main] /\ waiter[Main] = NULL
  /\ timing = [t \in Threads |-> 0]
  /\ locked \in [Mutexes -> BOOLEAN]
  /\ live = {Main}
  /\ phase = "user"
  /\ head = NULL /\ more = FALSE
  /\ pc = [t \in Threads |-> "client"]
  /\ obj = [t \in Threads |-> NULL]
  /\ holding = [t \in Threads |-> {}]
  /\ clock = 0

qthread_create(u) ==
  /\ InClient
  /\ u \notin live
  /\ live' = live \cup {u}
  /\ dead' = [dead EXCEPT ![u] = FALSE]
  /\ waiter' = [waiter EXCEPT ![u] = NULL]
  /\ queue' = PushBack(queue, runnable_queue, u)
  /\ UNCHANGED <<current_thread, timing, locked, phase, head, more, pc, obj,
                 holding, clock>>

qthread_yield ==
  /\ InClient
  /\ UNCHANGED <<dead, waiter, timing, locked, live, pc, obj, holding, clock>>
  /\ schedule("yield", queue)

\* Called by the thread, or by create_thread_wrapper when its function
\* returns.  push_back writes through the waiter it finds.
qthread_exit ==
  /\ InClient
  /\ dead' = [dead EXCEPT ![current_thread] = TRUE]
  /\ Suspend("exited", NULL)
  /\ UNCHANGED <<waiter, timing, locked, live, holding, clock>>
  /\ LET w == waiter[current_thread] IN
     IF w = Wild
     THEN phase' = "segv" /\ UNCHANGED <<current_thread, queue, head, more>>
     ELSE schedule("exit", IF w = NULL THEN queue ELSE PushBack(queue, runnable_queue, w))

\* The loop of qthread_join, from its test on.
join_loop(u) ==
  IF dead[u] THEN Return /\ UNCHANGED scheduler
             ELSE Suspend("join", u) /\ schedule("wait", queue)

\* Slip: the joiner does not leave its address.
qthread_join_Anonymous(u) ==
  /\ InClient
  /\ u \in live \ {Main}
  /\ dead[u] \/ waiter[u] = NULL
  /\ UNCHANGED <<dead, waiter, timing, locked, live, holding, clock>>
  /\ join_loop(u)

\* No handle of the main thread is ever given out.
qthread_join(u) ==
  /\ InClient
  /\ u \in live \ {Main}
  /\ dead[u] \/ waiter[u] = NULL
  /\ waiter' = [waiter EXCEPT ![u] = current_thread]
  /\ UNCHANGED <<dead, timing, locked, live, holding, clock>>
  /\ join_loop(u)

ResumeJoin ==
  /\ ResumedIn("join")
  /\ UNCHANGED <<dead, waiter, timing, locked, live, holding, clock>>
  /\ join_loop(obj[current_thread])

qthread_usleep(usecs) ==
  /\ InClient
  /\ clock + usecs <= MaxClock
  /\ timing' = [timing EXCEPT ![current_thread] = clock + usecs]
  /\ Suspend("sleep", NULL)
  /\ UNCHANGED <<dead, waiter, locked, live, holding, clock>>
  /\ schedule("sleep", queue)

ResumeSleep ==
  /\ ResumedIn("sleep")
  /\ Return
  /\ UNCHANGED <<scheduler, dead, waiter, timing, locked, live, holding, clock>>

(***************************************************************************)
(* The wake loop: it runs on the stack of the thread that gave up the      *)
(* processor, whose qthread structure stays current_thread.                *)
(***************************************************************************)

\* One turn of the loop: the head is not due and has a successor.  push_back
\* clears the old head's next after the new head is popped, so the new head
\* has a successor only if one was behind it before the old head came back.
WakeRotate ==
  /\ phase = "waking"
  /\ timing[head] > clock
  /\ more
  /\ LET rest == Tail(queue[sleeping_set]) IN
     /\ head' = Head(queue[sleeping_set])
     /\ more' = (rest # <<>>)
     /\ queue' = [queue EXCEPT ![sleeping_set] = Append(rest, head)]
  /\ UNCHANGED <<current_thread, dead, waiter, timing, locked, live, phase, pc,
                 obj, holding, clock>>

\* Slips: the loop leaves a stale head; it gives up on the last sleeper.
WakeDone_StaleHead ==
  /\ phase = "waking"
  /\ timing[head] <= clock
  /\ UNCHANGED <<head, more, dead, waiter, timing, locked, live, pc, obj, holding, clock>>
  /\ switch_runnable(PushBack(queue, runnable_queue, head))
WakeDone_LastSleeper ==
  /\ phase = "waking"
  /\ timing[head] <= clock \/ ~more
  /\ head' = NULL /\ more' = FALSE
  /\ UNCHANGED <<dead, waiter, timing, locked, live, pc, obj, holding, clock>>
  /\ switch_runnable(PushBack(queue, runnable_queue, head))

WakeDone ==
  /\ phase = "waking"
  /\ timing[head] <= clock
  /\ head' = NULL /\ more' = FALSE
  /\ UNCHANGED <<dead, waiter, timing, locked, live, pc, obj, holding, clock>>
  /\ switch_runnable(PushBack(queue, runnable_queue, head))

(***************************************************************************)
(* Mutexes.  unlock with a queue hands the mutex over: locked stays 1 and  *)
(* the thread at the front returns from lock as its owner.                 *)
(***************************************************************************)
qthread_mutex_create(m) ==
  /\ InClient
  /\ m \notin live
  /\ live' = live \cup {m}
  /\ locked' = [locked EXCEPT ![m] = FALSE]
  /\ queue' = [queue EXCEPT ![m] = <<>>]
  /\ UNCHANGED <<current_thread, dead, waiter, timing, phase, head, more, pc,
                 obj, holding, clock>>

\* By contract nobody holds m, waits for it, or will take it again in cond_wait.
qthread_mutex_destroy(m) ==
  /\ InClient
  /\ m \in live
  /\ queue[m] = <<>> /\ \A t \in Threads : m \notin holding[t] /\ obj[t] # m
  /\ live' = live \ {m}
  /\ UNCHANGED <<scheduler, dead, waiter, timing, locked, pc, obj, holding, clock>>

\* The body of qthread_mutex_lock, as called by a client and by cond_wait.
acquire(m) ==
  IF ~locked[m]
  THEN /\ locked' = [locked EXCEPT ![m] = TRUE]
       /\ holding' = [holding EXCEPT ![current_thread] = @ \cup {m}]
       /\ Return
       /\ UNCHANGED scheduler
  ELSE /\ UNCHANGED <<locked, holding>>
       /\ Suspend("lock", m)
       /\ schedule("wait", PushBack(queue, m, current_thread))

qthread_mutex_lock(m) ==
  /\ InClient
  /\ m \in live
  /\ UNCHANGED <<dead, waiter, timing, live, clock>>
  /\ acquire(m)

ResumeLock ==
  /\ ResumedIn("lock")
  /\ holding' = [holding EXCEPT ![current_thread] = @ \cup {obj[current_thread]}]
  /\ Return
  /\ UNCHANGED <<scheduler, dead, waiter, timing, locked, live, clock>>

\* Slips: the waiter is popped and forgotten; the newest waiter is served; the
\* lock word is cleared although a waiter was woken as the owner.
release_queue_Drops(m) == IF queue[m] # <<>> THEN PopFront(queue, m) ELSE queue
release_queue_Newest(m) ==
  LET n == Len(queue[m]) IN
  IF n = 0 THEN queue
  ELSE PushBack([queue EXCEPT ![m] = SubSeq(@, 1, n - 1)], runnable_queue, queue[m][n])
release_word_Clears(m) == [locked EXCEPT ![m] = FALSE]

\* The two things qthread_mutex_unlock changes: the queues and the lock word.
release_queue(m) ==
  IF queue[m] # <<>> THEN MoveFront(queue, m, runnable_queue) ELSE queue
release_word(m) ==
  IF queue[m] # <<>> THEN locked ELSE [locked EXCEPT ![m] = FALSE]

qthread_mutex_unlock(m) ==
  /\ InClient
  /\ m \in holding[current_thread]
  /\ queue' = release_queue(m)
  /\ locked' = release_word(m)
  /\ holding' = [holding EXCEPT ![current_thread] = @ \ {m}]
  /\ UNCHANGED <<current_thread, dead, waiter, timing, live, phase, head, more,
                 pc, obj, clock>>

(***************************************************************************)
(* Condition variables.                                                    *)
(***************************************************************************)
qthread_cond_create(c) ==
  /\ InClient
  /\ c \notin live
  /\ live' = live \cup {c}
  /\ queue' = [queue EXCEPT ![c] = <<>>]
  /\ UNCHANGED <<current_thread, dead, waiter, timing, locked, phase, head, more,
                 pc, obj, holding, clock>>

qthread_cond_destroy(c) ==
  /\ InClient
  /\ c \in live
  /\ queue[c] = <<>>
  /\ live' = live \ {c}
  /\ UNCHANGED <<scheduler, dead, waiter, timing, locked, pc, obj, holding, clock>>

qthread_cond_wait(c, m) ==
  /\ InClient
  /\ c \in live /\ m \in holding[current_thread]
  /\ locked' = release_word(m)
  /\ holding' = [holding EXCEPT ![current_thread] = @ \ {m}]
  /\ Suspend("wait", m)
  /\ UNCHANGED <<dead, waiter, timing, live, clock>>
  /\ schedule("wait", PushBack(release_queue(m), c, current_thread))

ResumeWait ==
  /\ ResumedIn("wait")
  /\ UNCHANGED <<dead, waiter, timing, live, clock>>
  /\ acquire(obj[current_thread])

qthread_cond_signal(c) ==
  /\ InClient
  /\ c \in live
  /\ queue[c] # <<>>
  /\ queue' = MoveFront(queue, c, runnable_queue)
  /\ UNCHANGED <<current_thread, dead, waiter, timing, locked, live, phase, head,
                 more, pc, obj, holding, clock>>

qthread_cond_broadcast(c) ==
  /\ InClient
  /\ c \in live
  /\ queue' = [queue EXCEPT ![runnable_queue] = @ \o queue[c], ![c] = <<>>]
  /\ UNCHANGED <<current_thread, dead, waiter, timing, locked, live, phase, head,
                 more, pc, obj, holding, clock>>

(***************************************************************************)
(* The environment: time passes, and the process ends when main returns.   *)
(***************************************************************************)
Tick ==
  /\ ~Halted
  /\ clock < MaxClock
  /\ clock' = clock + 1
  /\ UNCHANGED <<scheduler, dead, waiter, timing, locked, live, pc, obj, holding>>

MainReturns ==
  /\ InClient
  /\ current_thread = Main
  /\ phase' = "returned"
  /\ UNCHANGED <<current_thread, queue, dead, waiter, timing, locked, live, head,
                 more, pc, obj, holding, clock>>

Terminated == Halted /\ UNCHANGED vars

ThreadStep ==
  \/ \E u \in Threads : qthread_create(u) \/ qthread_join(u)
  \/ qthread_yield
  \/ qthread_exit
  \/ \E usecs \in Delays : qthread_usleep(usecs)
  \/ MainReturns

SyncStep ==
  \/ \E m \in Mutexes : \/ qthread_mutex_create(m)
                        \/ qthread_mutex_destroy(m)
                        \/ qthread_mutex_lock(m)
                        \/ qthread_mutex_unlock(m)
  \/ \E c \in Conds : \/ qthread_cond_create(c)
                      \/ qthread_cond_destroy(c)
                      \/ qthread_cond_signal(c)
                      \/ qthread_cond_broadcast(c)
                      \/ \E m \in Mutexes : qthread_cond_wait(c, m)

ResumeStep == ResumeJoin \/ ResumeSleep \/ ResumeLock \/ ResumeWait
WakeStep == WakeRotate \/ WakeDone

Next == ThreadStep \/ SyncStep \/ ResumeStep \/ WakeStep \/ Tick \/ Terminated

Spec == Init /\ [][Next]_vars

\* Time passes, the library's own code runs on, and a thread does not keep
\* the processor for ever: the cooperation the library is built on.
Fairness ==
  /\ WF_vars(Tick)
  /\ WF_vars(ResumeStep)
  /\ WF_vars(WakeStep)
  /\ WF_vars(qthread_yield)

FairSpec == Spec /\ Fairness

(***************************************************************************)
(* Properties.                                                             *)
(***************************************************************************)

\* Calls a thread may be suspended in; "exited" it never returns from.
Calls == {"client", "join", "sleep", "lock", "wait", "exited"}

SchedulerTypeOK ==
  /\ current_thread \in Threads \cup {NULL}
  /\ queue \in [Queues -> Seq(Threads)]
  /\ phase \in {"user", "waking", "segv", "skipped", "returned"}
  /\ phase \in {"user", "waking"} => current_thread \in Threads
  /\ head \in Threads \cup {NULL}
  /\ phase = "waking" <=> head # NULL
  /\ more \in BOOLEAN
  /\ more => phase = "waking" /\ queue[sleeping_set] # <<>>

ThreadTypeOK ==
  /\ dead \in [Threads -> BOOLEAN]
  /\ waiter \in [Threads -> Threads \cup {NULL, Wild}]
  /\ timing \in [Threads -> Nat]
  /\ locked \in [Mutexes -> BOOLEAN]
  /\ live \subseteq Threads \cup Mutexes \cup Conds
  /\ pc \in [Threads -> Calls]
  /\ obj \in [Threads -> Threads \cup Mutexes \cup {NULL}]
  /\ \A t \in Threads : /\ pc[t] = "join" => obj[t] \in Threads
                        /\ pc[t] \in {"lock", "wait"} => obj[t] \in Mutexes
  /\ holding \in [Threads -> SUBSET Mutexes]
  /\ clock \in Nat

\* Type invariant: the range of every variable; a thread runs whenever the
\* process runs client code, the wake loop has a head and, where its next says
\* so, a sleeper behind it, and a suspended call has the argument it resumes with.
TypeOK == SchedulerTypeOK /\ ThreadTypeOK

\* A thread has one next pointer, so it may stand in one queue only, once, and
\* neither the running thread nor the wake loop's head may stand in any.
NoDoubleQueue ==
  /\ Distinct(queue)
  /\ phase = "user" => ~QueuedIn(queue, current_thread)
  /\ phase = "waking" => ~QueuedIn(queue, head)

\* The threads some queue, the processor or the wake loop has hold of.  While
\* the loop runs, current_thread is only a leftover.
Scheduled(t) ==
  \/ QueuedIn(queue, t)
  \/ t = head
  \/ phase # "waking" /\ t = current_thread

\* A thread that joins one that is still alive, which will find it at its exit.
AwaitsExit(t) ==
  /\ pc[t] = "join"
  /\ ~dead[obj[t]]
  /\ waiter[obj[t]] = t

\* No thread is dropped: one that was created and has not exited is running,
\* is in a queue or in the hands of the wake loop, or will be queued by the
\* exit of the thread it joins.
NoThreadLost ==
  \A t \in live \cap Threads : dead[t] \/ Scheduled(t) \/ AwaitsExit(t)

\* The test of thread->dead in switch_runnable never fails: a thread taken from
\* the runnable queue is switched to.
NeverSkipped == phase # "skipped"

\* The threads that own m: it was locked by them, or handed to them by an
\* unlock and they did not run since.
Owners(m) ==
  {t \in Threads : \/ m \in holding[t]
                   \/ pc[t] = "lock" /\ obj[t] = m /\ t \notin Elements(queue[m])}

\* Mutual exclusion with no orphaned mutex: the lock word is 1 exactly while
\* one thread owns the mutex, and only then does anybody wait for it.
LockWordCountsOwners ==
  \A m \in Mutexes \cap live :
    IF locked[m] THEN \E t \in Threads : Owners(m) = {t}
                 ELSE Owners(m) = {} /\ queue[m] = <<>>

\* The mutexes, with the unlock and the second lock inside cond_wait, are fair
\* locks: one owner at a time, and an unlock serves the requests in their order,
\* whoever asks for the mutex before the thread it was handed to runs.
Lock == INSTANCE FairLock WITH
  owner   <- [m \in Mutexes |-> IF Owners(m) = {} THEN NULL ELSE CHOOSE t \in Owners(m) : TRUE],
  waiting <- [m \in Mutexes |-> queue[m]]
MutexesAreFair == Lock!Spec

\* pop_front finds the runnable queue empty, which crashes the process, only
\* when no thread could run ever again: none is runnable, none sleeps, and all
\* that are left wait for each other.
CrashOnlyWhenStuck ==
  phase = "segv" =>
    /\ queue[runnable_queue] = <<>> /\ queue[sleeping_set] = <<>>
    /\ \A t \in live \cap Threads :
         \/ dead[t]
         \/ AwaitsExit(t)
         \/ \E q \in Mutexes \cup Conds : t \in Elements(queue[q])

\* A thread that qthread_usleep suspended is runnable again only after its time.
NoEarlyWake ==
  \A t \in Threads :
    (pc[t] = "sleep" /\ timing[t] > clock) =>
      /\ t \notin Elements(queue[runnable_queue])
      /\ phase = "user" => t # current_thread

\* A thread in the runnable queue gets the processor, unless the process ends.
RunnableRuns ==
  \A t \in Threads :
    t \in Elements(queue[runnable_queue]) ~> (t = current_thread \/ Halted)

\* A joiner whose target exits gets to return.
JoinReturns ==
  \A t \in Threads :
    (pc[t] = "join" /\ dead[obj[t]]) ~> (pc[t] # "join" \/ Halted)

\* Sleepers are served when the processor is idle, and then fairly: if the
\* runnable queue keeps running dry, every sleeper wakes.
SleeperWakesWhenIdle ==
  \A t \in Threads :
    []<>(phase = "waking") => (pc[t] = "sleep" ~> (pc[t] # "sleep" \/ Halted))

\* qthread_manager.c:222 promises that a sleeper is put back on the active list
\* after its timeout.  It is not while other threads stay runnable.
SleeperWakes ==
  \A t \in Threads : pc[t] = "sleep" ~> (pc[t] # "sleep" \/ Halted)

\* The same promise while every thread sleeps: a wake loop whose head is not
\* due can move on to the sleeper that is.  With two sleepers it cannot.
ScanReachesDue ==
  phase = "waking" /\ timing[head] > clock
    /\ (\E t \in Elements(queue[sleeping_set]) : timing[t] <= clock)
  => more

==============================================================================
