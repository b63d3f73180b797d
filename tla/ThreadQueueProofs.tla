-------------------------- MODULE ThreadQueueProofs --------------------------
(***************************************************************************)
(* The linked queues are first-in first-out queues, for any number of      *)
(* threads and queues, whatever malloc left in the structures.             *)
(***************************************************************************)
EXTENDS ThreadQueue, SequenceTheorems, TLAPS

\* Nobody is in two places: without it, a write to one queue's last next would
\* break another queue.
Distinct ==
  \A p, q \in Queues : \A i \in DOMAIN queue[p], j \in DOMAIN queue[q] :
    queue[p][i] = queue[q][j] => p = q /\ i = j

\* A queue nobody created is empty.
ListInv ==
  /\ TypeOK
  /\ Distinct
  /\ LinksSpellQueue
  /\ \A q \in Queues \ live : queue[q] = <<>>

LEMMA InitList == Init => ListInv
BY PointersDiffer DEF Init, ListInv, TypeOK, Distinct, LinksSpellQueue, Chained, Queues, Pointers

LEMMA CreateList ==
  ASSUME ListInv, NEW q \in Queues, create(q)
  PROVE  ListInv'
<1> USE DEF ListInv
<1>1. TypeOK'
  BY DEF create, TypeOK
<1>2. Distinct' /\ \A p \in Queues \ live' : queue'[p] = <<>>
  BY DEF create, Distinct
<1>3. ASSUME NEW p \in live' PROVE Chained(p)'
  <2>1. CASE p = q
    BY <2>1 DEF create, Chained, TypeOK
  <2>2. CASE p # q
    <3>1. p \in live /\ size'[p] = size[p] /\ UNCHANGED <<front, end, next, queue>>
      BY <1>3, <2>2 DEF create, TypeOK
    <3> QED BY <3>1 DEF Chained, LinksSpellQueue
  <2> QED BY <2>1, <2>2
<1> QED BY <1>1, <1>2, <1>3 DEF LinksSpellQueue

LEMMA PopEmptyList ==
  ASSUME ListInv, NEW q \in Queues, pop_empty(q)
  PROVE  ListInv'
BY DEF pop_empty, ListInv, TypeOK, Distinct, LinksSpellQueue, Chained

\* What a pop takes is the front of a queue that is not empty.
LEMMA PopFacts ==
  ASSUME ListInv, NEW q \in Queues, pop_front(q)
  PROVE  /\ q \in live /\ queue[q] \in Seq(Threads) /\ queue[q] # <<>>
         /\ size[q] = Len(queue[q]) /\ size[q] \in Nat /\ size[q] # 0
         /\ popped' = Head(queue[q]) /\ popped' \in Threads
         /\ next[popped'] = IF size[q] = 1 THEN NULL ELSE queue[q][2]
         /\ front'[q] = next[popped']
         /\ size'[q] = size[q] - 1
         /\ queue'[q] = Tail(queue[q])
<1>1. /\ q \in live /\ queue[q] \in Seq(Threads) /\ size[q] = Len(queue[q])
      /\ size[q] \in Nat /\ size[q] # 0 /\ Chained(q)
  BY DEF pop_front, ListInv, TypeOK, LinksSpellQueue, Chained
<1>2. queue[q] # <<>> /\ Head(queue[q]) = queue[q][1] /\ queue[q][1] \in Threads
  BY <1>1
<1>3. popped' = Head(queue[q]) /\ front'[q] = next[popped']
  BY <1>1, <1>2 DEF pop_front, Chained, ListInv, TypeOK
<1>4. next[popped'] = IF size[q] = 1 THEN NULL ELSE queue[q][2]
  <2>1. CASE size[q] = 1
    BY <1>1, <1>2, <1>3, <2>1 DEF Chained
  <2>2. CASE size[q] # 1
    <3>1. size[q] \in Nat /\ size[q] # 0
      BY <1>1
    <3>2. 1 \in 1 .. size[q] - 1
      BY <2>2, <3>1
    <3>3. \A i \in 1 .. size[q] - 1 : next[queue[q][i]] = queue[q][i + 1]
      BY <1>1 DEF Chained
    <3>4. next[queue[q][1]] = queue[q][1 + 1]
      BY <3>2, <3>3
    <3> QED BY <1>2, <1>3, <2>2, <3>4
  <2> QED BY <2>1, <2>2
<1>5. size'[q] = size[q] - 1 /\ queue'[q] = Tail(queue[q])
  BY DEF pop_front, ListInv, TypeOK
<1> QED BY <1>1, <1>2, <1>3, <1>4, <1>5

LEMMA PopList ==
  ASSUME ListInv, NEW q \in Queues, pop_front(q)
  PROVE  ListInv'
<1> DEFINE s == queue[q]
<1>1. /\ UNCHANGED <<next, live>>
      /\ \A p \in Queues \ {q} : /\ front'[p] = front[p] /\ end'[p] = end[p]
                                 /\ size'[p] = size[p] /\ queue'[p] = queue[p]
      /\ end'[q] = IF size[q] = 1 THEN NULL ELSE end[q]
  BY DEF pop_front, ListInv, TypeOK
<1>2. /\ s \in Seq(Threads) /\ s # <<>> /\ queue'[q] = Tail(s) /\ Tail(s) \in Seq(Threads)
      /\ Len(Tail(s)) = Len(s) - 1
      /\ \A i \in 1 .. Len(s) - 1 : Tail(s)[i] = s[i + 1]
  BY PopFacts
<1>3. TypeOK'
  <2>1. next[popped'] \in Pointers /\ NULL \in Pointers
    BY PopFacts DEF ListInv, TypeOK, Pointers
  <2>2. front' \in [Queues -> Pointers] /\ end' \in [Queues -> Pointers]
    BY <2>1, PopFacts DEF pop_front, ListInv, TypeOK
  <2>3. size' \in [Queues -> Nat]
    BY PopFacts DEF pop_front, ListInv, TypeOK
  <2>4. queue' \in [Queues -> Seq(Threads)]
    BY <1>2 DEF pop_front, ListInv, TypeOK
  <2> QED BY <1>1, <2>2, <2>3, <2>4, PopFacts DEF ListInv, TypeOK
<1>4. Distinct'
  <2> SUFFICES ASSUME NEW p \in Queues, NEW r \in Queues,
                      NEW i \in DOMAIN queue'[p], NEW j \in DOMAIN queue'[r],
                      queue'[p][i] = queue'[r][j]
               PROVE  p = r /\ i = j
    BY DEF Distinct
  <2> DEFINE Shift(x) == IF x = q THEN 1 ELSE 0
  <2>1. \A x \in Queues : \A k \in DOMAIN queue'[x] :
          k \in Nat /\ k + Shift(x) \in DOMAIN queue[x] /\ queue'[x][k] = queue[x][k + Shift(x)]
    <3> SUFFICES ASSUME NEW x \in Queues, NEW k \in DOMAIN queue'[x]
                 PROVE  k \in Nat /\ k + Shift(x) \in DOMAIN queue[x]
                        /\ queue'[x][k] = queue[x][k + Shift(x)]
      OBVIOUS
    <3>1. CASE x = q
      <4>1. queue'[x] = Tail(s) /\ Len(Tail(s)) = Len(s) - 1 /\ Len(s) \in Nat
        BY <1>2, <3>1
      <4>2. queue[x] = s /\ Shift(x) = 1
        BY <3>1
      <4> HIDE DEF s, Shift
      <4>3. k \in 1 .. Len(s) - 1 /\ k \in Nat /\ k + 1 \in 1 .. Len(s)
        <5>1. DOMAIN Tail(s) = 1 .. Len(s) - 1
          BY <1>2, <4>1
        <5> QED BY <4>1, <5>1
      <4>4. queue'[x][k] = s[k + 1]
        BY <1>2, <3>1, <4>3
      <4>5. k + 1 \in DOMAIN s
        BY <1>2, <4>3
      <4> QED BY <4>2, <4>3, <4>4, <4>5
    <3>2. CASE x # q
      <4>1. queue'[x] = queue[x] /\ queue[x] \in Seq(Threads)
        BY <1>1, <3>2 DEF ListInv, TypeOK
      <4> QED BY <3>2, <4>1
    <3> QED BY <3>1, <3>2
  <2>2. p = r /\ i + Shift(p) = j + Shift(r)
    BY <2>1 DEF ListInv, Distinct
  <2> QED BY <2>1, <2>2
<1>5. ASSUME NEW p \in live' PROVE Chained(p)'
  <2>1. CASE p = q
    <3>1. size'[q] = Len(Tail(s))
      BY <1>2, PopFacts
    <3>2. Chained(q)
      BY PopFacts DEF ListInv, LinksSpellQueue
    <3>3. \A i \in 1 .. Len(Tail(s)) - 1 : next'[Tail(s)[i]] = Tail(s)[i + 1]
      BY <1>1, <1>2, <3>2 DEF Chained
    <3>4. Tail(s) # <<>> => /\ front'[q] = Tail(s)[1] /\ end'[q] = Tail(s)[Len(Tail(s))]
                            /\ next'[Tail(s)[Len(Tail(s))]] = NULL
      BY <1>1, <1>2, <3>2, PopFacts DEF Chained
    <3> QED BY <1>2, <2>1, <3>1, <3>3, <3>4 DEF Chained
  <2>2. CASE p # q
    <3>1. p \in live /\ p \in Queues /\ Chained(p)
      BY <1>1, <1>5 DEF ListInv, LinksSpellQueue, TypeOK
    <3> QED BY <1>1, <2>2, <3>1 DEF Chained
  <2> QED BY <2>1, <2>2
<1>6. \A p \in Queues \ live' : queue'[p] = <<>>
  BY <1>1, PopFacts DEF ListInv
<1> QED BY <1>3, <1>4, <1>5, <1>6 DEF ListInv, LinksSpellQueue

LEMMA PushList ==
  ASSUME ListInv, NEW q \in Queues, NEW t \in Threads, push_back(q, t)
  PROVE  ListInv'
<1> DEFINE s == queue[q]
<1>1. /\ q \in live /\ live' = live /\ popped' = popped
      /\ \A p \in Queues : \A i \in DOMAIN queue[p] : queue[p][i] # t
  BY DEF push_back, Elements
<1>2. /\ s \in Seq(Threads) /\ queue'[q] = Append(s, t) /\ Append(s, t) \in Seq(Threads)
      /\ size[q] = Len(s) /\ Chained(q) /\ Len(s) \in Nat
  BY <1>1 DEF push_back, ListInv, TypeOK, LinksSpellQueue, Chained
<1>3. \A p \in Queues \ {q} : /\ front'[p] = front[p] /\ end'[p] = end[p]
                               /\ size'[p] = size[p] /\ queue'[p] = queue[p]
  BY DEF push_back, ListInv, TypeOK
\* Only the new last thread's next and the old last thread's are written.
<1>4. size[q] # 0 => end[q] = s[Len(s)] /\ end[q] \in Threads /\ end[q] # t
  BY <1>1, <1>2 DEF Chained
<1>5. /\ next'[t] = NULL
      /\ size[q] # 0 => next'[end[q]] = t
      /\ \A u \in Threads \ {t} : size[q] = 0 \/ u # end[q] => next'[u] = next[u]
  BY <1>4 DEF push_back, ListInv, TypeOK
<1>6. /\ front'[q] = IF size[q] = 0 THEN t ELSE front[q]
      /\ end'[q] = t
      /\ size'[q] = Len(s) + 1
  BY <1>1, <1>2 DEF push_back, ListInv, TypeOK
<1>7. TypeOK'
  <2>1. front' \in [Queues -> Pointers] /\ end' \in [Queues -> Pointers]
    BY DEF push_back, ListInv, TypeOK, Pointers
  <2>2. next' \in [Threads -> Pointers]
    BY DEF push_back, ListInv, TypeOK, Pointers
  <2>3. size' \in [Queues -> Nat] /\ queue' \in [Queues -> Seq(Threads)]
    BY <1>2 DEF push_back, ListInv, TypeOK
  <2> QED BY <1>1, <2>1, <2>2, <2>3 DEF ListInv, TypeOK
<1>8. Distinct'
  <2>1. \A x \in Queues : \A k \in DOMAIN queue'[x] :
          \/ k \in DOMAIN queue[x] /\ queue'[x][k] = queue[x][k]
          \/ x = q /\ k = Len(s) + 1 /\ queue'[x][k] = t
    <3> SUFFICES ASSUME NEW x \in Queues, NEW k \in DOMAIN queue'[x]
                 PROVE  \/ k \in DOMAIN queue[x] /\ queue'[x][k] = queue[x][k]
                        \/ x = q /\ k = Len(s) + 1 /\ queue'[x][k] = t
      OBVIOUS
    <3>1. CASE x = q
      BY <1>2, <3>1
    <3>2. CASE x # q
      BY <1>3, <3>2
    <3> QED BY <3>1, <3>2
  <2> QED BY <1>1, <2>1 DEF ListInv, Distinct
<1>9. ASSUME NEW p \in live' PROVE Chained(p)'
  <2>1. CASE p = q
    <3> DEFINE new == Append(s, t)
    <3>1. /\ Len(new) = Len(s) + 1 /\ new[Len(new)] = t
          /\ \A i \in 1 .. Len(s) : new[i] = s[i] /\ s[i] \in Threads /\ s[i] # t
      BY <1>1, <1>2
    <3>2. front'[q] = new[1]
      BY <1>2, <1>6, <3>1 DEF Chained
    <3>3. ASSUME NEW i \in 1 .. Len(new) - 1 PROVE next'[new[i]] = new[i + 1]
      <4>1. i \in 1 .. Len(s)
        BY <1>2, <3>1
      <4>2. CASE i = Len(s)
        BY <1>2, <1>4, <1>5, <3>1, <4>1, <4>2
      <4>3. CASE i # Len(s)
        <5>1. i + 1 \in 1 .. Len(s) /\ i \in 1 .. Len(s) - 1 /\ Len(s) \in 1 .. Len(s)
          BY <1>2, <4>1, <4>3
        <5>2. s[i] # s[Len(s)]
          BY <1>2, <4>1, <4>3, <5>1 DEF ListInv, Distinct
        <5>3. next[s[i]] = s[i + 1]
          BY <1>2, <5>1 DEF Chained
        <5> QED BY <1>2, <1>4, <1>5, <3>1, <5>1, <5>2, <5>3
      <4> QED BY <4>2, <4>3
    <3> QED BY <1>2, <1>5, <1>6, <2>1, <3>1, <3>2, <3>3, ZenonT(40) DEF Chained
  <2>2. CASE p # q
    <3>1. p \in Queues /\ Chained(p) /\ queue[p] \in Seq(Threads)
      BY <1>1, <1>9 DEF ListInv, LinksSpellQueue, TypeOK
    <3>2. \A i \in 1 .. Len(queue[p]) : next'[queue[p][i]] = next[queue[p][i]]
      <4> SUFFICES ASSUME NEW i \in 1 .. Len(queue[p])
                   PROVE  next'[queue[p][i]] = next[queue[p][i]]
        OBVIOUS
      <4>1. queue[p][i] \in Threads /\ queue[p][i] # t
        BY <1>1, <3>1
      <4>2. size[q] # 0 => queue[p][i] # end[q]
        <5> SUFFICES ASSUME size[q] # 0 PROVE queue[p][i] # s[Len(s)]
          BY <1>4
        <5>1. Len(s) \in DOMAIN s /\ i \in DOMAIN queue[p]
          BY <1>2, <3>1
        <5> QED BY <2>2, <3>1, <5>1 DEF ListInv, Distinct
      <4> QED BY <1>5, <4>1, <4>2
    <3>3. queue'[p] = queue[p] /\ size'[p] = size[p] /\ front'[p] = front[p] /\ end'[p] = end[p]
      BY <1>3, <2>2, <3>1
    <3> QED BY <3>1, <3>2, <3>3 DEF Chained
  <2> QED BY <2>1, <2>2
<1>10. \A p \in Queues \ live' : queue'[p] = <<>>
  BY <1>1, <1>3 DEF ListInv
<1> QED BY <1>7, <1>8, <1>9, <1>10 DEF ListInv, LinksSpellQueue

LEMMA NextList == ListInv /\ [Next]_vars => ListInv'
<1> SUFFICES ASSUME ListInv, [Next]_vars PROVE ListInv'
  OBVIOUS
<1>1. CASE UNCHANGED vars
  BY <1>1 DEF vars, ListInv, TypeOK, Distinct, LinksSpellQueue, Chained
<1>2. ASSUME NEW q \in Queues, create(q) \/ pop_empty(q) \/ pop_front(q)
      PROVE  ListInv'
  BY <1>2, CreateList, PopEmptyList, PopList
<1>3. ASSUME NEW q \in Queues, NEW t \in Threads, push_back(q, t) PROVE ListInv'
  BY <1>3, PushList
<1> QED BY <1>1, <1>2, <1>3 DEF Next

LEMMA SpecList == Spec => []ListInv
BY InitList, NextList, PTL DEF Spec

\* Whatever the sequence of pushes and pops, no size is negative and a popped
\* pointer is a thread or NULL, never a wild one.
THEOREM PointersTyped == Spec => []TypeOK
<1>1. ListInv => TypeOK
  BY DEF ListInv
<1> QED BY <1>1, SpecList, PTL

\* Whatever malloc left in the structures, front, end, size and next always
\* spell out the threads pushed and not yet popped, in their order.
THEOREM LinksCorrect == Spec => []LinksSpellQueue
<1>1. ListInv => LinksSpellQueue
  BY DEF ListInv
<1> QED BY <1>1, SpecList, PTL

\* The popped thread's next tells whether the queue has more threads.
THEOREM NextIsReliable == Spec => NextTellsMore
<1>1. ASSUME ListInv, [Next]_vars, NEW q \in Queues, pop_front(q)
      PROVE  next'[popped'] # NULL <=> size'[q] # 0
  <2>1. next' = next
    BY <1>1 DEF pop_front
  <2>2. /\ next[popped'] = IF size[q] = 1 THEN NULL ELSE queue[q][2]
        /\ queue[q] \in Seq(Threads) /\ size[q] = Len(queue[q])
        /\ size[q] \in Nat /\ size[q] # 0 /\ size'[q] = size[q] - 1
    BY <1>1, PopFacts
  <2>3. CASE size[q] = 1
    BY <2>1, <2>2, <2>3
  <2>4. CASE size[q] # 1
    <3>1. size[q] \in Nat /\ size[q] # 0 /\ size'[q] = size[q] - 1
      BY <2>2
    <3>2. 2 \in 1 .. size[q] /\ size'[q] # 0
      BY <2>4, <3>1
    <3>3. \A i \in 1 .. size[q] : queue[q][i] \in Threads
      BY <2>2
    <3>4. queue[q][2] \in Threads
      BY <3>2, <3>3
    <3>5. next'[popped'] = queue[q][2]
      BY <2>1, <2>2, <2>4
    <3>6. next'[popped'] # NULL
      BY <3>4, <3>5, PointersDiffer
    <3> QED BY <3>2, <3>6
  <2> QED BY <2>3, <2>4
<1>2. ListInv /\ [Next]_vars =>
        [\A q \in Queues : pop_front(q) => (next'[popped'] # NULL <=> size'[q] # 0)]_vars
  BY <1>1
<1> QED BY <1>2, SpecList, PTL DEF Spec, NextTellsMore

\* The linked queues implement first-in first-out queues: pop_front returns the
\* thread that was pushed first, and NULL only when nobody is in the queue.
THEOREM QueuesAreFifo == Spec => IsFifo
<1>1. Init => Fifo!Init
  BY DEF Init, Fifo!Init
<1>2. ASSUME ListInv, [Next]_vars PROVE [Fifo!Next]_<<queue, popped>>
  <2>1. ASSUME NEW q \in Queues, create(q) PROVE UNCHANGED <<queue, popped>>
    BY <2>1 DEF create
  <2>2. ASSUME NEW q \in Queues, pop_empty(q) PROVE Fifo!Pop(q)
    <3>1. Len(queue[q]) = 0 /\ queue[q] \in Seq(Threads)
      BY <1>2, <2>2 DEF pop_empty, ListInv, LinksSpellQueue, Chained, TypeOK
    <3> QED BY <2>2, <3>1 DEF pop_empty, Fifo!Pop
  <2>3. ASSUME NEW q \in Queues, pop_front(q) PROVE Fifo!Pop(q)
    <3>1. queue[q] # <<>> /\ popped' = Head(queue[q])
      BY <1>2, <2>3, PopFacts
    <3> QED BY <2>3, <3>1 DEF pop_front, Fifo!Pop
  <2>4. ASSUME NEW q \in Queues, NEW t \in Threads, push_back(q, t) PROVE Fifo!Push(q, t)
    BY <2>4 DEF push_back, Fifo!Push, Elements, Fifo!Elements
  <2> QED BY <1>2, <2>1, <2>2, <2>3, <2>4 DEF Next, vars, Fifo!Next
<1> QED BY <1>1, <1>2, SpecList, PTL DEF Spec, IsFifo, Fifo!Spec

==============================================================================
