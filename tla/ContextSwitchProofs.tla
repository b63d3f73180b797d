------------------------- MODULE ContextSwitchProofs -------------------------
(***************************************************************************)
(* The stacks stay apart and the threads are coroutines, for any number of *)
(* threads, stacks of any size and calls of any depth they have room for.  *)
(***************************************************************************)
EXTENDS ContextSwitch, SequenceTheorems, TLAPS

(***************************************************************************)
(* The invariant.                                                          *)
(***************************************************************************)
RegNames == CalleeSaved \cup {"rdi", "rsi", "rsp", "rip"}
Codes == Funs \cup {MainCode}

\* A thread's stack pointer in its own code, wherever it is kept; below the
\* bottom of its calls every word is a place in such code to return to.
Sp(t) == IF t = current THEN reg.rsp ELSE saved[t] + 10
Bottom(t) == IF t = Main THEN Base(t) ELSE Base(t) - 1

\* The arguments of the wrapper, where it will find them.
Arguments(t) ==
  IF t = current THEN <<reg.rdi, reg.rsi>> ELSE <<mem[saved[t] + 6], mem[saved[t] + 7]>>

\* Main, or the wrapper of another thread, is at the bottom of the stack, and
\* above it are the calls of the thread's own code.  A thread is in the wrapper
\* before its function is called, with the arguments it was created for, and
\* after it has returned.
ThreadOK(t) ==
  /\ Sp(t) \in Base(t) - MaxCalls - 1 .. Base(t)
  /\ t # current => mem[saved[t]] = Flag
  /\ t # Main => \A i \in 1 .. GuardWords : mem[Top(t) - i] = Guard
  /\ IF Kept(t, "rip") \in Codes
     THEN /\ Sp(t) <= Bottom(t)
          /\ \A a \in Sp(t) .. Bottom(t) - 1 : mem[a] \in Codes
          /\ t # Main => mem[Bottom(t)] = Exiting
     ELSE /\ t # Main /\ Sp(t) = Base(t) /\ Kept(t, "rip") \in {Wrapper, Exiting}
          /\ Kept(t, "rip") = Wrapper => given[t] = Arguments(t) /\ given[t] \in Funs \X Args

ContextInv ==
  /\ ~crashed
  /\ reg = [r \in RegNames |-> reg[r]] /\ reg.rsp \in Int
  /\ saved = [t \in Threads |-> saved[t]] /\ given = [t \in Threads |-> given[t]]
  /\ created \subseteq Threads /\ Main \in created
  /\ exited \subseteq created /\ current \in created \ exited
  /\ \A t \in Suspended : saved[t] \in Int
  /\ \A t \in created : ThreadOK(t)

LEMMA TopIsEnd ==
  ASSUME NEW t \in Threads
  PROVE  /\ Top(t) = Low[t] + StackWords /\ Top(t) % 2 = 0
         /\ Low[t] \in Nat /\ Top(t) \in Nat /\ StackWords \in Nat /\ MaxCalls \in Nat
         /\ Base(t) \in {Top(t), Top(t) - 3} /\ (t # Main => Base(t) = Top(t) - 3)
         /\ Base(t) - MaxCalls - 11 >= Low[t]
<1>1. /\ Low[t] \in Nat /\ StackWords \in Nat /\ MaxCalls \in Nat
      /\ Low[t] % 2 = 0 /\ StackWords % 2 = 0 /\ StackWords >= MaxCalls + 14
  BY StacksOK DEF GuardWords
<1>2. (Low[t] + StackWords) % 2 = 0
  BY <1>1
<1>3. Top(t) = Low[t] + StackWords
  BY <1>1, <1>2 DEF Top
<1> QED BY <1>1, <1>2, <1>3 DEF Base, GuardWords

\* Where the words of a thread lie, and that no two threads share one.
LEMMA Room ==
  ASSUME NEW t \in Threads
  PROVE  /\ Stack(t) = Low[t] .. Top(t) - 1 /\ Stack(t) \subseteq Memory
         /\ \A u \in Threads \ {t} : Stack(t) \cap Stack(u) = {}
         /\ \A a \in Base(t) - MaxCalls - 11 .. Top(t) - 1 : a \in Stack(t) /\ a \in Memory
<1>1. Stack(t) = Low[t] .. Top(t) - 1 /\ Stack(t) \subseteq Memory
  BY TopIsEnd DEF Stack, Memory
<1>2. ASSUME NEW u \in Threads \ {t} PROVE Stack(t) \cap Stack(u) = {}
  <2>1. Low[t] + StackWords <= Low[u] \/ Low[u] + StackWords <= Low[t]
    BY StacksOK
  <2> QED BY <2>1, TopIsEnd DEF Stack
<1>3. ASSUME NEW a \in Base(t) - MaxCalls - 11 .. Top(t) - 1 PROVE a \in Stack(t) /\ a \in Memory
  <2>1. Base(t) \in Int /\ Top(t) \in Int /\ MaxCalls \in Nat /\ Low[t] \in Int
        /\ Base(t) - MaxCalls - 11 >= Low[t]
    BY TopIsEnd
  <2>2. a \in Low[t] .. Top(t) - 1
    BY <2>1
  <2> QED BY <1>1, <2>2
<1> QED BY <1>1, <1>2, <1>3

LEMMA PushedWords ==
  ASSUME NEW m, NEW sp, NEW s, NEW a \in Memory
  PROVE  Pushed(m, sp, s)[a] = IF a \in sp - Len(s) .. sp - 1 THEN s[sp - a] ELSE m[a]
BY DEF Pushed

LEMMA DroppedWords ==
  ASSUME NEW m, NEW sp, NEW n, NEW a \in Memory, a \notin sp .. sp + n - 1
  PROVE  Dropped(m, sp, n)[a] = m[a]
BY DEF Dropped

\* Where the pointers of a thread may be.
LEMMA Pointers ==
  ASSUME ContextInv, NEW t \in created
  PROVE  /\ t \in Threads /\ Sp(t) \in Int /\ Sp(t) >= Base(t) - MaxCalls - 1
         /\ Sp(t) <= Base(t) /\ Base(t) \in Int /\ Top(t) \in Int /\ MaxCalls \in Nat
         /\ t # current => saved[t] \in Int /\ Sp(t) = saved[t] + 10
         /\ t = current => Sp(t) = reg.rsp /\ reg.rsp \in Int
<1>1. t \in Threads /\ (t # current => saved[t] \in Int) /\ reg.rsp \in Int
  BY DEF ContextInv, Suspended
<1>2. Base(t) \in Int /\ Top(t) \in Int /\ MaxCalls \in Nat
  BY <1>1, TopIsEnd
<1>3. Sp(t) \in Base(t) - MaxCalls - 1 .. Base(t)
  BY DEF ContextInv, ThreadOK
<1> QED BY <1>1, <1>2, <1>3 DEF Sp

(***************************************************************************)
(* Threads a step leaves as they are.                                      *)
(***************************************************************************)
Same(t) ==
  /\ Sp(t)' = Sp(t)
  /\ \A r \in CalleeSaved \cup {"rip"} : Kept(t, r)' = Kept(t, r)
  /\ \A a \in Sp(t) .. Base(t) - 1 : mem'[a] = mem[a]

\* What is left to show of such a thread: its guard words, the flag of its
\* frame, and the arguments that wait for it.
LEMMA SameOK ==
  ASSUME ContextInv, NEW t \in created, Same(t), given'[t] = given[t],
         t # current' => mem'[saved'[t]] = Flag,
         \A a \in Base(t) .. Top(t) - 1 : mem'[a] = mem[a],
         Kept(t, "rip") = Wrapper => Arguments(t)' = Arguments(t)
  PROVE  ThreadOK(t)'
<1> DEFINE ip == Kept(t, "rip")
<1>1. ThreadOK(t)
  BY DEF ContextInv
<1>2. Kept(t, "rip")' = ip /\ Sp(t)' = Sp(t)
  BY DEF Same
<1>3. t # Main => \A i \in 1 .. GuardWords : mem'[Top(t) - i] = Guard
  <2> SUFFICES ASSUME t # Main, NEW i \in 1 .. GuardWords PROVE mem'[Top(t) - i] = Guard
    OBVIOUS
  <2>1. Top(t) - i \in Base(t) .. Top(t) - 1
    BY TopIsEnd, Pointers DEF GuardWords
  <2> QED BY <1>1, <2>1 DEF ThreadOK
<1>4. CASE ip \in Codes
  <2>1. Bottom(t) \in Int /\ Sp(t) \in Int /\ Base(t) \in Int
        /\ Bottom(t) <= Base(t) /\ Sp(t) <= Bottom(t) /\ (t # Main => Bottom(t) = Base(t) - 1)
    BY <1>1, <1>4, Pointers DEF ThreadOK, Bottom
  <2>2. \A a \in Sp(t) .. Bottom(t) - 1 : mem'[a] \in Codes
    BY <1>1, <1>4, <2>1 DEF ThreadOK, Same
  <2>3. t # Main => mem'[Bottom(t)] = Exiting
    BY <1>1, <1>4, <2>1 DEF ThreadOK, Same
  <2> QED BY <1>1, <1>2, <1>3, <1>4, <2>1, <2>2, <2>3 DEF ThreadOK
<1>5. CASE ip \notin Codes
  BY <1>1, <1>2, <1>3, <1>5 DEF ThreadOK
<1> QED BY <1>4, <1>5

\* A thread is left as it is by a step that leaves its stack alone.
LEMMA Untouched ==
  ASSUME ContextInv, NEW t \in created,
         \/ t # current /\ t # current'
         \/ t = current /\ t = current' /\ reg' = reg,
         saved'[t] = saved[t], given'[t] = given[t], \A a \in Stack(t) : mem'[a] = mem[a]
  PROVE  ThreadOK(t)' /\ Same(t)
<1>1. \A a \in Base(t) - MaxCalls - 11 .. Top(t) - 1 : mem'[a] = mem[a]
  BY Pointers, Room
<1>2. Base(t) <= Top(t) /\ Base(t) \in Int /\ Top(t) \in Int /\ MaxCalls \in Nat /\ Sp(t) \in Int
      /\ Sp(t) >= Base(t) - MaxCalls - 1 /\ Sp(t) <= Base(t)
  BY Pointers, TopIsEnd
<1>3. ASSUME t # current, NEW k \in 0 .. 9 PROVE mem'[saved[t] + k] = mem[saved[t] + k]
  <2>1. saved[t] + k \in Base(t) - MaxCalls - 11 .. Top(t) - 1
    BY <1>2, <1>3, Pointers
  <2> QED BY <1>1, <2>1
<1>4. Sp(t)' = Sp(t)
  BY DEF Sp
<1>5. ASSUME NEW r \in CalleeSaved \cup {"rip"} PROVE Kept(t, r)' = Kept(t, r)
  <2>1. Slot[r] \in 0 .. 9
    BY DEF Slot, CalleeSaved
  <2> QED BY <1>3, <2>1 DEF Kept
<1>6. \A a \in Sp(t) .. Base(t) - 1 : mem'[a] = mem[a]
  BY <1>1, <1>2
<1>7. \A a \in Base(t) .. Top(t) - 1 : mem'[a] = mem[a]
  BY <1>1, <1>2
<1>8. t # current' => mem'[saved'[t]] = Flag
  <2> SUFFICES ASSUME t # current' PROVE mem'[saved[t]] = Flag
    OBVIOUS
  <2>1. t # current => mem'[saved[t] + 0] = mem[saved[t] + 0] /\ saved[t] + 0 = saved[t]
    BY <1>3, Pointers
  <2>2. t # current
    OBVIOUS
  <2> QED BY <2>1, <2>2 DEF ContextInv, ThreadOK
<1>9. Arguments(t)' = Arguments(t)
  BY <1>3 DEF Arguments
<1>10. Same(t)
  BY <1>4, <1>5, <1>6 DEF Same
<1> QED BY <1>7, <1>8, <1>9, <1>10, SameOK

(***************************************************************************)
(* Steps of the thread that runs.                                          *)
(***************************************************************************)

\* What is pushed or popped on one stack is on no other.
LEMMA PushedElsewhere ==
  ASSUME NEW m, NEW sp, NEW s, NEW t \in Threads, NEW u \in Threads, t # u,
         sp - Len(s) .. sp - 1 \subseteq Stack(u)
  PROVE  \A a \in Stack(t) : Pushed(m, sp, s)[a] = m[a]
<1> SUFFICES ASSUME NEW a \in Stack(t) PROVE Pushed(m, sp, s)[a] = m[a]
  OBVIOUS
<1>1. a \in Memory /\ a \notin sp - Len(s) .. sp - 1
  BY Room
<1> QED BY <1>1, PushedWords

LEMMA DroppedElsewhere ==
  ASSUME NEW m, NEW sp, NEW n, NEW t \in Threads, NEW u \in Threads, t # u,
         sp .. sp + n - 1 \subseteq Stack(u)
  PROVE  \A a \in Stack(t) : Dropped(m, sp, n)[a] = m[a]
<1> SUFFICES ASSUME NEW a \in Stack(t) PROVE Dropped(m, sp, n)[a] = m[a]
  OBVIOUS
<1>1. a \in Memory /\ a \notin sp .. sp + n - 1
  BY Room
<1> QED BY <1>1, DroppedWords

\* It leaves the others as they are, and remains to be looked at itself.
LEMMA OwnStep ==
  ASSUME ContextInv, NEW c, c = current,
         UNCHANGED <<saved, current, created, exited, crashed, given>>,
         reg' = [r \in RegNames |-> reg'[r]], reg'.rsp \in Int,
         ThreadOK(c)',
         \A t \in created \ {c} : \A a \in Stack(t) : mem'[a] = mem[a]
  PROVE  ContextInv' /\ \A t \in created \ {c} : Same(t)
<1>1. ASSUME NEW t \in created \ {c} PROVE ThreadOK(t)' /\ Same(t)
  BY <1>1, Untouched
<1>2. \A t \in created' : ThreadOK(t)'
  BY <1>1
<1> QED BY <1>1, <1>2 DEF ContextInv, Suspended

\* What a thread has of its own.
Registers(t) == [r \in CalleeSaved |-> Kept(t, r)]
Place(t) == Kept(t, "rip")
WordsOf(m, from, to) == [i \in 1 .. to - from |-> m[from + i - 1]]
Calls(t) == WordsOf(mem, Sp(t), Base(t))

LEMMA SameView ==
  ASSUME ContextInv, NEW t \in created, Same(t)
  PROVE  Registers(t)' = Registers(t) /\ Calls(t)' = Calls(t) /\ Place(t)' = Place(t)
<1>1. Registers(t)' = Registers(t) /\ Place(t)' = Place(t)
  BY DEF Same, Registers, Place
<1>2. Sp(t) \in Int /\ Base(t) \in Int
  BY Pointers
<1>3. ASSUME NEW i \in 1 .. Base(t) - Sp(t) PROVE mem'[Sp(t) + i - 1] = mem[Sp(t) + i - 1]
  <2>1. Sp(t) + i - 1 \in Sp(t) .. Base(t) - 1
    BY <1>2
  <2> QED BY <2>1 DEF Same
<1> QED BY <1>1, <1>3 DEF Calls, WordsOf, Same

\* The words from one address to below another are the same, are of one kind.
Agree(m, n, from, to) == \A a \in from .. to - 1 : n[a] = m[a]
Within(m, from, to, S) == \A a \in from .. to - 1 : m[a] \in S

LEMMA WordsType ==
  ASSUME NEW m, NEW from \in Int, NEW to \in Int, from <= to, NEW S, Within(m, from, to, S)
  PROVE  /\ WordsOf(m, from, to) \in Seq(S) /\ Len(WordsOf(m, from, to)) = to - from
         /\ \A i \in 1 .. to - from : WordsOf(m, from, to)[i] = m[from + i - 1]
<1> DEFINE length == to - from
           w == WordsOf(m, from, to)
<1>1. length \in Nat /\ w = [i \in 1 .. length |-> w[i]]
  BY DEF WordsOf
<1>2. ASSUME NEW i \in 1 .. length PROVE w[i] = m[from + i - 1] /\ w[i] \in S
  <2>1. from + i - 1 \in from .. to - 1
    OBVIOUS
  <2> QED BY <2>1 DEF WordsOf, Within
<1> HIDE DEF length, w
<1>3. w \in Seq(S) /\ Len(w) = length
  BY <1>1, <1>2
<1> QED BY <1>2, <1>3 DEF length, w

\* One word more, and one less.
Longer(s, x, w) == s = <<x>> \o w

LEMMA MoreWords ==
  ASSUME NEW m, NEW n, NEW from \in Int, NEW below \in Int, NEW to \in Int,
         from = below + 1, from <= to, Agree(m, n, from, to)
  PROVE  Longer(WordsOf(n, below, to), n[below], WordsOf(m, from, to))
<1> DEFINE S == {n[a] : a \in below .. to - 1}
           s == WordsOf(n, below, to)
           w == WordsOf(m, from, to)
           x == n[below]
<1>1. to - from \in Nat /\ to - below = to - from + 1
  OBVIOUS
<1>2. s \in Seq(S) /\ Len(s) = to - below /\ \A i \in 1 .. to - below : s[i] = n[below + i - 1]
  <2>1. below <= to /\ Within(n, below, to, S)
    BY DEF Within
  <2> HIDE DEF S
  <2>2. /\ WordsOf(n, below, to) \in Seq(S) /\ Len(WordsOf(n, below, to)) = to - below
        /\ \A i \in 1 .. to - below : WordsOf(n, below, to)[i] = n[below + i - 1]
    BY <2>1, WordsType
  <2> QED BY <2>2
<1>3. \A i \in 1 .. to - from : w[i] = n[from + i - 1]
  <2> SUFFICES ASSUME NEW i \in 1 .. to - from PROVE w[i] = n[from + i - 1]
    OBVIOUS
  <2>1. from + i - 1 \in from .. to - 1
    OBVIOUS
  <2>2. w[i] = m[from + i - 1]
    BY DEF WordsOf
  <2> QED BY <2>1, <2>2 DEF Agree
<1>4. w \in Seq(S) /\ Len(w) = to - from
  <2>1. Within(m, from, to, S)
    BY DEF Agree, Within
  <2> HIDE DEF S
  <2> QED BY <2>1, WordsType
<1>5. <<x>> \in Seq(S) /\ Len(<<x>>) = 1 /\ <<x>>[1] = x
  <2>1. below \in below .. to - 1
    OBVIOUS
  <2> QED BY <2>1
<1>6. \A i \in 1 .. to - from + 1 : s[i] = IF i <= 1 THEN <<x>>[i] ELSE w[i - 1]
  <2> SUFFICES ASSUME NEW i \in 1 .. to - from + 1
               PROVE  s[i] = IF i <= 1 THEN <<x>>[i] ELSE w[i - 1]
    OBVIOUS
  <2>1. CASE i = 1
    <3>1. below + i - 1 = below
      BY <2>1
    <3> QED BY <1>1, <1>2, <2>1, <3>1
  <2>2. CASE i # 1
    <3>1. i - 1 \in 1 .. to - from /\ below + i - 1 = from + (i - 1) - 1
      BY <2>2
    <3> QED BY <1>1, <1>2, <1>3, <2>2, <3>1
  <2> QED BY <2>1, <2>2
<1> HIDE DEF S, s, w, x
<1>7. /\ <<x>> \o w \in Seq(S) /\ Len(<<x>> \o w) = 1 + (to - from)
      /\ \A i \in 1 .. 1 + (to - from) : (<<x>> \o w)[i] = IF i <= 1 THEN <<x>>[i] ELSE w[i - 1]
  BY <1>4, <1>5, ConcatProperties
<1>8. s = <<x>> \o w
  <2>1. 1 + (to - from) = to - from + 1 /\ Len(s) = Len(<<x>> \o w)
    BY <1>1, <1>2, <1>7
  <2> QED BY <1>2, <1>6, <1>7, <2>1, SeqEqual
<1> QED BY <1>8 DEF s, w, x, Longer

LEMMA FewerWords ==
  ASSUME NEW m, NEW n, NEW from \in Int, NEW next \in Int, NEW to \in Int,
         next = from + 1, from < to, Agree(m, n, next, to)
  PROVE  /\ WordsOf(m, from, to) # <<>> /\ Head(WordsOf(m, from, to)) = m[from]
         /\ WordsOf(n, next, to) = Tail(WordsOf(m, from, to))
<1> DEFINE w == WordsOf(n, next, to)
           x == m[from]
<1>1. next <= to
  OBVIOUS
<1>2. Longer(WordsOf(m, from, to), x, w)
  <2>1. Agree(n, m, next, to)
    BY DEF Agree
  <2> QED BY <1>1, <2>1, MoreWords
<1>3. w \in Seq({w[i] : i \in 1 .. to - next})
  <2> DEFINE length == to - next
  <2>1. length \in Nat /\ w = [i \in 1 .. length |-> w[i]]
    BY DEF WordsOf
  <2> HIDE DEF length, w
  <2>2. w \in Seq({w[i] : i \in 1 .. length})
    BY <2>1
  <2> QED BY <2>2 DEF length
<1> HIDE DEF w, x
<1>4. <<x>> \o w # <<>> /\ Head(<<x>> \o w) = x /\ Tail(<<x>> \o w) = w
  BY <1>3
<1> QED BY <1>2, <1>4 DEF w, x, Longer

\* The thread that runs: where its pointers are, and what is below its calls.
LEMMA Running ==
  ASSUME ContextInv, NEW c, c = current
  PROVE  /\ c \in created /\ c \in Threads /\ ThreadOK(c) /\ Sp(c) = reg.rsp
         /\ reg = [r \in RegNames |-> reg[r]] /\ reg.rsp \in Int
         /\ \A r \in RegNames : Kept(c, r) = reg[r]
         /\ Base(c) \in Int /\ Top(c) \in Int /\ MaxCalls \in Nat /\ Base(c) <= Top(c)
         /\ reg.rsp >= Base(c) - MaxCalls - 1 /\ reg.rsp <= Base(c)
         /\ Bottom(c) \in {Base(c), Base(c) - 1} /\ (c # Main => Bottom(c) = Base(c) - 1)
<1>1. c \in created /\ ThreadOK(c) /\ reg = [r \in RegNames |-> reg[r]] /\ reg.rsp \in Int
  BY DEF ContextInv
<1>2. c \in Threads /\ Sp(c) = reg.rsp /\ \A r \in RegNames : Kept(c, r) = reg[r]
  BY <1>1 DEF Kept, Sp, ContextInv
<1>3. /\ Base(c) \in Int /\ Top(c) \in Int /\ MaxCalls \in Nat /\ Base(c) <= Top(c)
      /\ reg.rsp >= Base(c) - MaxCalls - 1 /\ reg.rsp <= Base(c)
  BY <1>1, <1>2, Pointers, TopIsEnd
<1>4. Bottom(c) \in {Base(c), Base(c) - 1} /\ (c # Main => Bottom(c) = Base(c) - 1)
  BY DEF Bottom
<1> QED BY <1>1, <1>2, <1>3, <1>4

LEMMA ComputeStep ==
  ASSUME ContextInv, Compute, NEW c, c = current
  PROVE  /\ ContextInv' /\ \A t \in created \ {c} : Same(t)
         /\ Registers(c)' \in Loads /\ Calls(c)' = Calls(c) /\ Place(c)' = Place(c)
<1>1. PICK contents \in Loads :
        reg' = [r \in DOMAIN reg |-> IF r \in CalleeSaved THEN contents[r] ELSE reg[r]]
  BY DEF Compute
<1>2. /\ reg' = [r \in RegNames |-> reg'[r]] /\ DOMAIN reg = RegNames
      /\ \A r \in CalleeSaved : reg'[r] = contents[r]
      /\ reg'.rsp = reg.rsp /\ reg'.rip = reg.rip /\ reg'.rdi = reg.rdi /\ reg'.rsi = reg.rsi
  <2>1. DOMAIN reg = RegNames
    BY Running
  <2> QED BY <1>1, <2>1 DEF RegNames, CalleeSaved
<1>3. UNCHANGED <<mem, saved, current, created, exited, crashed, given, called>>
  BY DEF Compute
<1>4. Sp(c)' = Sp(c) /\ Kept(c, "rip")' = Kept(c, "rip") /\ Arguments(c)' = Arguments(c)
  BY <1>2, <1>3 DEF Sp, Kept, Arguments
<1>5. ThreadOK(c)'
  BY <1>3, <1>4, Running DEF ThreadOK
<1>6. ContextInv' /\ \A t \in created \ {c} : Same(t)
  BY <1>2, <1>3, <1>5, OwnStep, Running
<1>7. Registers(c)' = contents
  <2>1. contents = [r \in CalleeSaved |-> contents[r]]
    BY StacksOK
  <2> QED BY <1>2, <1>3, <2>1 DEF Registers, Kept
<1> QED BY <1>3, <1>4, <1>6, <1>7 DEF Calls, Place

\* A word pushed above the calls of the thread that runs.
LEMMA OneWord ==
  ASSUME ContextInv, NEW c, c = current, NEW x,
         mem' = Pushed(mem, reg.rsp, <<x>>)
  PROVE  /\ mem'[reg.rsp - 1] = x
         /\ \A a \in reg.rsp .. Top(c) - 1 : mem'[a] = mem[a]
         /\ \A t \in created \ {c} : \A a \in Stack(t) : mem'[a] = mem[a]
<1> DEFINE sp == reg.rsp
<1>1. /\ c \in Threads /\ sp \in Int /\ Base(c) \in Int /\ Top(c) \in Int /\ MaxCalls \in Nat
      /\ Base(c) <= Top(c) /\ sp >= Base(c) - MaxCalls - 1 /\ sp <= Base(c)
  BY Running
<1>2. \A a \in sp - 1 .. Top(c) - 1 : a \in Stack(c) /\ a \in Memory
  BY <1>1, Room
<1>3. \A a \in Memory : mem'[a] = IF a = sp - 1 THEN x ELSE mem[a]
  <2> SUFFICES ASSUME NEW a \in Memory PROVE mem'[a] = IF a = sp - 1 THEN x ELSE mem[a]
    OBVIOUS
  <2>1. mem'[a] = IF a \in sp - 1 .. sp - 1 THEN <<x>>[sp - a] ELSE mem[a]
    BY DEF Pushed
  <2>2. a \in sp - 1 .. sp - 1 => a = sp - 1 /\ <<x>>[sp - a] = x
    BY <1>1
  <2>3. a = sp - 1 => a \in sp - 1 .. sp - 1
    BY <1>1
  <2> QED BY <2>1, <2>2, <2>3
<1> HIDE DEF sp
<1>4. mem'[sp - 1] = x
  <2>1. sp - 1 \in Memory
    <3>1. CASE sp = Top(c)
      <4>1. sp - 1 \in Base(c) - MaxCalls - 11 .. Top(c) - 1
        BY <1>1, <3>1
      <4> QED BY <1>1, <4>1, Room
    <3>2. CASE sp # Top(c)
      BY <1>1, <1>2, <3>2
    <3> QED BY <3>1, <3>2
  <2> QED BY <1>3, <2>1
<1>5. ASSUME NEW a \in sp .. Top(c) - 1 PROVE mem'[a] = mem[a]
  <2>1. a \in Memory /\ a # sp - 1
    BY <1>1, <1>2
  <2> QED BY <1>3, <2>1
<1>6. ASSUME NEW t \in created \ {c}, NEW a \in Stack(t) PROVE mem'[a] = mem[a]
  <2>1. t \in Threads /\ t # c
    BY DEF ContextInv
  <2>2. sp - 1 \in Base(c) - MaxCalls - 11 .. Top(c) - 1
    BY <1>1
  <2>3. sp - 1 \in Stack(c) /\ a \notin Stack(c) /\ a \in Memory
    BY <1>1, <2>1, <2>2, Room
  <2> QED BY <1>3, <2>3
<1> QED BY <1>4, <1>5, <1>6 DEF sp

LEMMA CallStep ==
  ASSUME ContextInv, NEW f \in Funs, Call(f), NEW c, c = current
  PROVE  /\ ContextInv' /\ \A t \in created \ {c} : Same(t)
         /\ Registers(c)' = Registers(c) /\ Calls(c)' = <<Place(c)>> \o Calls(c) /\ Place(c)' = f
<1> DEFINE sp == reg.rsp
<1>1. /\ mem' = Pushed(mem, reg.rsp, <<reg.rip>>) /\ Base(c) - sp <= MaxCalls
      /\ reg' = [reg EXCEPT !.rsp = sp - 1, !.rip = f] /\ reg.rip \in Codes
      /\ UNCHANGED <<saved, current, created, exited, crashed, given>>
  BY DEF Call, InCode, Codes
<1>2. /\ ThreadOK(c) /\ Sp(c) = sp /\ sp \in Int /\ Base(c) \in Int /\ Top(c) \in Int
      /\ MaxCalls \in Nat /\ Base(c) <= Top(c) /\ sp <= Base(c)
      /\ reg = [r \in RegNames |-> reg[r]] /\ Kept(c, "rip") = reg.rip
      /\ Bottom(c) \in Int /\ Bottom(c) <= Base(c) /\ (c # Main => Bottom(c) = Base(c) - 1)
  BY Running DEF RegNames
<1>3. /\ reg' = [r \in RegNames |-> reg'[r]] /\ reg'.rsp = sp - 1 /\ reg'.rip = f
      /\ \A r \in CalleeSaved : reg'[r] = reg[r]
  BY <1>1, <1>2 DEF RegNames, CalleeSaved
<1>4. /\ mem'[sp - 1] = reg.rip
      /\ \A a \in sp .. Top(c) - 1 : mem'[a] = mem[a]
      /\ \A t \in created \ {c} : \A a \in Stack(t) : mem'[a] = mem[a]
  BY <1>1, OneWord
<1>5. Sp(c)' = sp - 1 /\ Kept(c, "rip")' = f /\ f \in Codes
  BY <1>1, <1>3 DEF Sp, Kept, Codes
<1> HIDE DEF sp
<1>6. /\ sp <= Bottom(c) /\ (\A a \in sp .. Bottom(c) - 1 : mem[a] \in Codes)
      /\ (c # Main => mem[Bottom(c)] = Exiting)
      /\ (c # Main => \A i \in 1 .. GuardWords : mem[Top(c) - i] = Guard)
  BY <1>1, <1>2 DEF ThreadOK
<1>7. ThreadOK(c)'
  <2>1. sp - 1 \in Base(c) - MaxCalls - 1 .. Base(c) /\ sp - 1 <= Bottom(c)
    BY <1>1, <1>2, <1>6
  <2>2. c # Main => \A i \in 1 .. GuardWords : mem'[Top(c) - i] = Guard
    <3>1. c \in Threads /\ (c # Main => Base(c) = Top(c) - 3)
      BY Running, TopIsEnd
    <3>2. \A i \in 1 .. GuardWords : c # Main => Top(c) - i \in sp .. Top(c) - 1
      BY <1>2, <3>1 DEF GuardWords
    <3> QED BY <1>4, <1>6, <3>2
  <2>3. \A a \in sp - 1 .. Bottom(c) - 1 : mem'[a] \in Codes
    <3> SUFFICES ASSUME NEW a \in sp - 1 .. Bottom(c) - 1 PROVE mem'[a] \in Codes
      OBVIOUS
    <3>1. CASE a = sp - 1
      BY <1>1, <1>4, <3>1
    <3>2. CASE a # sp - 1
      <4>1. a \in sp .. Bottom(c) - 1 /\ a \in sp .. Top(c) - 1
        BY <1>2, <3>2
      <4> QED BY <1>4, <1>6, <4>1
    <3> QED BY <3>1, <3>2
  <2>4. c # Main => mem'[Bottom(c)] = Exiting
    <3>1. CASE c # Main
      <4>1. Bottom(c) \in sp .. Top(c) - 1
        BY <1>2, <1>6, <3>1
      <4> QED BY <1>4, <1>6, <4>1
    <3> QED BY <3>1
  <2>5. c = current'
    BY <1>1
  <2> QED BY <1>5, <2>1, <2>2, <2>3, <2>4, <2>5 DEF ThreadOK
<1>8. ContextInv' /\ \A t \in created \ {c} : Same(t)
  <2>1. reg'.rsp \in Int
    BY <1>2, <1>3
  <2> QED BY <1>1, <1>3, <1>4, <1>7, <2>1, OwnStep
<1>9. Registers(c)' = Registers(c)
  BY <1>1, <1>3 DEF Registers, Kept
<1>10. Calls(c)' = <<Place(c)>> \o Calls(c)
  <2>1. Agree(mem, mem', sp, Base(c))
    BY <1>2, <1>4 DEF Agree
  <2>2. Longer(WordsOf(mem', sp - 1, Base(c)), mem'[sp - 1], WordsOf(mem, sp, Base(c)))
    <3>1. sp \in Int /\ sp - 1 \in Int /\ Base(c) \in Int /\ sp = (sp - 1) + 1 /\ sp <= Base(c)
      BY <1>2
    <3> QED BY <2>1, <3>1, MoreWords
  <2> QED BY <1>2, <1>4, <1>5, <2>2 DEF Calls, Place, Longer
<1> QED BY <1>5, <1>8, <1>9, <1>10 DEF Place

LEMMA BeginStep ==
  ASSUME ContextInv, create_thread_wrapper, NEW c, c = current
  PROVE  /\ ContextInv' /\ \A t \in created \ {c} : Same(t)
         /\ Place(c) = Wrapper /\ called' = [called EXCEPT ![c] = given[c]]
         /\ Registers(c)' = Registers(c) /\ Calls(c)' = <<Exiting>> \o Calls(c)
         /\ Place(c)' = given[c][1]
<1> DEFINE sp == reg.rsp
<1>1. /\ mem' = Pushed(mem, reg.rsp, <<Exiting>>) /\ reg.rip = Wrapper
      /\ reg' = [reg EXCEPT !.rsp = sp - 1, !.rip = reg.rdi, !.rdi = reg.rsi]
      /\ called' = [called EXCEPT ![c] = <<reg.rdi, reg.rsi>>]
      /\ UNCHANGED <<saved, current, created, exited, crashed, given>>
  BY DEF create_thread_wrapper
<1>2. /\ ThreadOK(c) /\ Sp(c) = sp /\ sp \in Int /\ Base(c) \in Int /\ Top(c) \in Int
      /\ MaxCalls \in Nat /\ Base(c) <= Top(c)
      /\ reg = [r \in RegNames |-> reg[r]] /\ Kept(c, "rip") = Wrapper
      /\ c \in Threads /\ (c # Main => Bottom(c) = Base(c) - 1 /\ Base(c) = Top(c) - 3)
  BY <1>1, Running, TopIsEnd DEF RegNames
<1>3. /\ reg' = [r \in RegNames |-> reg'[r]] /\ reg'.rsp = sp - 1 /\ reg'.rip = reg.rdi
      /\ \A r \in CalleeSaved : reg'[r] = reg[r]
  BY <1>1, <1>2 DEF RegNames, CalleeSaved
<1>4. Wrapper \notin Codes
  BY PlacesDiffer DEF Codes
<1>5. /\ c # Main /\ sp = Base(c) /\ given[c] = <<reg.rdi, reg.rsi>> /\ reg.rdi \in Funs
      /\ \A i \in 1 .. GuardWords : mem[Top(c) - i] = Guard
  <2>1. c # Main /\ sp = Base(c) /\ given[c] = Arguments(c) /\ given[c] \in Funs \X Args
        /\ \A i \in 1 .. GuardWords : mem[Top(c) - i] = Guard
    BY <1>2, <1>4 DEF ThreadOK
  <2>2. Arguments(c) = <<reg.rdi, reg.rsi>>
    BY DEF Arguments
  <2> QED BY <2>1, <2>2
<1>6. /\ mem'[sp - 1] = Exiting
      /\ \A a \in sp .. Top(c) - 1 : mem'[a] = mem[a]
      /\ \A t \in created \ {c} : \A a \in Stack(t) : mem'[a] = mem[a]
  BY <1>1, OneWord
<1>7. Sp(c)' = sp - 1 /\ Kept(c, "rip")' = reg.rdi /\ reg.rdi \in Codes
  BY <1>1, <1>3, <1>5 DEF Sp, Kept, Codes
<1> HIDE DEF sp
<1>8. ThreadOK(c)'
  <2>1. sp - 1 \in Base(c) - MaxCalls - 1 .. Base(c) /\ sp - 1 <= Bottom(c) /\ sp - 1 = Bottom(c)
    BY <1>2, <1>5
  <2>2. \A i \in 1 .. GuardWords : mem'[Top(c) - i] = Guard
    <3>1. \A i \in 1 .. GuardWords : Top(c) - i \in sp .. Top(c) - 1
      BY <1>2, <1>5 DEF GuardWords
    <3> QED BY <1>5, <1>6, <3>1
  <2>3. \A a \in sp - 1 .. Bottom(c) - 1 : FALSE
    BY <1>2, <2>1
  <2>4. mem'[Bottom(c)] = Exiting
    BY <1>6, <2>1
  <2>5. c = current'
    BY <1>1
  <2> QED BY <1>7, <2>1, <2>2, <2>3, <2>4, <2>5 DEF ThreadOK
<1>9. ContextInv' /\ \A t \in created \ {c} : Same(t)
  <2>1. reg'.rsp \in Int
    BY <1>2, <1>3
  <2> QED BY <1>1, <1>3, <1>6, <1>8, <2>1, OwnStep
<1>10. Registers(c)' = Registers(c)
  BY <1>1, <1>3 DEF Registers, Kept
<1>11. Calls(c)' = <<Exiting>> \o Calls(c)
  <2>1. Agree(mem, mem', sp, Base(c))
    BY <1>2, <1>5, <1>6 DEF Agree
  <2>2. Longer(WordsOf(mem', sp - 1, Base(c)), mem'[sp - 1], WordsOf(mem, sp, Base(c)))
    <3>1. sp \in Int /\ sp - 1 \in Int /\ Base(c) \in Int /\ sp = (sp - 1) + 1 /\ sp <= Base(c)
      BY <1>2, <1>5
    <3> QED BY <2>1, <3>1, MoreWords
  <2> QED BY <1>2, <1>6, <1>7, <2>2 DEF Calls, Longer
<1> QED BY <1>1, <1>2, <1>5, <1>7, <1>9, <1>10, <1>11 DEF Place

LEMMA ReturnStep ==
  ASSUME ContextInv, Return, NEW c, c = current
  PROVE  /\ ContextInv' /\ \A t \in created \ {c} : Same(t)
         /\ Registers(c)' = Registers(c) /\ Calls(c) # <<>>
         /\ Calls(c)' = Tail(Calls(c)) /\ Place(c)' = Head(Calls(c))
<1> DEFINE sp == reg.rsp
<1>1. /\ mem' = Dropped(mem, sp, 1) /\ (c = Main => sp # Top(Main))
      /\ reg' = [reg EXCEPT !.rsp = sp + 1, !.rip = mem[sp]] /\ reg.rip \in Codes
      /\ UNCHANGED <<saved, current, created, exited, crashed, given>>
  BY DEF Return, InCode, Codes
<1>2. /\ ThreadOK(c) /\ Sp(c) = sp /\ sp \in Int /\ Base(c) \in Int /\ Top(c) \in Int
      /\ MaxCalls \in Nat /\ Base(c) <= Top(c) /\ sp >= Base(c) - MaxCalls - 1
      /\ reg = [r \in RegNames |-> reg[r]] /\ Kept(c, "rip") = reg.rip /\ c \in Threads
      /\ Bottom(c) \in Int /\ Bottom(c) <= Base(c) /\ (c # Main => Bottom(c) = Base(c) - 1)
      /\ (c = Main => Bottom(c) = Top(c)) /\ (c # Main => Base(c) = Top(c) - 3)
  <2>1. (c = Main => Bottom(c) = Top(c)) /\ c \in Threads
    BY Running DEF Bottom, Base
  <2>2. (c # Main => Base(c) = Top(c) - 3) /\ Top(c) \in Int
    BY <2>1, TopIsEnd
  <2>3. /\ ThreadOK(c) /\ Sp(c) = sp /\ sp \in Int /\ Base(c) \in Int
        /\ MaxCalls \in Nat /\ Base(c) <= Top(c) /\ sp >= Base(c) - MaxCalls - 1
        /\ reg = [r \in RegNames |-> reg[r]] /\ Kept(c, "rip") = reg.rip
        /\ (c # Main => Bottom(c) = Base(c) - 1)
    BY Running DEF RegNames
  <2>4. Bottom(c) \in Int /\ Bottom(c) <= Base(c)
    BY <2>3, Running
  <2> QED BY <2>1, <2>2, <2>3, <2>4
<1>3. /\ reg' = [r \in RegNames |-> reg'[r]] /\ reg'.rsp = sp + 1 /\ reg'.rip = mem[sp]
      /\ \A r \in CalleeSaved : reg'[r] = reg[r]
  BY <1>1, <1>2 DEF RegNames, CalleeSaved
<1>4. Sp(c)' = sp + 1 /\ Kept(c, "rip")' = mem[sp] /\ c = current'
  BY <1>1, <1>3 DEF Sp, Kept
<1> HIDE DEF sp
<1>5. /\ sp <= Bottom(c) /\ (\A a \in sp .. Bottom(c) - 1 : mem[a] \in Codes)
      /\ (c # Main => mem[Bottom(c)] = Exiting)
      /\ (c # Main => \A i \in 1 .. GuardWords : mem[Top(c) - i] = Guard)
  BY <1>1, <1>2 DEF ThreadOK
<1>6. sp < Base(c) /\ sp + 1 <= Base(c)
  <2>1. c = Main => sp # Bottom(c)
    BY <1>1, <1>2
  <2> QED BY <1>2, <1>5, <2>1
<1>7. \A a \in sp .. Top(c) - 1 : a \in Stack(c) /\ a \in Memory
  BY <1>2, Room
<1>8. ASSUME NEW a \in Memory, a # sp PROVE mem'[a] = mem[a]
  <2>1. a \notin sp .. sp + 1 - 1
    BY <1>2, <1>8
  <2> QED BY <1>1, <2>1, DroppedWords
<1>9. \A a \in sp + 1 .. Top(c) - 1 : mem'[a] = mem[a]
  BY <1>2, <1>7, <1>8
<1>10. ASSUME NEW t \in created \ {c}, NEW a \in Stack(t) PROVE mem'[a] = mem[a]
  <2>1. t \in Threads /\ t # c
    BY DEF ContextInv
  <2>2. sp \in Stack(c)
    BY <1>2, <1>6, <1>7
  <2> QED BY <1>2, <1>8, <2>1, <2>2, Room
<1>11. ThreadOK(c)'
  <2>1. sp + 1 \in Base(c) - MaxCalls - 1 .. Base(c)
    BY <1>2, <1>6
  <2>2. c # Main => \A i \in 1 .. GuardWords : mem'[Top(c) - i] = Guard
    <3>1. \A i \in 1 .. GuardWords : c # Main => Top(c) - i \in sp + 1 .. Top(c) - 1
      BY <1>2, <1>6 DEF GuardWords
    <3> QED BY <1>5, <1>9, <3>1
  <2>3. CASE sp < Bottom(c)
    <3>1. mem[sp] \in Codes /\ sp + 1 <= Bottom(c)
      BY <1>2, <1>5, <2>3
    <3>2. \A a \in sp + 1 .. Bottom(c) - 1 : mem'[a] \in Codes
      BY <1>2, <1>5, <1>9
    <3>3. c # Main => mem'[Bottom(c)] = Exiting
      BY <1>2, <1>5, <1>9, <2>3
    <3> QED BY <1>4, <2>1, <2>2, <3>1, <3>2, <3>3 DEF ThreadOK
  <2>4. CASE ~(sp < Bottom(c))
    <3>1. sp = Bottom(c) /\ c # Main /\ sp + 1 = Base(c) /\ mem[sp] = Exiting
      BY <1>2, <1>5, <1>6, <2>4
    <3>2. Exiting \notin Codes /\ Exiting # Wrapper
      BY PlacesDiffer DEF Codes
    <3> QED BY <1>4, <2>1, <2>2, <3>1, <3>2 DEF ThreadOK
  <2> QED BY <2>3, <2>4
<1>12. ContextInv' /\ \A t \in created \ {c} : Same(t)
  <2>1. reg'.rsp \in Int
    BY <1>2, <1>3
  <2> QED BY <1>1, <1>3, <1>10, <1>11, <2>1, OwnStep
<1>13. Registers(c)' = Registers(c)
  BY <1>1, <1>3 DEF Registers, Kept
<1>14. Calls(c) # <<>> /\ Head(Calls(c)) = mem[sp] /\ Calls(c)' = Tail(Calls(c))
  <2>1. Agree(mem, mem', sp + 1, Base(c))
    BY <1>2, <1>9 DEF Agree
  <2>2. /\ WordsOf(mem, sp, Base(c)) # <<>> /\ Head(WordsOf(mem, sp, Base(c))) = mem[sp]
        /\ WordsOf(mem', sp + 1, Base(c)) = Tail(WordsOf(mem, sp, Base(c)))
    <3>1. sp \in Int /\ sp + 1 \in Int /\ Base(c) \in Int /\ sp < Base(c)
      BY <1>2, <1>6
    <3> QED BY <2>1, <3>1, FewerWords
  <2> QED BY <1>2, <1>4, <2>2 DEF Calls
<1> QED BY <1>4, <1>12, <1>13, <1>14 DEF Place

(***************************************************************************)
(* A thread that is created.                                               *)
(***************************************************************************)
LEMMA CreateStep ==
  ASSUME ContextInv, NEW t \in Threads, NEW f \in Funs, NEW x \in Args, qthread_create(t, f, x)
  PROVE  /\ ContextInv' /\ \A u \in created : Same(u)
         /\ Registers(t)' = Entry[t] /\ Calls(t)' = <<>> /\ Place(t)' = Wrapper
<1> DEFINE words == first_frame(t, f, x)
<1>1. /\ t \notin created /\ mem' = Pushed(mem, Top(t), words)
      /\ saved' = [saved EXCEPT ![t] = Top(t) - Len(words)]
      /\ created' = created \cup {t} /\ given' = [given EXCEPT ![t] = <<f, x>>]
      /\ UNCHANGED <<reg, current, exited, crashed, called>>
  BY DEF qthread_create, setup_stack
<1>2. /\ Top(t) \in Int /\ Base(t) = Top(t) - 3 /\ t # Main /\ t # current
      /\ MaxCalls \in Nat
      /\ saved = [u \in Threads |-> saved[u]] /\ given = [u \in Threads |-> given[u]]
  BY <1>1, TopIsEnd DEF ContextInv
<1>3. Len(words) = 13
  BY DEF first_frame
<1>4. \A a \in Top(t) - 13 .. Top(t) - 1 : a \in Stack(t) /\ a \in Memory
  <2>1. Top(t) - 13 .. Top(t) - 1 \subseteq Base(t) - MaxCalls - 11 .. Top(t) - 1
    BY <1>2
  <2> QED BY <2>1, Room
<1>5. ASSUME NEW i \in 1 .. 13 PROVE mem'[Top(t) - i] = words[i]
  <2>1. /\ Top(t) - i \in Top(t) - 13 .. Top(t) - 1 /\ Top(t) - (Top(t) - i) = i
    BY <1>2
  <2>2. Top(t) - i \in Memory
    BY <1>4, <2>1
  <2> HIDE DEF words
  <2>3. mem'[Top(t) - i] = IF Top(t) - i \in Top(t) - Len(words) .. Top(t) - 1
                           THEN words[Top(t) - (Top(t) - i)] ELSE mem[Top(t) - i]
    BY <1>1, <2>2, PushedWords
  <2> QED BY <1>3, <2>1, <2>3
<1>6. ASSUME NEW u \in created PROVE ThreadOK(u)' /\ Same(u)
  <2>1. u \in Threads /\ u # t
    BY <1>1 DEF ContextInv
  <2>2. \A a \in Stack(u) : mem'[a] = mem[a]
    <3>1. Top(t) - Len(words) .. Top(t) - 1 \subseteq Stack(t)
      BY <1>3, <1>4
    <3> HIDE DEF words
    <3> QED BY <1>1, <2>1, <3>1, PushedElsewhere
  <2>3. saved'[u] = saved[u] /\ given'[u] = given[u]
    BY <1>1, <1>2, <2>1
  <2> QED BY <1>1, <2>2, <2>3, Untouched
<1>7. saved'[t] = Top(t) - 13 /\ given'[t] = <<f, x>>
  BY <1>1, <1>2, <1>3
<1> DEFINE top == Top(t)
<1>8. /\ mem'[top - 1] = Guard /\ mem'[top - 2] = Guard /\ mem'[top - 3] = Guard
      /\ mem'[top - 4] = Wrapper /\ mem'[top - 5] = top /\ mem'[top - 6] = x
      /\ mem'[top - 7] = f /\ mem'[top - 8] = 0 /\ mem'[top - 9] = 0 /\ mem'[top - 10] = 0
      /\ mem'[top - 11] = 0 /\ mem'[top - 12] = 0 /\ mem'[top - 13] = Flag
  BY <1>5 DEF first_frame
<1> HIDE DEF words, top
<1>9. /\ saved'[t] + 10 = Base(t) /\ Sp(t)' = Base(t) /\ saved'[t] \in Int
      /\ \A k \in 0 .. 12 : saved'[t] + k = top - (13 - k)
  <2>1. top \in Int /\ Base(t) = top - 3 /\ saved'[t] = top - 13
    BY <1>2, <1>7 DEF top
  <2>2. Sp(t)' = saved'[t] + 10
    BY <1>1, <1>2 DEF Sp
  <2> QED BY <2>1, <2>2
<1>10. /\ mem'[saved'[t]] = Flag /\ mem'[saved'[t] + 1] = 0 /\ mem'[saved'[t] + 2] = 0
       /\ mem'[saved'[t] + 3] = 0 /\ mem'[saved'[t] + 4] = 0 /\ mem'[saved'[t] + 5] = 0
       /\ mem'[saved'[t] + 6] = f /\ mem'[saved'[t] + 7] = x /\ mem'[saved'[t] + 8] = top
       /\ mem'[saved'[t] + 9] = Wrapper
  BY <1>2, <1>7, <1>8 DEF top
<1>11. /\ Kept(t, "rip")' = Wrapper /\ Kept(t, "rbp")' = top /\ Kept(t, "rbx")' = 0
       /\ Kept(t, "r12")' = 0 /\ Kept(t, "r13")' = 0 /\ Kept(t, "r14")' = 0
       /\ Kept(t, "r15")' = 0 /\ Arguments(t)' = <<f, x>>
  BY <1>1, <1>2, <1>10 DEF Kept, Slot, Arguments
<1>12. ThreadOK(t)'
  <2>1. Base(t) \in Base(t) - MaxCalls - 1 .. Base(t)
    BY <1>2
  <2>2. \A i \in 1 .. GuardWords : mem'[Top(t) - i] = Guard
    BY <1>8 DEF GuardWords, top
  <2>3. Wrapper \notin Codes
    BY PlacesDiffer DEF Codes
  <2> QED BY <1>2, <1>7, <1>9, <1>10, <1>11, <2>1, <2>2, <2>3 DEF ThreadOK
<1>13. ContextInv'
  <2>1. \A u \in created' : ThreadOK(u)'
    BY <1>1, <1>6, <1>12
  <2>2. \A u \in Suspended' : saved'[u] \in Int
    <3> SUFFICES ASSUME NEW u \in Suspended' PROVE saved'[u] \in Int
      OBVIOUS
    <3>1. CASE u = t
      BY <1>9, <3>1
    <3>2. CASE u # t
      <4>1. u \in Suspended /\ u \in Threads
        BY <1>1, <3>2 DEF Suspended, ContextInv
      <4> QED BY <1>1, <1>2, <3>2, <4>1 DEF ContextInv
    <3> QED BY <3>1, <3>2
  <2>3. saved' = [u \in Threads |-> saved'[u]] /\ given' = [u \in Threads |-> given'[u]]
    BY <1>1, <1>2
  <2> QED BY <1>1, <2>1, <2>2, <2>3 DEF ContextInv
<1>14. Registers(t)' = Entry[t]
  <2>1. \A r \in CalleeSaved : Kept(t, r)' = IF r = "rbp" THEN top ELSE 0
    BY <1>11 DEF CalleeSaved
  <2>2. Entry[t] = [r \in CalleeSaved |-> IF r = "rbp" THEN top ELSE 0]
    BY <1>2 DEF Entry, top
  <2> QED BY <2>1, <2>2 DEF Registers
<1>15. Calls(t)' = <<>>
  <2>1. Calls(t)' = [i \in 1 .. Base(t) - Base(t) |-> mem'[Base(t) + i - 1]]
    BY <1>9 DEF Calls, WordsOf
  <2>2. 1 .. Base(t) - Base(t) = {}
    BY <1>2
  <2> QED BY <2>1, <2>2
<1> QED BY <1>6, <1>11, <1>13, <1>14, <1>15 DEF Place

(***************************************************************************)
(* A switch.                                                               *)
(***************************************************************************)

\* switch_thread finds the flag, and leaves one: the words of the thread that
\* stops are on its stack, in the order in which it will pop them, and those of
\* the other are in the registers.
LEMMA SwitchedWords ==
  ASSUME ContextInv, NEW c, c = current, NEW t \in created \ {c},
         switch_thread(c, saved[t])
  PROVE  /\ UNCHANGED crashed /\ reg' = popped(mem, saved[t])
         /\ saved' = [saved EXCEPT ![c] = reg.rsp - 10]
         /\ \A i \in 1 .. 10 : mem'[reg.rsp - i] = frame(c, saved[t])[i]
         /\ \A a \in reg.rsp .. Top(c) - 1 : mem'[a] = mem[a]
         /\ \A a \in saved[t] + 10 .. Top(t) - 1 : mem'[a] = mem[a]
         /\ \A u \in created \ {c, t} : \A a \in Stack(u) : mem'[a] = mem[a]
<1> DEFINE sp == reg.rsp
           new == saved[t]
           pushes == frame(c, new)
           m == Pushed(mem, sp, pushes)
           two == <<reg.rip, reg.rbp>>
<1>1. /\ c \in Threads /\ sp \in Int /\ Base(c) \in Int /\ Top(c) \in Int /\ MaxCalls \in Nat
      /\ Base(c) <= Top(c) /\ sp >= Base(c) - MaxCalls - 1 /\ sp <= Base(c)
  BY Running
<1>2. /\ t \in Threads /\ t # c /\ new \in Int /\ Base(t) \in Int /\ Top(t) \in Int
      /\ new + 10 >= Base(t) - MaxCalls - 1 /\ new + 10 <= Base(t) /\ Base(t) <= Top(t)
      /\ mem[new] = Flag
  <2>1. t \in Threads /\ t # c /\ mem[new] = Flag /\ Sp(t) = new + 10
    BY DEF ContextInv, ThreadOK, Sp
  <2> QED BY <2>1, Pointers, TopIsEnd
<1>3. Len(pushes) = 10 /\ Len(two) = 2
  BY DEF frame
<1> HIDE DEF sp, new, pushes, two
<1>4. /\ sp - 10 .. sp - 1 \subseteq Stack(c) /\ sp - 2 .. sp - 1 \subseteq Stack(c)
      /\ sp .. Top(c) - 1 \subseteq Stack(c) /\ new .. Top(t) - 1 \subseteq Stack(t)
      /\ Stack(c) \subseteq Memory /\ Stack(t) \subseteq Memory
  <2>1. /\ sp - 10 .. sp - 1 \subseteq Base(c) - MaxCalls - 11 .. Top(c) - 1
        /\ sp - 2 .. sp - 1 \subseteq Base(c) - MaxCalls - 11 .. Top(c) - 1
        /\ sp .. Top(c) - 1 \subseteq Base(c) - MaxCalls - 11 .. Top(c) - 1
        /\ new .. Top(t) - 1 \subseteq Base(t) - MaxCalls - 11 .. Top(t) - 1
    BY <1>1, <1>2
  <2> QED BY <1>1, <1>2, <2>1, Room
<1>5. new \in Stack(t) /\ new .. new + 9 \subseteq Stack(t)
  BY <1>2, <1>4
<1>6. \A a \in Stack(t) : m[a] = mem[a] /\ Pushed(mem, sp, two)[a] = mem[a]
  <2>1. sp - Len(pushes) .. sp - 1 \subseteq Stack(c) /\ sp - Len(two) .. sp - 1 \subseteq Stack(c)
    BY <1>3, <1>4
  <2> QED BY <1>1, <1>2, <2>1, PushedElsewhere
<1>7. /\ UNCHANGED crashed /\ mem' = Dropped(m, new, 10) /\ reg' = popped(m, new)
      /\ saved' = [saved EXCEPT ![c] = sp - 10]
  <2>1. Pushed(mem, sp, two)[new] = Flag
    BY <1>2, <1>5, <1>6
  <2> QED BY <1>3, <2>1 DEF switch_thread, sp, new, pushes, two
<1>8. reg' = popped(mem, new)
  <2>1. \A k \in 1 .. 9 : m[new + k] = mem[new + k]
    <3>1. \A k \in 1 .. 9 : new + k \in new .. new + 9
      BY <1>2
    <3> QED BY <1>5, <1>6, <3>1
  <2> HIDE DEF m
  <2> QED BY <1>7, <2>1 DEF popped
<1>9. ASSUME NEW u \in Threads, u # t, NEW a \in Stack(u) PROVE mem'[a] = m[a]
  <2>1. new .. new + 10 - 1 \subseteq Stack(t)
    BY <1>2, <1>5
  <2> HIDE DEF m
  <2> QED BY <1>2, <1>7, <1>9, <2>1, DroppedElsewhere
<1>10. ASSUME NEW i \in 1 .. 10 PROVE mem'[sp - i] = pushes[i]
  <2>1. sp - i \in sp - 10 .. sp - 1 /\ sp - (sp - i) = i
    BY <1>1
  <2>2. m[sp - i] = IF sp - i \in sp - Len(pushes) .. sp - 1
                    THEN pushes[sp - (sp - i)] ELSE mem[sp - i]
    BY <1>4, <2>1, PushedWords
  <2>3. m[sp - i] = pushes[i]
    BY <1>3, <2>1, <2>2
  <2> QED BY <1>1, <1>2, <1>4, <1>9, <2>1, <2>3
<1>11. ASSUME NEW a \in sp .. Top(c) - 1 PROVE mem'[a] = mem[a]
  <2>1. a \in Stack(c) /\ a \in Memory /\ a \notin sp - Len(pushes) .. sp - 1
    BY <1>1, <1>3, <1>4
  <2>2. m[a] = mem[a]
    BY <2>1, PushedWords
  <2> QED BY <1>1, <1>2, <1>9, <2>1, <2>2
<1>12. ASSUME NEW a \in new + 10 .. Top(t) - 1 PROVE mem'[a] = mem[a]
  <2>1. a \in Stack(t) /\ a \in Memory /\ a \notin new .. new + 10 - 1
    BY <1>2, <1>4
  <2> QED BY <1>6, <1>7, <2>1, DroppedWords
<1>13. ASSUME NEW u \in created \ {c, t}, NEW a \in Stack(u) PROVE mem'[a] = mem[a]
  <2>1. u \in Threads /\ u # c /\ u # t
    BY DEF ContextInv
  <2>2. sp - Len(pushes) .. sp - 1 \subseteq Stack(c)
    BY <1>3, <1>4
  <2>3. m[a] = mem[a]
    BY <1>1, <2>1, <2>2, PushedElsewhere
  <2> QED BY <1>9, <2>1, <2>3
<1> QED BY <1>7, <1>8, <1>10, <1>11, <1>12, <1>13 DEF sp, new, pushes

LEMMA SwitchStep ==
  ASSUME ContextInv, NEW t \in Threads, switch_runnable(t),
         exited' \in {exited, exited \cup {current}},
         reg.rip \in Codes \cup {Exiting}
  PROVE  ContextInv' /\ t \in created \ exited /\ \A u \in created : Same(u)
<1> SUFFICES ASSUME NEW c, c = current
             PROVE  ContextInv' /\ t \in created \ exited /\ \A u \in created : Same(u)
  OBVIOUS
<1>1. /\ t \in created \ {c} /\ t \notin exited /\ current' = t /\ switch_thread(c, saved[t])
      /\ UNCHANGED <<created, given, called>>
  BY DEF switch_runnable
<1> DEFINE sp == reg.rsp
           new == saved[t]
<1>2. /\ UNCHANGED crashed /\ reg' = popped(mem, new)
      /\ saved' = [saved EXCEPT ![c] = sp - 10]
      /\ \A i \in 1 .. 10 : mem'[sp - i] = frame(c, new)[i]
      /\ \A a \in sp .. Top(c) - 1 : mem'[a] = mem[a]
      /\ \A a \in new + 10 .. Top(t) - 1 : mem'[a] = mem[a]
      /\ \A u \in created \ {c, t} : \A a \in Stack(u) : mem'[a] = mem[a]
  BY <1>1, SwitchedWords
<1>3. /\ c \in created /\ c \in Threads /\ Sp(c) = sp /\ sp \in Int
      /\ saved = [u \in Threads |-> saved[u]] /\ \A r \in RegNames : Kept(c, r) = reg[r]
      /\ Base(c) \in Int /\ Top(c) \in Int /\ Base(c) <= Top(c) /\ MaxCalls \in Nat
      /\ sp >= Base(c) - MaxCalls - 1 /\ sp <= Base(c)
  <2>1. saved = [u \in Threads |-> saved[u]]
    BY DEF ContextInv
  <2> QED BY <2>1, Running
<1>4. /\ t \in created /\ t # c /\ new \in Int /\ Sp(t) = new + 10
      /\ Base(t) \in Int /\ Top(t) \in Int /\ Base(t) <= Top(t)
      /\ Sp(t) <= Base(t)
  BY <1>1, Pointers, TopIsEnd
<1>5. saved'[c] = sp - 10 /\ \A u \in Threads : u # c => saved'[u] = saved[u]
  BY <1>2, <1>3
<1> HIDE DEF sp, new
<1>6. ThreadOK(c)' /\ Same(c)
  <2>1. Sp(c)' = Sp(c)
    BY <1>1, <1>3, <1>4, <1>5 DEF Sp
  <2>2. /\ saved'[c] = sp - 10 /\ saved'[c] + 1 = sp - 9 /\ saved'[c] + 2 = sp - 8
        /\ saved'[c] + 3 = sp - 7 /\ saved'[c] + 4 = sp - 6 /\ saved'[c] + 5 = sp - 5
        /\ saved'[c] + 8 = sp - 2 /\ saved'[c] + 9 = sp - 1
    BY <1>3, <1>5
  <2>3. /\ mem'[sp - 10] = Flag /\ mem'[sp - 9] = reg.r15 /\ mem'[sp - 8] = reg.r14
        /\ mem'[sp - 7] = reg.r13 /\ mem'[sp - 6] = reg.r12 /\ mem'[sp - 5] = reg.rbx
        /\ mem'[sp - 2] = reg.rbp /\ mem'[sp - 1] = reg.rip
    BY <1>2 DEF frame
  <2>4. c # current'
    BY <1>1
  <2>5. /\ Kept(c, "r15")' = reg.r15 /\ Kept(c, "r14")' = reg.r14 /\ Kept(c, "r13")' = reg.r13
        /\ Kept(c, "r12")' = reg.r12 /\ Kept(c, "rbx")' = reg.rbx /\ Kept(c, "rbp")' = reg.rbp
        /\ Kept(c, "rip")' = reg.rip
    BY <2>2, <2>3, <2>4 DEF Kept, Slot
  <2>6. \A r \in CalleeSaved \cup {"rip"} : Kept(c, r)' = Kept(c, r)
    <3>1. \A r \in CalleeSaved \cup {"rip"} : Kept(c, r) = reg[r]
      BY <1>3 DEF RegNames
    <3> QED BY <2>5, <3>1 DEF CalleeSaved
  <2>7. /\ \A a \in Sp(c) .. Base(c) - 1 : mem'[a] = mem[a]
        /\ \A a \in Base(c) .. Top(c) - 1 : mem'[a] = mem[a]
    BY <1>2, <1>3 DEF sp
  <2>8. Same(c)
    BY <2>1, <2>6, <2>7 DEF Same
  <2>9. Kept(c, "rip") # Wrapper
    BY <1>3, PlacesDiffer DEF Codes, RegNames
  <2>10. mem'[saved'[c]] = Flag /\ given'[c] = given[c]
    BY <1>1, <2>2, <2>3
  <2> QED BY <1>3, <2>7, <2>8, <2>9, <2>10, SameOK
<1>7. ThreadOK(t)' /\ Same(t)
  <2>1. Sp(t)' = Sp(t)
    BY <1>1, <1>2, <1>4 DEF Sp, popped
  <2>2. \A r \in CalleeSaved \cup {"rip"} : reg'[r] = mem[new + Slot[r]]
    BY <1>2 DEF popped, Slot, CalleeSaved
  <2>3. \A r \in CalleeSaved \cup {"rip"} : Kept(t, r)' = Kept(t, r)
    BY <1>1, <1>4, <2>2 DEF Kept, new
  <2>4. /\ \A a \in Sp(t) .. Base(t) - 1 : mem'[a] = mem[a]
        /\ \A a \in Base(t) .. Top(t) - 1 : mem'[a] = mem[a]
    BY <1>2, <1>4
  <2>5. Same(t)
    BY <2>1, <2>3, <2>4 DEF Same
  <2>6. Arguments(t)' = Arguments(t)
    <3>1. reg'.rdi = mem[new + 6] /\ reg'.rsi = mem[new + 7]
      BY <1>2 DEF popped
    <3> QED BY <1>1, <1>4, <3>1 DEF Arguments, new
  <2>7. t = current' /\ given'[t] = given[t]
    BY <1>1
  <2> QED BY <1>4, <2>4, <2>5, <2>6, <2>7, SameOK
<1>8. ASSUME NEW u \in created, u # c, u # t PROVE ThreadOK(u)' /\ Same(u)
  <2>1. u \in Threads /\ u # current /\ u # current' /\ given'[u] = given[u]
    BY <1>1, <1>8 DEF ContextInv
  <2>2. saved'[u] = saved[u] /\ \A a \in Stack(u) : mem'[a] = mem[a]
    BY <1>2, <1>5, <1>8, <2>1
  <2> QED BY <2>1, <2>2, Untouched
<1>9. \A u \in created : ThreadOK(u)' /\ Same(u)
  BY <1>6, <1>7, <1>8
<1>10. ContextInv'
  <2>1. \A u \in Suspended' : saved'[u] \in Int
    <3> SUFFICES ASSUME NEW u \in Suspended' PROVE saved'[u] \in Int
      OBVIOUS
    <3>1. CASE u = c
      BY <1>3, <1>5, <3>1
    <3>2. CASE u # c
      <4>1. u \in Suspended /\ u \in Threads
        BY <1>1, <3>2 DEF Suspended, ContextInv
      <4> QED BY <1>5, <3>2, <4>1 DEF ContextInv
    <3> QED BY <3>1, <3>2
  <2>2. reg' = [r \in RegNames |-> reg'[r]] /\ reg'.rsp \in Int
    BY <1>2, <1>4 DEF popped, RegNames, CalleeSaved
  <2>3. saved' = [u \in Threads |-> saved'[u]]
    BY <1>2, <1>3
  <2>4. \A u \in created' : ThreadOK(u)'
    BY <1>1, <1>9
  <2> QED BY <1>1, <1>2, <2>1, <2>2, <2>3, <2>4 DEF ContextInv
<1> QED BY <1>1, <1>9, <1>10

(***************************************************************************)
(* The invariant holds, and what it says of the stacks.                    *)
(***************************************************************************)
LEMMA InitContext == Init => ContextInv
<1> SUFFICES ASSUME Init PROVE ContextInv
  OBVIOUS
<1>1. /\ reg = [ rbp |-> 0, rbx |-> 0, r12 |-> 0, r13 |-> 0, r14 |-> 0, r15 |-> 0,
                 rdi |-> 0, rsi |-> 0, rsp |-> Top(Main), rip |-> MainCode ]
      /\ saved = [t \in Threads |-> Junk] /\ given = [t \in Threads |-> NULL]
      /\ current = Main /\ created = {Main} /\ exited = {} /\ crashed = FALSE
  BY DEF Init
<1>2. Main \in Threads
  BY StacksOK
<1>3. /\ Base(Main) = Top(Main) /\ Bottom(Main) = Top(Main) /\ Top(Main) \in Int
      /\ MaxCalls \in Nat
  BY <1>2, TopIsEnd DEF Base, Bottom
<1>4. reg.rsp = Top(Main) /\ reg.rip = MainCode
  BY <1>1
<1>5. reg = [r \in RegNames |-> reg[r]]
  BY <1>1 DEF RegNames, CalleeSaved
<1>6. ThreadOK(Main)
  <2>1. Sp(Main) = Top(Main) /\ Kept(Main, "rip") = MainCode
    BY <1>1, <1>4 DEF Sp, Kept
  <2>2. MainCode \in Codes
    BY DEF Codes
  <2>3. Top(Main) \in Base(Main) - MaxCalls - 1 .. Base(Main)
    BY <1>3
  <2>4. \A a \in Top(Main) .. Bottom(Main) - 1 : FALSE
    BY <1>3
  <2>5. Sp(Main) <= Bottom(Main)
    BY <1>3, <2>1
  <2> QED BY <1>1, <2>1, <2>2, <2>3, <2>4, <2>5 DEF ThreadOK
<1>7. Suspended = {}
  BY <1>1 DEF Suspended
<1> QED BY <1>1, <1>2, <1>3, <1>4, <1>5, <1>6, <1>7 DEF ContextInv

LEMMA NextContext == ContextInv /\ [Next]_vars => ContextInv'
<1> SUFFICES ASSUME ContextInv, [Next]_vars PROVE ContextInv'
  OBVIOUS
<1>1. CASE create_thread_wrapper
  BY <1>1, BeginStep
<1>2. CASE Compute
  BY <1>2, ComputeStep
<1>3. CASE Return
  BY <1>3, ReturnStep
<1>4. ASSUME NEW f \in Funs, Call(f) PROVE ContextInv'
  BY <1>4, CallStep
<1>5. ASSUME NEW t \in Threads, yield(t) \/ qthread_exit(t) PROVE ContextInv'
  BY <1>5, SwitchStep DEF yield, qthread_exit, InCode, Codes
<1>6. ASSUME NEW t \in Threads, NEW f \in Funs, NEW x \in Args, qthread_create(t, f, x)
      PROVE  ContextInv'
  BY <1>6, CreateStep
<1>7. CASE UNCHANGED vars
  BY <1>7, ZenonT(40) DEF vars, ContextInv, Suspended, ThreadOK, Sp, Kept, Arguments
<1> QED BY <1>1, <1>2, <1>3, <1>4, <1>5, <1>6, <1>7 DEF Next

LEMMA SpecContext == Spec => []ContextInv
BY InitContext, NextContext, PTL DEF Spec

\* switch_thread never fails: the one that runs is on its own stack, each of the
\* others has the flag on top of its own, and the guard words are in their place.
THEOREM StacksStayApart == Spec => []StacksApart
<1>1. ContextInv => StacksApart
  <2> SUFFICES ASSUME ContextInv PROVE StacksApart
    OBVIOUS
  <2>1. current \in Threads
    BY DEF ContextInv
  <2>2. reg.rsp \in Stack(current) \cup {Top(current)}
    <3>1. Top(current) \in Int /\ Base(current) \in Int /\ MaxCalls \in Nat
          /\ Base(current) <= Top(current) /\ reg.rsp \in Int
          /\ reg.rsp >= Base(current) - MaxCalls - 1 /\ reg.rsp <= Base(current)
      BY Running
    <3>2. CASE reg.rsp # Top(current)
      <4>1. reg.rsp \in Base(current) - MaxCalls - 11 .. Top(current) - 1
        BY <3>1, <3>2
      <4> QED BY <2>1, <4>1, Room
    <3> QED BY <3>2
  <2>3. ASSUME NEW t \in Suspended PROVE saved[t] \in Stack(t) /\ mem[saved[t]] = Flag
    <3>1. t \in created /\ t # current /\ t \in Threads
      BY DEF Suspended, ContextInv
    <3>2. saved[t] \in Base(t) - MaxCalls - 11 .. Top(t) - 1
      <4>1. /\ saved[t] \in Int /\ Base(t) \in Int /\ Top(t) \in Int /\ MaxCalls \in Nat
            /\ saved[t] + 10 >= Base(t) - MaxCalls - 1 /\ saved[t] + 10 <= Base(t)
            /\ Base(t) <= Top(t)
        BY <3>1, Pointers, TopIsEnd
      <4> QED BY <4>1
    <3> QED BY <3>1, <3>2, Room DEF ContextInv, ThreadOK
  <2>4. \A t \in created \ {Main} : \A i \in 1 .. GuardWords : mem[Top(t) - i] = Guard
    BY DEF ContextInv, ThreadOK
  <2>5. ~crashed
    BY DEF ContextInv
  <2> QED BY <2>2, <2>3, <2>4, <2>5 DEF StacksApart
<1> QED BY <1>1, SpecContext, PTL

\* The wrapper is entered as a function is: 8 bytes off a multiple of 16.
THEOREM WrapperEntryAligned == Spec => []EntryAligned
<1>1. ContextInv => EntryAligned
  <2> SUFFICES ASSUME ContextInv, reg.rip = Wrapper PROVE reg.rsp % 2 = 1
    BY DEF EntryAligned
  <2>1. Wrapper \notin Codes
    BY PlacesDiffer DEF Codes
  <2>2. /\ current \in Threads /\ ThreadOK(current) /\ Kept(current, "rip") = Wrapper
        /\ Sp(current) = reg.rsp
    BY DEF ContextInv, Kept, Sp
  <2>3. current # Main /\ reg.rsp = Base(current)
    BY <2>1, <2>2 DEF ThreadOK
  <2>4. /\ Top(current) \in Nat /\ Top(current) % 2 = 0 /\ reg.rsp = Top(current) - 3
    BY <2>2, <2>3, TopIsEnd
  <2> QED BY <2>4
<1> QED BY <1>1, SpecContext, PTL

(***************************************************************************)
(* The threads are coroutines.                                             *)
(***************************************************************************)

\* The refinement mapping of KeepsContext.
regs ==
  [t \in Threads |-> IF t \in created THEN [r \in CalleeSaved |-> Kept(t, r)] ELSE Entry[t]]
stack ==
  [t \in Threads |->
    IF t = current THEN Words(reg.rsp, Base(t))
    ELSE IF t \in created THEN Words(saved[t] + 10, Base(t)) ELSE <<>>]
place == [t \in Threads |-> IF t \in created THEN Kept(t, "rip") ELSE Wrapper]

LEMMA Views ==
  ASSUME NEW t \in Threads
  PROVE  /\ regs[t] = IF t \in created THEN Registers(t) ELSE Entry[t]
         /\ stack[t] = IF t = current \/ t \in created THEN Calls(t) ELSE <<>>
         /\ place[t] = IF t \in created THEN Place(t) ELSE Wrapper
<1>1. stack[t] = IF t = current \/ t \in created THEN Words(Sp(t), Base(t)) ELSE <<>>
  BY DEF stack, Sp
<1> QED BY <1>1 DEF regs, place, Registers, Place, Calls, Words, WordsOf

LEMMA ViewsThen ==
  ASSUME NEW t \in Threads
  PROVE  /\ regs'[t] = IF t \in created' THEN Registers(t)' ELSE Entry[t]
         /\ stack'[t] = IF t = current' \/ t \in created' THEN Calls(t)' ELSE <<>>
         /\ place'[t] = IF t \in created' THEN Place(t)' ELSE Wrapper
<1>1. stack'[t] = IF t = current' \/ t \in created' THEN Words(Sp(t), Base(t))' ELSE <<>>
  BY DEF stack, Sp
<1> QED BY <1>1 DEF regs, place, Registers, Place, Calls, Words, WordsOf

\* What only the thread that runs has changed.
LEMMA OwnView ==
  ASSUME ContextInv, NEW c, c = current, c = current', UNCHANGED created,
         \A t \in created \ {c} : Same(t)
  PROVE  /\ regs' = [regs EXCEPT ![c] = Registers(c)'] /\ regs[c] = Registers(c)
         /\ stack' = [stack EXCEPT ![c] = Calls(c)'] /\ stack[c] = Calls(c)
         /\ place' = [place EXCEPT ![c] = Place(c)'] /\ place[c] = Place(c)
<1>1. c \in created /\ c \in Threads
  BY DEF ContextInv
<1>2. ASSUME NEW t \in Threads, t # c
      PROVE  regs'[t] = regs[t] /\ stack'[t] = stack[t] /\ place'[t] = place[t]
  <2>1. CASE t \in created
    <3>1. Registers(t)' = Registers(t) /\ Calls(t)' = Calls(t) /\ Place(t)' = Place(t)
      BY <1>2, <2>1, SameView
    <3> QED BY <2>1, <3>1, Views, ViewsThen
  <2>2. CASE t \notin created
    BY <1>2, <2>2, Views, ViewsThen
  <2> QED BY <2>1, <2>2
<1>3. /\ regs'[c] = Registers(c)' /\ stack'[c] = Calls(c)' /\ place'[c] = Place(c)'
      /\ regs[c] = Registers(c) /\ stack[c] = Calls(c) /\ place[c] = Place(c)
  BY <1>1, Views, ViewsThen
<1>4. /\ regs = [t \in Threads |-> regs[t]] /\ regs' = [t \in Threads |-> regs'[t]]
      /\ stack = [t \in Threads |-> stack[t]] /\ stack' = [t \in Threads |-> stack'[t]]
      /\ place = [t \in Threads |-> place[t]] /\ place' = [t \in Threads |-> place'[t]]
  BY DEF regs, stack, place
<1> QED BY <1>1, <1>2, <1>3, <1>4

\* What no thread that was there has changed, and a new one starts with.
LEMMA SameViews ==
  ASSUME ContextInv, current' \in created, created \subseteq created',
         \A t \in created : Same(t),
         \A t \in created' \ created :
           Registers(t)' = Entry[t] /\ Calls(t)' = <<>> /\ Place(t)' = Wrapper
  PROVE  UNCHANGED <<regs, stack, place>>
<1>1. ASSUME NEW t \in Threads
      PROVE  regs'[t] = regs[t] /\ stack'[t] = stack[t] /\ place'[t] = place[t]
  <2>1. CASE t \in created
    <3>1. Registers(t)' = Registers(t) /\ Calls(t)' = Calls(t) /\ Place(t)' = Place(t)
      BY <2>1, SameView
    <3> QED BY <2>1, <3>1, Views, ViewsThen
  <2>2. CASE t \notin created
    <3>1. t # current /\ t # current'
      BY <2>2 DEF ContextInv
    <3> QED BY <2>2, <3>1, Views, ViewsThen
  <2> QED BY <2>1, <2>2
<1>2. /\ regs = [t \in Threads |-> regs[t]] /\ regs' = [t \in Threads |-> regs'[t]]
      /\ stack = [t \in Threads |-> stack[t]] /\ stack' = [t \in Threads |-> stack'[t]]
      /\ place = [t \in Threads |-> place[t]] /\ place' = [t \in Threads |-> place'[t]]
  BY DEF regs, stack, place
<1> QED BY <1>1, <1>2

LEMMA InitContexts == Init => Contexts!Init
<1> SUFFICES ASSUME Init PROVE Contexts!Init
  OBVIOUS
<1>1. ContextInv
  BY InitContext
<1>2. /\ reg = [ rbp |-> 0, rbx |-> 0, r12 |-> 0, r13 |-> 0, r14 |-> 0, r15 |-> 0,
                 rdi |-> 0, rsi |-> 0, rsp |-> Top(Main), rip |-> MainCode ]
      /\ current = Main /\ created = {Main} /\ exited = {}
      /\ given = [t \in Threads |-> NULL] /\ called = [t \in Threads |-> NULL]
  BY DEF Init
<1>3. Registers(Main) = Entry[Main]
  <2>1. Registers(Main) = [r \in CalleeSaved |-> 0]
    BY <1>2 DEF Registers, Kept, CalleeSaved
  <2>2. Main \in Threads
    BY StacksOK
  <2> QED BY <2>1, <2>2 DEF Entry
<1>4. Calls(Main) = <<>>
  <2>1. Calls(Main) = [i \in 1 .. Top(Main) - Top(Main) |-> mem[Top(Main) + i - 1]]
    BY <1>2 DEF Calls, WordsOf, Sp, Base
  <2>2. Top(Main) \in Int
    BY StacksOK, TopIsEnd
  <2>3. 1 .. Top(Main) - Top(Main) = {}
    BY <2>2
  <2> QED BY <2>1, <2>3
<1>5. Place(Main) = MainCode
  BY <1>2 DEF Place, Kept
<1>6. regs = Entry
  <2>1. \A t \in Threads : regs[t] = Entry[t]
    BY <1>2, <1>3, Views
  <2> QED BY <2>1 DEF regs, Entry
<1>7. stack = [t \in Threads |-> <<>>]
  <2>1. \A t \in Threads : stack[t] = <<>>
    BY <1>2, <1>4, Views
  <2> QED BY <2>1 DEF stack
<1>8. place = [t \in Threads |-> IF t = Main THEN MainCode ELSE Wrapper]
  <2>1. \A t \in Threads : place[t] = IF t = Main THEN MainCode ELSE Wrapper
    BY <1>2, <1>5, Views
  <2> QED BY <2>1 DEF place
<1> QED BY <1>2, <1>6, <1>7, <1>8 DEF Contexts!Init, regs, stack, place

LEMMA NextContexts ==
  ContextInv /\ [Next]_vars =>
    [Contexts!Next]_<<current, created, exited, given, called, regs, stack, place>>
<1> DEFINE view == <<current, created, exited, given, called, regs, stack, place>>
<1> SUFFICES ASSUME ContextInv, [Next]_vars, NEW c, c = current
             PROVE  [Contexts!Next]_view
  OBVIOUS
<1>1. CASE create_thread_wrapper
  <2>1. UNCHANGED <<current, created, exited, given>>
    BY <1>1 DEF create_thread_wrapper
  <2>2. /\ place[c] = Wrapper /\ called' = [called EXCEPT ![c] = given[c]]
        /\ regs' = [regs EXCEPT ![c] = regs[c]]
        /\ stack' = [stack EXCEPT ![c] = <<Exiting>> \o stack[c]]
        /\ place' = [place EXCEPT ![c] = given[c][1]]
    BY <1>1, <2>1, BeginStep, OwnView
  <2>3. regs' = regs
    BY <2>2 DEF regs
  <2> QED BY <2>1, <2>2, <2>3 DEF Contexts!Next, Contexts!Begin, regs, stack, place
<1>2. CASE Compute
  <2>1. UNCHANGED <<current, created, exited, given, called>>
    BY <1>2 DEF Compute
  <2>2. /\ Registers(c)' \in Loads /\ regs' = [regs EXCEPT ![c] = Registers(c)']
        /\ stack' = [stack EXCEPT ![c] = stack[c]] /\ place' = [place EXCEPT ![c] = place[c]]
    BY <1>2, <2>1, ComputeStep, OwnView
  <2>3. stack' = stack /\ place' = place
    BY <2>2 DEF stack, place
  <2>4. PICK contents \in Loads : regs' = [regs EXCEPT ![c] = contents]
    BY <2>2
  <2> QED BY <2>1, <2>3, <2>4 DEF Contexts!Next, Contexts!Compute, regs, stack, place
<1>3. CASE Return
  <2>1. UNCHANGED <<current, created, exited, given, called>>
    BY <1>3 DEF Return
  <2>2. /\ stack[c] # <<>> /\ regs' = [regs EXCEPT ![c] = regs[c]]
        /\ stack' = [stack EXCEPT ![c] = Tail(stack[c])]
        /\ place' = [place EXCEPT ![c] = Head(stack[c])]
    BY <1>3, <2>1, ReturnStep, OwnView
  <2>3. regs' = regs
    BY <2>2 DEF regs
  <2> QED BY <2>1, <2>2, <2>3 DEF Contexts!Next, Contexts!Return, regs, stack, place
<1>4. ASSUME NEW f \in Funs, Call(f) PROVE [Contexts!Next]_view
  <2>1. UNCHANGED <<current, created, exited, given, called>>
    BY <1>4 DEF Call
  <2>2. /\ regs' = [regs EXCEPT ![c] = regs[c]]
        /\ stack' = [stack EXCEPT ![c] = <<place[c]>> \o stack[c]]
        /\ place' = [place EXCEPT ![c] = f]
    <3>1. /\ Registers(c)' = Registers(c) /\ Calls(c)' = <<Place(c)>> \o Calls(c)
          /\ Place(c)' = f /\ \A t \in created \ {c} : Same(t)
      BY <1>4, CallStep
    <3> QED BY <2>1, <3>1, OwnView
  <2>3. regs' = regs
    BY <2>2 DEF regs
  <2>4. Contexts!Call(f)
    BY <2>1, <2>2, <2>3 DEF Contexts!Call, regs, stack, place
  <2> QED BY <2>4 DEF Contexts!Next
<1>5. ASSUME NEW t \in Threads, yield(t) \/ qthread_exit(t) PROVE [Contexts!Next]_view
  <2>1. /\ switch_runnable(t) /\ reg.rip \in Codes \cup {Exiting}
        /\ exited' \in {exited, exited \cup {current}}
    BY <1>5 DEF yield, qthread_exit, InCode, Codes
  <2>2. t \in created \ exited /\ \A u \in created : Same(u)
    BY <2>1, SwitchStep
  <2>3. current' = t /\ UNCHANGED <<created, given, called>>
    BY <2>1 DEF switch_runnable
  <2>4. UNCHANGED <<regs, stack, place>>
    BY <2>2, <2>3, SameViews
  <2>5. Contexts!Switch(t)
    BY <2>1, <2>2, <2>3, <2>4 DEF Contexts!Switch, Contexts!Own, regs, stack, place
  <2> QED BY <2>5 DEF Contexts!Next
<1>6. ASSUME NEW t \in Threads, NEW f \in Funs, NEW x \in Args, qthread_create(t, f, x)
      PROVE  [Contexts!Next]_view
  <2>1. /\ t \notin created /\ created' = created \cup {t}
        /\ given' = [given EXCEPT ![t] = <<f, x>>] /\ UNCHANGED <<current, exited, called>>
    BY <1>6 DEF qthread_create
  <2>2. UNCHANGED <<regs, stack, place>>
    <3>1. /\ \A u \in created : Same(u)
          /\ Registers(t)' = Entry[t] /\ Calls(t)' = <<>> /\ Place(t)' = Wrapper
      BY <1>6, CreateStep
    <3>2. current' \in created
      BY <2>1 DEF ContextInv
    <3> QED BY <2>1, <3>1, <3>2, SameViews
  <2>3. Contexts!Create(t, f, x)
    BY <2>1, <2>2 DEF Contexts!Create, Contexts!Own, regs, stack, place
  <2> QED BY <2>3 DEF Contexts!Next
<1>7. CASE UNCHANGED vars
  BY <1>7 DEF vars, regs, stack, place, Kept, Words
<1> QED BY <1>1, <1>2, <1>3, <1>4, <1>5, <1>6, <1>7 DEF Next

\* Each thread has registers, calls and a place of its own, which a switch, a
\* call or the creation of another leaves as they are; and a new thread calls the
\* function it was created for with its argument.
THEOREM ThreadsAreCoroutines == Spec => KeepsContext
<1>1. ContextInv /\ [Next]_vars =>
        [Contexts!Next]_<<current, created, exited, given, called, regs, stack, place>>
  BY NextContexts
<1> QED BY <1>1, InitContexts, SpecContext, PTL
        DEF Spec, KeepsContext, Contexts!Spec, Contexts!vars, regs, stack, place

=============================================================================
