--------------------------- MODULE CommandListProofs ---------------------------
(***************************************************************************)
(* What the tokenizer and the command list make of a line, for every line  *)
(* and every size of the caller's arrays.  Their loops are recursive       *)
(* functions; what holds of all turns is shown by induction on the turn,   *)
(* over the set of the turns it holds for.                                 *)
(***************************************************************************)
EXTENDS MCCommandList, Integers, WellFoundedInduction, SequenceTheorems, TLAPS

\* A set of numbers with 0 and every successor has them all.
LEMMA SetInduction ==
  ASSUME NEW S, 0 \in S, \A n \in Nat : n \in S => n + 1 \in S
  PROVE  Nat \subseteq S
<1>1. SUFFICES ASSUME Nat \ S # {} PROVE FALSE
  OBVIOUS
<1>2. PICK m \in Nat \ S : \A k \in Nat \ S : <<k, m>> \notin OpToRel(<, Nat)
  BY <1>1, NatLessThanWellFounded, WFMin
<1>3. \A k \in Nat \ S : ~(k < m)
  BY <1>2 DEF OpToRel
<1>4. m # 0 /\ m - 1 \in Nat /\ m - 1 < m /\ m = (m - 1) + 1
  OBVIOUS
<1> QED BY <1>3, <1>4

\* Up to a bound.
LEMMA RangeInduction ==
  ASSUME NEW N \in Nat, NEW S, 0 \in S, \A n \in 1 .. N : n - 1 \in S => n \in S
  PROVE  0 .. N \subseteq S
<1> DEFINE T == {n \in Nat : n <= N => n \in S}
<1>1. 0 \in T
  OBVIOUS
<1>2. ASSUME NEW n \in Nat, n \in T PROVE n + 1 \in T
  <2>1. CASE n + 1 <= N
    <3>1. n + 1 \in 1 .. N /\ (n + 1) - 1 = n /\ n \in S
      BY <1>2, <2>1
    <3> QED BY <3>1
  <2>2. CASE ~(n + 1 <= N)
    BY <2>2
  <2> QED BY <2>1, <2>2
<1>3. Nat \subseteq T
  <2> HIDE DEF T
  <2> QED BY <1>1, <1>2, SetInduction
<1> QED BY <1>3

\* A function that is defined by recursion on its argument exists: turn n makes
\* step[<<n, v>>] of v.
Turns(g, N, S, c, step) ==
  g \in [0 .. N -> S] /\ g[0] = c /\ \A n \in 1 .. N : g[n] = step[<<n, g[n - 1]>>]

LEMMA Recursion ==
  ASSUME NEW N \in Nat, NEW S, NEW c \in S, NEW step \in [(1 .. N) \X S -> S]
  PROVE  \E g : Turns(g, N, S, c, step)
<1> DEFINE Runs == {k \in 0 .. N : \E g \in [0 .. k -> S] :
                      g[0] = c /\ \A n \in 1 .. k : g[n] = step[<<n, g[n - 1]>>]}
<1>1. 0 \in Runs
  <2> DEFINE g == [n \in 0 .. 0 |-> c]
  <2>1. g \in [0 .. 0 -> S] /\ g[0] = c
    OBVIOUS
  <2> HIDE DEF g
  <2> QED BY <2>1
<1>2. ASSUME NEW k \in 1 .. N, k - 1 \in Runs PROVE k \in Runs
  <2>1. PICK g \in [0 .. k - 1 -> S] : g[0] = c /\ \A n \in 1 .. k - 1 : g[n] = step[<<n, g[n - 1]>>]
    BY <1>2
  <2> DEFINE h == [n \in 0 .. k |-> IF n = k THEN step[<<k, g[k - 1]>>] ELSE g[n]]
  <2>2. g[k - 1] \in S /\ step[<<k, g[k - 1]>>] \in S
    BY <2>1
  <2>3. h \in [0 .. k -> S] /\ h[0] = c
    BY <2>1, <2>2
  <2>4. ASSUME NEW n \in 1 .. k PROVE h[n] = step[<<n, h[n - 1]>>]
    <3>1. CASE n = k
      <4>1. h[n] = step[<<k, g[k - 1]>>] /\ h[n - 1] = g[k - 1]
        BY <3>1
      <4> HIDE DEF h
      <4> QED BY <3>1, <4>1
    <3>2. CASE n # k
      <4>1. n \in 1 .. k - 1 /\ h[n] = g[n] /\ h[n - 1] = g[n - 1]
        BY <3>2
      <4> QED BY <2>1, <4>1
    <3> QED BY <3>1, <3>2
  <2> HIDE DEF h
  <2> QED BY <2>3, <2>4
<1>3. N \in Runs
  <2> HIDE DEF Runs
  <2> QED BY <1>1, <1>2, RangeInduction
<1> QED BY <1>3 DEF Turns

-----------------------------------------------------------------------------
\* The loop of parse.

\* What the loop's variables hold when the line has characters from C.
States(C) ==
  [ prev : C \cup {Nul}, quote : Quotes \cup {Nul}, argv : Seq(Seq(C)), word : Seq(C), ptr : Nat ]

LEMMA SplitType ==
  ASSUME NEW c1, NEW c2, NEW quote \in Quotes \cup {Nul}
  PROVE  split(c1, c2, quote) \in [new : BOOLEAN, save : BOOLEAN, quote : Quotes \cup {Nul}]
BY DEF split, Quotes, Space, Angles

LEMMA StateFields ==
  ASSUME NEW C, NEW s \in States(C)
  PROVE  /\ s.quote \in Quotes \cup {Nul} /\ s.argv \in Seq(Seq(C)) /\ s.word \in Seq(C)
         /\ s.ptr \in Nat /\ Len(s.argv) \in Nat
<1>1. s.quote \in Quotes \cup {Nul} /\ s.argv \in Seq(Seq(C)) /\ s.word \in Seq(C) /\ s.ptr \in Nat
  BY DEF States
<1> QED BY <1>1, LenProperties

LEMMA AppendWord ==
  ASSUME NEW C, NEW words_ \in Seq(Seq(C)), NEW w \in Seq(C)
  PROVE  /\ Append(words_, w) \in Seq(Seq(C)) /\ Len(Append(words_, w)) = Len(words_) + 1
         /\ Len(words_) \in Nat
<1> DEFINE T == Seq(C)
<1>1. words_ \in Seq(T) /\ w \in T
  OBVIOUS
<1> HIDE DEF T
<1>2. /\ Append(words_, w) \in Seq(T) /\ Len(Append(words_, w)) = Len(words_) + 1
      /\ Len(words_) \in Nat
  BY <1>1
<1> QED BY <1>2 DEF T

LEMMA StateOf ==
  ASSUME NEW C, NEW p \in C \cup {Nul}, NEW q \in Quotes \cup {Nul}, NEW words_ \in Seq(Seq(C)),
         NEW w \in Seq(C), NEW n \in Nat
  PROVE  [prev |-> p, quote |-> q, argv |-> words_, word |-> w, ptr |-> n] \in States(C)
BY DEF States

\* A turn closes one word at most, and writes two bytes at most.
LEMMA ReadType ==
  ASSUME NEW C, NEW s \in States(C), NEW c \in C
  PROVE  /\ Read(s, c) \in States(C)
         /\ Len(Read(s, c).argv) <= Len(s.argv) + 1
         /\ Read(s, c).ptr <= s.ptr + 2
<1> DEFINE val == split(s.prev, c, s.quote)
<1>1. /\ s.quote \in Quotes \cup {Nul} /\ s.argv \in Seq(Seq(C)) /\ s.word \in Seq(C)
      /\ s.ptr \in Nat /\ Len(s.argv) \in Nat
  BY StateFields
<1>2. val \in [new : BOOLEAN, save : BOOLEAN, quote : Quotes \cup {Nul}]
  BY <1>1, SplitType
<1> HIDE DEF val
<1>3. Read(s, c) =
        [ prev  |-> c, quote |-> val.quote,
          argv  |-> IF val.new THEN Append(s.argv, s.word) ELSE s.argv,
          word  |-> (IF val.new THEN <<>> ELSE s.word) \o (IF val.save THEN <<c>> ELSE <<>>),
          ptr   |-> s.ptr + (IF val.new THEN 1 ELSE 0) + (IF val.save THEN 1 ELSE 0) ]
  BY DEF Read, val
<1>4. Append(s.argv, s.word) \in Seq(Seq(C)) /\ Len(Append(s.argv, s.word)) = Len(s.argv) + 1
  BY <1>1, AppendWord
<1> DEFINE w == (IF val.new THEN <<>> ELSE s.word) \o (IF val.save THEN <<c>> ELSE <<>>)
           argv_ == IF val.new THEN Append(s.argv, s.word) ELSE s.argv
           ptr_ == s.ptr + (IF val.new THEN 1 ELSE 0) + (IF val.save THEN 1 ELSE 0)
<1>5. w \in Seq(C)
  <2>1. (IF val.new THEN <<>> ELSE s.word) \in Seq(C) /\ (IF val.save THEN <<c>> ELSE <<>>) \in Seq(C)
    <3>1. <<>> \in Seq(C) /\ <<c>> \in Seq(C)
      OBVIOUS
    <3> QED BY <1>1, <3>1
  <2> QED BY <2>1, ConcatProperties
<1>6. argv_ \in Seq(Seq(C)) /\ Len(argv_) <= Len(s.argv) + 1
  BY <1>1, <1>4
<1>7. ptr_ \in Nat /\ ptr_ <= s.ptr + 2
  BY <1>1
<1>8. Read(s, c) = [prev |-> c, quote |-> val.quote, argv |-> argv_, word |-> w, ptr |-> ptr_]
  BY <1>3
<1> HIDE DEF w, argv_, ptr_
<1>9. Read(s, c) \in States(C)
  BY <1>2, <1>5, <1>6, <1>7, <1>8, StateOf
<1>10. Read(s, c).argv = argv_ /\ Read(s, c).ptr = ptr_
  BY <1>8
<1> QED BY <1>6, <1>7, <1>9, <1>10

\* The states of the loop, one for each turn.
IsRun(g, line_, a, b) ==
  /\ g[0] = Start
  /\ \A n \in 1 .. Len(line_) :
       g[n] = IF Full(g[n - 1], a, b) THEN g[n - 1] ELSE Read(g[n - 1], line_[n])

LEMMA LoopRuns ==
  ASSUME NEW C, NEW line_ \in Seq(C), NEW a, NEW b
  PROVE  \E g : /\ IsRun(g, line_, a, b) /\ LoopStates(line_, a, b) = g
                /\ Loop(line_, a, b) = g[Len(line_)]
<1> DEFINE N == Len(line_)
           Turn(s, n) == IF Full(s, a, b) THEN s ELSE Read(s, line_[n])
           step == [p \in (1 .. N) \X States(C) |-> Turn(p[2], p[1])]
           Body(g) == [n \in 0 .. N |-> IF n = 0 THEN Start ELSE Turn(g[n - 1], n)]
<1>1. N \in Nat /\ \A n \in 1 .. N : line_[n] \in C
  OBVIOUS
<1>2. Start \in States(C)
  BY EmptySeq DEF Start, States
<1>3. \A n \in 1 .. N, s \in States(C) : Turn(s, n) \in States(C)
  BY <1>1, ReadType
<1>4. LoopStates(line_, a, b) = CHOOSE g : g = Body(g)
  BY DEF LoopStates
<1>11. Loop(line_, a, b) = LoopStates(line_, a, b)[N]
  BY DEF Loop
<1> HIDE DEF N, Turn
<1>5. step \in [(1 .. N) \X States(C) -> States(C)]
  BY <1>3
<1>6. PICK g : Turns(g, N, States(C), Start, step)
  <2> HIDE DEF step
  <2> QED BY <1>1, <1>2, <1>5, Recursion
<1>7. \A n \in 1 .. N : g[n] = Turn(g[n - 1], n)
  <2> TAKE n \in 1 .. N
  <2>1. g[n - 1] \in States(C) /\ g[n] = step[<<n, g[n - 1]>>]
    <3>1. n - 1 \in 0 .. N
      BY <1>1
    <3> HIDE DEF step
    <3> QED BY <1>6, <3>1 DEF Turns
  <2> QED BY <2>1
<1>8. g = Body(g)
  BY <1>1, <1>6, <1>7 DEF Turns
<1>9. PICK f : f = Body(f) /\ LoopStates(line_, a, b) = f
  BY <1>4, <1>8
<1>10. f[0] = Start /\ \A n \in 1 .. N : f[n] = Turn(f[n - 1], n)
  BY <1>1, <1>9
<1> QED BY <1>9, <1>10, <1>11 DEF IsRun, N, Turn

\* The turns keep their variables' types and the bounds of the arrays.
Within(s, a, b) == Len(s.argv) <= a - 1 /\ s.ptr <= b

LEMMA RunBounds ==
  ASSUME NEW C, NEW line_ \in Seq(C), NEW a \in Nat \ {0}, NEW b \in Nat,
         NEW g, IsRun(g, line_, a, b)
  PROVE  \A n \in 0 .. Len(line_) : g[n] \in States(C) /\ Within(g[n], a, b)
<1>3. Len(line_) \in Nat
  OBVIOUS
<1> DEFINE T == {n \in 0 .. Len(line_) : g[n] \in States(C) /\ Within(g[n], a, b)}
<1>1. 0 \in T
  <2>1. Start \in States(C) /\ Within(Start, a, b)
    BY EmptySeq DEF Start, States, Within, Quotes
  <2> QED BY <1>3, <2>1 DEF IsRun
<1>2. ASSUME NEW n \in 1 .. Len(line_), n - 1 \in T PROVE n \in T
  <2> DEFINE s == g[n - 1]
  <2>1. s \in States(C) /\ Within(s, a, b) /\ Len(s.argv) \in Nat /\ s.ptr \in Nat /\ line_[n] \in C
    BY <1>2, StateFields, ElementOfSeq
  <2>2. g[n] = IF Full(s, a, b) THEN s ELSE Read(s, line_[n])
    BY DEF IsRun
  <2> HIDE DEF s
  <2>3. CASE Full(s, a, b)
    BY <1>3, <2>1, <2>2, <2>3
  <2>4. CASE ~Full(s, a, b)
    <3>1. s.ptr <= b - 2 /\ Len(s.argv) < a - 1
      BY <2>1, <2>4 DEF Full
    <3>2. /\ g[n] \in States(C) /\ Len(g[n].argv) <= Len(s.argv) + 1 /\ g[n].ptr <= s.ptr + 2
      BY <2>1, <2>2, <2>4, ReadType
    <3>3. Len(g[n].argv) \in Nat /\ g[n].ptr \in Nat
      BY <3>2, StateFields
    <3>4. Within(g[n], a, b)
      <4> DEFINE k == Len(s.argv)  k2 == Len(g[n].argv)  p == s.ptr  p2 == g[n].ptr
      <4>1. k \in Nat /\ k2 \in Nat /\ p \in Nat /\ p2 \in Nat
        BY <2>1, <3>3
      <4>2. k < a - 1 /\ k2 <= k + 1 /\ p <= b - 2 /\ p2 <= p + 2
        BY <3>1, <3>2
      <4> HIDE DEF k, k2, p, p2
      <4>3. k2 <= a - 1 /\ p2 <= b
        BY <4>1, <4>2
      <4> QED BY <4>3 DEF Within, k2, p2
    <3> QED BY <1>3, <3>2, <3>4
  <2> QED BY <2>3, <2>4
<1>4. 0 .. Len(line_) \subseteq T
  <2> HIDE DEF T
  <2> QED BY <1>1, <1>2, <1>3, RangeInduction
<1> QED BY <1>4

LEMMA ClosedType ==
  ASSUME NEW C, NEW s \in States(C)
  PROVE  /\ Closed(s) \in States(C)
         /\ Len(s.argv) <= Len(Closed(s).argv) /\ Len(Closed(s).argv) <= Len(s.argv) + 1
         /\ s.ptr <= Closed(s).ptr /\ Closed(s).ptr <= s.ptr + 1
<1>1. s.argv \in Seq(Seq(C)) /\ s.word \in Seq(C) /\ s.ptr \in Nat /\ Len(s.argv) \in Nat
  BY StateFields
<1>2. Append(s.argv, s.word) \in Seq(Seq(C)) /\ Len(Append(s.argv, s.word)) = Len(s.argv) + 1
  BY <1>1, AppendWord
<1>3. CASE s.word = <<>>
  BY <1>1, <1>3 DEF Closed
<1>4. CASE s.word # <<>>
  <2>1. Closed(s) = [s EXCEPT !.argv = Append(s.argv, s.word), !.ptr = s.ptr + 1]
    BY <1>4 DEF Closed
  <2>2. Closed(s).argv = Append(s.argv, s.word) /\ Closed(s).ptr = s.ptr + 1
    BY <2>1 DEF States
  <2>3. Closed(s) = [prev |-> s.prev, quote |-> s.quote, argv |-> Append(s.argv, s.word),
                     word |-> s.word, ptr |-> s.ptr + 1]
    BY <2>1 DEF States
  <2>4. Closed(s) \in States(C)
    <3>1. s.prev \in C \cup {Nul} /\ s.quote \in Quotes \cup {Nul} /\ s.ptr + 1 \in Nat
      BY <1>1 DEF States
    <3> DEFINE argv_ == Append(s.argv, s.word)
               ptr_ == s.ptr + 1
    <3>2. argv_ \in Seq(Seq(C)) /\ ptr_ \in Nat
      BY <1>1, <1>2
    <3>3. Closed(s) = [prev |-> s.prev, quote |-> s.quote, argv |-> argv_, word |-> s.word, ptr |-> ptr_]
      BY <2>3
    <3> HIDE DEF argv_, ptr_
    <3>4. [prev |-> s.prev, quote |-> s.quote, argv |-> argv_, word |-> s.word, ptr |-> ptr_] \in States(C)
      BY <1>1, <3>1, <3>2, StateOf
    <3> QED BY <3>3, <3>4
  <2> QED BY <1>1, <1>2, <2>2, <2>4
<1> QED BY <1>3, <1>4

\* parse's bounds: the closing NULL may be the pointer behind argv, the closing
\* zero the byte behind buf.
LEMMA ParseBounds ==
  ASSUME NEW C, NEW line_ \in Seq(C), NEW a \in Nat \ {0}, NEW b \in Nat
  PROVE  /\ parse(line_, a, b) \in States(C)
         /\ Len(parse(line_, a, b).argv) <= a /\ parse(line_, a, b).ptr <= b + 1
<1>1. PICK g : IsRun(g, line_, a, b) /\ Loop(line_, a, b) = g[Len(line_)]
  BY LoopRuns
<1> DEFINE s == Loop(line_, a, b)
<1>2. s \in States(C) /\ Within(s, a, b)
  BY <1>1, RunBounds
<1> HIDE DEF s
<1>3. parse(line_, a, b) = Closed(s)
  BY DEF parse, s
<1>4. Len(s.argv) \in Nat /\ s.ptr \in Nat
  BY <1>2, StateFields
<1>5. Closed(s) \in States(C) /\ Len(Closed(s).argv) <= Len(s.argv) + 1 /\ Closed(s).ptr <= s.ptr + 1
  BY <1>2, ClosedType
<1>6. Len(Closed(s).argv) \in Nat /\ Closed(s).ptr \in Nat
  BY <1>5, StateFields
<1> QED BY <1>2, <1>3, <1>4, <1>5, <1>6, SMTT(30) DEF Within

-----------------------------------------------------------------------------
\* Sequences.

LEMMA ConcatThree ==
  ASSUME NEW C, NEW s \in Seq(C), NEW t \in Seq(C), NEW u \in Seq(C)
  PROVE  s \o (t \o u) = (s \o t) \o u
BY ConcatAssociative, SMTT(30)

LEMMA SplitAt ==
  ASSUME NEW C, NEW s \in Seq(C), NEW m \in 0 .. Len(s)
  PROVE  SubSeq(s, 1, m) \o SubSeq(s, m + 1, Len(s)) = SubSeq(s, 1, Len(s))
<1>1. Len(s) \in Nat /\ 1 \in 1 .. Len(s) + 1 /\ m \in 1 - 1 .. Len(s) /\ Len(s) \in m .. Len(s)
  OBVIOUS
<1> QED BY <1>1, ConcatAdjacentSubSeq

LEMMA SequenceInduction ==
  ASSUME NEW C, NEW T, <<>> \in T, \A s \in Seq(C), c \in C : s \in T => Append(s, c) \in T
  PROVE  Seq(C) \subseteq T
<1> DEFINE L == {n \in Nat : \A s \in Seq(C) : Len(s) = n => s \in T}
<1>1. 0 \in L
  BY EmptySeq
<1>2. ASSUME NEW n \in Nat, n \in L PROVE n + 1 \in L
  <2>1. ASSUME NEW s \in Seq(C), Len(s) = n + 1 PROVE s \in T
    <3>1. s # <<>>
      BY <2>1
    <3>2. PICK u \in Seq(C), c \in C : s = Append(u, c)
      BY <3>1, SequenceEmptyOrAppend
    <3>3. Len(u) = n
      BY <2>1, <3>2
    <3> QED BY <1>2, <3>2, <3>3
  <2> QED BY <2>1
<1>3. Nat \subseteq L
  <2> HIDE DEF L
  <2> QED BY <1>1, <1>2, SetInduction
<1>4. \A s \in Seq(C) : Len(s) \in Nat
  OBVIOUS
<1> QED BY <1>3, <1>4

\* The characters of a sequence that are neither space nor quote, in turns.
Quiet == Quotes \cup {Space}
LoudTurns(h, s) ==
  /\ h[0] = <<>>
  /\ \A n \in 1 .. Len(s) : h[n] = IF s[n] \in Quiet THEN h[n - 1] ELSE Append(h[n - 1], s[n])

LEMMA LoudRuns ==
  ASSUME NEW C, NEW s \in Seq(C)
  PROVE  /\ \E h : LoudTurns(h, s) /\ Loud(s) = h[Len(s)]
         /\ Loud(s) \in Seq(C)
<1> DEFINE N == Len(s)
           Turn(v, n) == IF s[n] \in Quiet THEN v ELSE Append(v, s[n])
           step == [p \in (1 .. N) \X Seq(C) |-> Turn(p[2], p[1])]
           Body(g) == [n \in 0 .. N |-> IF n = 0 THEN <<>> ELSE Turn(g[n - 1], n)]
<1>1. N \in Nat /\ \A n \in 1 .. N : s[n] \in C
  OBVIOUS
<1>2. <<>> \in Seq(C)
  OBVIOUS
<1>3. \A n \in 1 .. N, v \in Seq(C) : Turn(v, n) \in Seq(C)
  BY <1>1
<1>4. Loud(s) = (CHOOSE g : g = Body(g))[N]
  BY DEF Loud, Quiet
<1> HIDE DEF N, Turn
<1>5. step \in [(1 .. N) \X Seq(C) -> Seq(C)]
  BY <1>3
<1>6. PICK g : Turns(g, N, Seq(C), <<>>, step)
  <2> HIDE DEF step
  <2> QED BY <1>1, <1>2, <1>5, Recursion
<1>7. \A n \in 1 .. N : g[n] = Turn(g[n - 1], n)
  <2> TAKE n \in 1 .. N
  <2>1. g[n - 1] \in Seq(C) /\ g[n] = step[<<n, g[n - 1]>>]
    <3>1. n - 1 \in 0 .. N
      BY <1>1
    <3> HIDE DEF step
    <3> QED BY <1>6, <3>1 DEF Turns
  <2> QED BY <2>1
<1>8. g = Body(g)
  BY <1>1, <1>6, <1>7 DEF Turns
<1>9. PICK h : h = Body(h) /\ Loud(s) = h[N]
  BY <1>4, <1>8
<1>10. h[0] = <<>> /\ \A n \in 1 .. N : h[n] = Turn(h[n - 1], n)
  BY <1>1, <1>9
<1>11. 0 .. N \subseteq {n \in 0 .. N : h[n] \in Seq(C)}
  <2> DEFINE T == {n \in 0 .. N : h[n] \in Seq(C)}
  <2>1. 0 \in T
    <3>1. h[0] \in Seq(C) /\ 0 \in 0 .. N
      BY <1>1, <1>2, <1>10
    <3> QED BY <3>1
  <2>2. ASSUME NEW n \in 1 .. N, n - 1 \in T PROVE n \in T
    BY <1>1, <1>3, <1>10, <2>2
  <2>3. 0 .. N \subseteq T
    <3> HIDE DEF T
    <3> QED BY <1>1, <2>1, <2>2, RangeInduction
  <2> QED BY <2>3
<1>12. N \in 0 .. N
  BY <1>1
<1>13. Loud(s) \in Seq(C)
  BY <1>9, <1>11, <1>12
<1> QED BY <1>9, <1>10, <1>13 DEF LoudTurns, N, Turn

LEMMA LoudEmpty == Loud(<<>>) = <<>>
<1>1. <<>> \in Seq({}) /\ Len(<<>>) = 0
  OBVIOUS
<1>2. PICK h : LoudTurns(h, <<>>) /\ Loud(<<>>) = h[0]
  BY <1>1, LoudRuns
<1> QED BY <1>2 DEF LoudTurns

LEMMA LoudAppend ==
  ASSUME NEW C, NEW s \in Seq(C), NEW c \in C
  PROVE  Loud(Append(s, c)) = IF c \in Quiet THEN Loud(s) ELSE Append(Loud(s), c)
<1> DEFINE t == Append(s, c)  N == Len(s)
<1>1. /\ t \in Seq(C) /\ Len(t) = N + 1 /\ N \in Nat
      /\ \A n \in 1 .. N : t[n] = s[n]
      /\ t[N + 1] = c
  OBVIOUS
<1> HIDE DEF t
<1>2. PICK h : LoudTurns(h, s) /\ Loud(s) = h[N]
  BY LoudRuns
<1>3. PICK k : LoudTurns(k, t) /\ Loud(t) = k[N + 1]
  BY <1>1, LoudRuns
<1>4. 0 .. N \subseteq {n \in 0 .. N : k[n] = h[n]}
  <2> DEFINE T == {n \in 0 .. N : k[n] = h[n]}
  <2>1. 0 \in T
    BY <1>1, <1>2, <1>3 DEF LoudTurns
  <2>2. ASSUME NEW n \in 1 .. N, n - 1 \in T PROVE n \in T
    <3>1. n \in 1 .. N + 1 /\ n \in 0 .. N /\ t[n] = s[n] /\ k[n - 1] = h[n - 1]
      BY <1>1, <2>2
    <3>2. h[n] = IF s[n] \in Quiet THEN h[n - 1] ELSE Append(h[n - 1], s[n])
      BY <1>2 DEF LoudTurns
    <3>3. k[n] = IF t[n] \in Quiet THEN k[n - 1] ELSE Append(k[n - 1], t[n])
      BY <1>1, <1>3, <3>1 DEF LoudTurns
    <3> QED BY <3>1, <3>2, <3>3
  <2>3. 0 .. N \subseteq T
    <3> HIDE DEF T
    <3> QED BY <1>1, <2>1, <2>2, RangeInduction
  <2> QED BY <2>3
<1>5. k[N] = h[N] /\ N + 1 \in 1 .. N + 1 /\ (N + 1) - 1 = N
  BY <1>1, <1>4
<1>6. k[N + 1] = IF c \in Quiet THEN k[N] ELSE Append(k[N], c)
  <2>1. k[N + 1] = IF t[N + 1] \in Quiet THEN k[(N + 1) - 1] ELSE Append(k[(N + 1) - 1], t[N + 1])
    BY <1>1, <1>3, <1>5 DEF LoudTurns
  <2> QED BY <1>1, <1>5, <2>1
<1> QED BY <1>2, <1>3, <1>5, <1>6 DEF t

LEMMA LoudConcat ==
  ASSUME NEW C, NEW s \in Seq(C), NEW t \in Seq(C)
  PROVE  Loud(s \o t) = Loud(s) \o Loud(t)
<1> DEFINE T == {u \in Seq(C) : Loud(s \o u) = Loud(s) \o Loud(u)}
<1>1. <<>> \in T
  <2>1. Loud(s) \in Seq(C) /\ <<>> \in Seq(C)
    BY LoudRuns
  <2>2. s \o <<>> = s /\ Loud(s) \o <<>> = Loud(s)
    BY <2>1
  <2> QED BY <2>1, <2>2, LoudEmpty
<1>2. ASSUME NEW u \in Seq(C), NEW c \in C, u \in T PROVE Append(u, c) \in T
  <2>1. /\ s \o u \in Seq(C) /\ Append(u, c) \in Seq(C)
        /\ s \o Append(u, c) = Append(s \o u, c)
    OBVIOUS
  <2>2. Loud(s) \in Seq(C) /\ Loud(u) \in Seq(C)
    BY LoudRuns
  <2>3. Loud(s) \o Append(Loud(u), c) = Append(Loud(s) \o Loud(u), c)
    BY <2>2
  <2>4. /\ Loud(Append(s \o u, c)) = IF c \in Quiet THEN Loud(s \o u) ELSE Append(Loud(s \o u), c)
        /\ Loud(Append(u, c)) = IF c \in Quiet THEN Loud(u) ELSE Append(Loud(u), c)
    BY <2>1, LoudAppend
  <2> QED BY <1>2, <2>1, <2>3, <2>4
<1>3. Seq(C) \subseteq T
  <2> HIDE DEF T
  <2> QED BY <1>1, <1>2, SequenceInduction
<1> QED BY <1>3

\* The sequences of a sequence one after the other, in turns.
FlatTurns(h, ss) == h[0] = <<>> /\ \A n \in 1 .. Len(ss) : h[n] = h[n - 1] \o ss[n]

LEMMA FlattenRuns ==
  ASSUME NEW C, NEW ss \in Seq(Seq(C))
  PROVE  /\ \E h : FlatTurns(h, ss) /\ FlattenSeq(ss) = h[Len(ss)]
         /\ FlattenSeq(ss) \in Seq(C)
<1> DEFINE N == Len(ss)  S == Seq(C)
           step == [p \in (1 .. N) \X S |-> p[2] \o ss[p[1]]]
           Body(f) == [n \in 1 .. N |-> IF n = 1 THEN ss[n] ELSE f[n - 1] \o ss[n]]
<1>1. N \in Nat /\ \A n \in 1 .. N : ss[n] \in S
  BY LenProperties, ElementOfSeq
<1>2. <<>> \in S /\ (\A u, v \in S : u \o v \in S) /\ \A v \in S : <<>> \o v = v
  OBVIOUS
<1>3. FlattenSeq(ss) = IF N = 0 THEN ss ELSE (CHOOSE f : f = Body(f))[N]
  BY DEF FlattenSeq
<1>4. N = 0 => ss = <<>>
  BY EmptySeq
<1> HIDE DEF N, S
<1>5. step \in [(1 .. N) \X S -> S]
  BY <1>1, <1>2
<1>6. PICK g : Turns(g, N, S, <<>>, step)
  <2> HIDE DEF step
  <2> QED BY <1>1, <1>2, <1>5, Recursion
<1>7. g[0] = <<>> /\ (\A n \in 0 .. N : g[n] \in S) /\ \A n \in 1 .. N : g[n] = g[n - 1] \o ss[n]
  <2>1. g[0] = <<>> /\ \A n \in 0 .. N : g[n] \in S
    BY <1>6 DEF Turns
  <2>2. ASSUME NEW n \in 1 .. N PROVE g[n] = g[n - 1] \o ss[n]
    <3>1. n - 1 \in 0 .. N
      BY <1>1
    <3>2. g[n - 1] \in S /\ g[n] = step[<<n, g[n - 1]>>]
      <4> HIDE DEF step
      <4> QED BY <1>6, <2>1, <3>1 DEF Turns
    <3> QED BY <3>2
  <2> QED BY <2>1, <2>2
<1>8. ASSUME N # 0 PROVE (CHOOSE f : f = Body(f))[N] = g[N]
  <2> DEFINE b == [n \in 1 .. N |-> g[n]]
  <2>1. ASSUME NEW n \in 1 .. N PROVE b[n] = IF n = 1 THEN ss[n] ELSE b[n - 1] \o ss[n]
    <3>1. CASE n = 1
      <4>1. g[1] = <<>> \o ss[1]
        <5>1. 1 \in 1 .. N /\ 1 - 1 = 0
          BY <3>1
        <5>2. g[1] = g[1 - 1] \o ss[1]
          BY <1>7, <5>1
        <5> QED BY <1>7, <5>1, <5>2
      <4> QED BY <1>1, <1>2, <3>1, <4>1
    <3>2. CASE n # 1
      <4>1. n - 1 \in 1 .. N /\ b[n - 1] = g[n - 1] /\ b[n] = g[n]
        BY <1>1, <3>2
      <4> HIDE DEF b
      <4> QED BY <1>7, <3>2, <4>1
    <3> QED BY <3>1, <3>2
  <2>2. b = Body(b)
    <3>1. b = [n \in 1 .. N |-> b[n]]
      OBVIOUS
    <3> HIDE DEF b
    <3> QED BY <2>1, <3>1
  <2>3. PICK f : f = Body(f) /\ f = CHOOSE x : x = Body(x)
    <3> HIDE DEF b
    <3> QED BY <2>2
  <2>4. \A n \in 1 .. N : f[n] = IF n = 1 THEN ss[n] ELSE f[n - 1] \o ss[n]
    BY <2>3
  <2> DEFINE T == {n \in 0 .. N : n = 0 \/ f[n] = g[n]}
  <2>5. 0 \in T
    BY <1>1
  <2>6. ASSUME NEW n \in 1 .. N, n - 1 \in T PROVE n \in T
    <3>1. CASE n = 1
      <4>1. g[1] = <<>> \o ss[1] /\ f[1] = ss[1]
        <5>1. 1 \in 1 .. N /\ 1 - 1 = 0
          BY <3>1
        <5>2. g[1] = g[1 - 1] \o ss[1]
          BY <1>7, <5>1
        <5> QED BY <1>7, <2>4, <5>1, <5>2
      <4> QED BY <1>1, <1>2, <3>1, <4>1
    <3>2. CASE n # 1
      <4>1. f[n - 1] = g[n - 1] /\ n \in 0 .. N
        BY <1>1, <2>6, <3>2
      <4> QED BY <1>7, <2>4, <3>2, <4>1
    <3> QED BY <3>1, <3>2
  <2>7. 0 .. N \subseteq T
    <3> HIDE DEF T
    <3> QED BY <1>1, <2>5, <2>6, RangeInduction
  <2>8. N \in 0 .. N
    BY <1>1
  <2> QED BY <1>8, <2>3, <2>7, <2>8
<1>9. FlattenSeq(ss) = g[N]
  BY <1>3, <1>4, <1>7, <1>8
<1>10. g[N] \in S
  BY <1>1, <1>7
<1>11. FlatTurns(g, ss)
  BY <1>7 DEF FlatTurns, N
<1> QED BY <1>9, <1>10, <1>11 DEF N, S

LEMMA FlattenEmpty == FlattenSeq(<<>>) = <<>>
BY DEF FlattenSeq

LEMMA FlattenAppend ==
  ASSUME NEW C, NEW ss \in Seq(Seq(C)), NEW s \in Seq(C)
  PROVE  FlattenSeq(Append(ss, s)) = FlattenSeq(ss) \o s
<1> DEFINE tt == Append(ss, s)  N == Len(ss)  S == Seq(C)
<1>1. ss \in Seq(S) /\ s \in S
  OBVIOUS
<1>2. /\ tt \in Seq(S) /\ Len(tt) = N + 1 /\ N \in Nat
      /\ \A n \in 1 .. N : tt[n] = ss[n]
      /\ tt[N + 1] = s
  <2> HIDE DEF S
  <2> QED BY <1>1
<1> HIDE DEF tt, S, N
<1>3. PICK h : FlatTurns(h, ss) /\ FlattenSeq(ss) = h[N]
  BY <1>1, FlattenRuns DEF S, N
<1>4. PICK k : FlatTurns(k, tt) /\ FlattenSeq(tt) = k[N + 1]
  BY <1>2, FlattenRuns DEF S
<1> DEFINE T == {n \in 0 .. N : k[n] = h[n]}
<1>5. 0 \in T
  BY <1>2, <1>3, <1>4 DEF FlatTurns
<1>6. ASSUME NEW n \in 1 .. N, n - 1 \in T PROVE n \in T
  <2>1. n \in 1 .. N + 1 /\ n \in 0 .. N /\ tt[n] = ss[n] /\ k[n - 1] = h[n - 1]
    BY <1>2, <1>6
  <2>2. h[n] = h[n - 1] \o ss[n]
    BY <1>3 DEF FlatTurns, N
  <2>3. k[n] = k[n - 1] \o tt[n]
    BY <1>2, <1>4, <2>1 DEF FlatTurns
  <2> QED BY <2>1, <2>2, <2>3
<1>7. 0 .. N \subseteq T
  <2> HIDE DEF T
  <2> QED BY <1>2, <1>5, <1>6, RangeInduction
<1>8. k[N] = h[N] /\ N + 1 \in 1 .. N + 1 /\ (N + 1) - 1 = N
  BY <1>2, <1>7
<1>9. k[N + 1] = k[(N + 1) - 1] \o tt[N + 1]
  BY <1>2, <1>4, <1>8 DEF FlatTurns
<1> QED BY <1>2, <1>3, <1>4, <1>8, <1>9 DEF tt

-----------------------------------------------------------------------------
\* The characters of a line.

\* The characters read that are neither space nor quote.
Kept(s) == Loud(FlattenSeq(s.argv)) \o Loud(s.word)

\* split drops spaces and quotes only.
LEMMA SplitSaves ==
  ASSUME NEW c1, NEW c2, NEW quote \in Quotes \cup {Nul}, ~split(c1, c2, quote).save
  PROVE  c2 \in Quiet
BY DEF split, Quiet, Quotes, Space, Angles

LEMMA ReadKept ==
  ASSUME NEW C, NEW s \in States(C), NEW c \in C
  PROVE  Kept(Read(s, c)) = IF c \in Quiet THEN Kept(s) ELSE Append(Kept(s), c)
<1> DEFINE val == split(s.prev, c, s.quote)
           base == IF val.new THEN <<>> ELSE s.word
           tail == IF val.save THEN <<c>> ELSE <<>>
           r == Read(s, c)
           F == FlattenSeq(s.argv)
<1>1. s.quote \in Quotes \cup {Nul} /\ s.argv \in Seq(Seq(C)) /\ s.word \in Seq(C)
  BY StateFields
<1>2. /\ val \in [new : BOOLEAN, save : BOOLEAN, quote : Quotes \cup {Nul}]
      /\ ~val.save => c \in Quiet
  BY <1>1, SplitType, SplitSaves
<1> HIDE DEF val
<1>3. r.argv = (IF val.new THEN Append(s.argv, s.word) ELSE s.argv) /\ r.word = base \o tail
  BY DEF Read, val
<1>4. F \in Seq(C) /\ FlattenSeq(Append(s.argv, s.word)) = F \o s.word
  BY <1>1, FlattenRuns, FlattenAppend
<1>5. base \in Seq(C) /\ tail \in Seq(C)
  <2>1. <<>> \in Seq(C) /\ <<c>> \in Seq(C)
    OBVIOUS
  <2> QED BY <1>1, <2>1
<1>6. Loud(tail) = IF c \in Quiet THEN <<>> ELSE <<c>>
  <2>1. <<>> \in Seq(C) /\ <<c>> = Append(<<>>, c)
    OBVIOUS
  <2>2. Loud(<<c>>) = IF c \in Quiet THEN <<>> ELSE <<c>>
    BY <2>1, LoudAppend, LoudEmpty
  <2> QED BY <1>2, <2>2, LoudEmpty
<1>7. Loud(r.word) = Loud(base) \o Loud(tail)
  BY <1>3, <1>5, LoudConcat
<1>8. Loud(F) \in Seq(C) /\ Loud(s.word) \in Seq(C)
  BY <1>1, <1>4, LoudRuns
<1> HIDE DEF r, tail
<1>9. Loud(FlattenSeq(r.argv)) \o Loud(base) = Kept(s)
  <2>1. CASE val.new
    <3>1. Loud(FlattenSeq(r.argv)) = Kept(s) /\ Kept(s) \in Seq(C)
      <4>1. FlattenSeq(r.argv) = F \o s.word
        BY <1>3, <1>4, <2>1
      <4> HIDE DEF F
      <4>2. Loud(F \o s.word) = Loud(F) \o Loud(s.word)
        BY <1>1, <1>4, LoudConcat
      <4>3. Loud(F) \o Loud(s.word) \in Seq(C)
        BY <1>8
      <4> QED BY <4>1, <4>2, <4>3 DEF Kept, F
    <3> QED BY <2>1, <3>1, LoudEmpty, ConcatEmptySeq
  <2>2. CASE ~val.new
    BY <1>3, <2>2 DEF Kept
  <2> QED BY <2>1, <2>2
<1>10. /\ Kept(s) \in Seq(C) /\ Loud(FlattenSeq(r.argv)) \in Seq(C)
       /\ Loud(base) \in Seq(C) /\ Loud(tail) \in Seq(C)
  <2>1. r.argv \in Seq(Seq(C))
    <3>1. r \in States(C)
      BY ReadType DEF r
    <3> QED BY <3>1, StateFields
  <2>2. FlattenSeq(r.argv) \in Seq(C)
    BY <2>1, FlattenRuns
  <2> QED BY <1>5, <1>8, <2>2, LoudRuns, ConcatProperties DEF Kept
<1>11. Kept(r) = Kept(s) \o Loud(tail)
  <2> DEFINE x == Loud(FlattenSeq(r.argv))  y == Loud(base)  z == Loud(tail)
  <2>1. Kept(r) = x \o (y \o z)
    BY <1>7 DEF Kept
  <2>2. x \in Seq(C) /\ y \in Seq(C) /\ z \in Seq(C)
    BY <1>10
  <2>4. x \o y = Kept(s)
    BY <1>9
  <2> HIDE DEF x, y, z
  <2>3. x \o (y \o z) = (x \o y) \o z
    BY <2>2, ConcatThree
  <2> QED BY <2>1, <2>3, <2>4 DEF z
<1>12. CASE c \in Quiet
  BY <1>6, <1>10, <1>11, <1>12, ConcatEmptySeq DEF r
<1>13. CASE c \notin Quiet
  BY <1>6, <1>10, <1>11, <1>13, AppendIsConcat DEF r
<1> QED BY <1>12, <1>13

\* What the loop has kept is what it has read; it stops only when a limit is
\* reached before the next character.
LEMMA RunKept ==
  ASSUME NEW C, NEW line_ \in Seq(C), NEW a \in Nat \ {0}, NEW b \in Nat,
         NEW g, IsRun(g, line_, a, b)
  PROVE  \A n \in 0 .. Len(line_) : \E m \in 0 .. n :
           /\ Kept(g[n]) = Loud(SubSeq(line_, 1, m))
           /\ m = n \/ (n > 0 /\ Full(g[n - 1], a, b))
<1> DEFINE N == Len(line_)
           OK(n, m) == /\ Kept(g[n]) = Loud(SubSeq(line_, 1, m))
                       /\ m = n \/ (n > 0 /\ Full(g[n - 1], a, b))
           T == {n \in 0 .. N : \E m \in 0 .. n : OK(n, m)}
<1>1. N \in Nat
  OBVIOUS
<1>2. 0 \in T
  <2>1. SubSeq(line_, 1, 0) = <<>>
    BY SubSeqEmpty
  <2>2. Kept(Start) = <<>>
    BY FlattenEmpty, LoudEmpty, ConcatEmptySeq, EmptySeq DEF Kept, Start
  <2>3. OK(0, 0)
    BY <2>1, <2>2, LoudEmpty DEF IsRun
  <2> HIDE DEF OK
  <2> QED BY <1>1, <2>3
<1>3. ASSUME NEW n \in 1 .. N, n - 1 \in T PROVE n \in T
  <2>1. PICK m \in 0 .. n - 1 : OK(n - 1, m)
    BY <1>3
  <2>2. g[n] = IF Full(g[n - 1], a, b) THEN g[n - 1] ELSE Read(g[n - 1], line_[n])
    BY DEF IsRun
  <2>3. CASE Full(g[n - 1], a, b)
    <3>1. OK(n, m)
      BY <2>1, <2>2, <2>3
    <3>2. m \in 0 .. n /\ n \in 0 .. N
      BY <1>1
    <3> HIDE DEF OK
    <3> QED BY <3>1, <3>2
  <2>4. CASE ~Full(g[n - 1], a, b)
    <3> DEFINE u == SubSeq(line_, 1, n - 1)  c == line_[n]
    <3>7. m = n - 1
      <4>1. SUFFICES ASSUME n - 1 > 0, Full(g[(n - 1) - 1], a, b) PROVE FALSE
        BY <2>1
      <4>2. g[n - 1] = IF Full(g[(n - 1) - 1], a, b) THEN g[(n - 1) - 1] ELSE Read(g[(n - 1) - 1], line_[n - 1])
        BY <1>1, <4>1 DEF IsRun
      <4> QED BY <2>4, <4>1, <4>2
    <3>1. Kept(g[n - 1]) = Loud(u)
      BY <2>1, <3>7
    <3>2. u \in Seq(C) /\ c \in C /\ SubSeq(line_, 1, n) = Append(u, c)
      OBVIOUS
    <3>3. g[n - 1] \in States(C)
      <4>1. n - 1 \in 0 .. N
        BY <1>1
      <4> QED BY <4>1, RunBounds
    <3> HIDE DEF u, c
    <3>4. Kept(Read(g[n - 1], c)) = IF c \in Quiet THEN Loud(u) ELSE Append(Loud(u), c)
      BY <3>1, <3>2, <3>3, ReadKept
    <3>5. Kept(g[n]) = Loud(SubSeq(line_, 1, n))
      BY <2>2, <2>4, <3>2, <3>4, LoudAppend DEF c
    <3>6. OK(n, n) /\ n \in 0 .. n /\ n \in 0 .. N
      BY <1>1, <3>5
    <3> HIDE DEF OK
    <3> QED BY <3>6
  <2> QED BY <2>3, <2>4
<1>4. 0 .. N \subseteq T
  <2> HIDE DEF T
  <2> QED BY <1>1, <1>2, <1>3, RangeInduction
<1> QED BY <1>4

LEMMA PrefixOfConcat ==
  ASSUME NEW C, NEW s \in Seq(C), NEW t \in Seq(C)
  PROVE  IsPrefix(s, s \o t)
BY DEF IsPrefix

\* The tokens hold the line's characters, in their order, up to where a limit
\* cut it off.
LEMMA ParseKeeps ==
  ASSUME NEW C, NEW line_ \in Seq(C), NEW a \in Nat \ {0}, NEW b \in Nat
  PROVE  LET p == parse(line_, a, b)
             kept == Loud(FlattenSeq(p.argv))
             states == LoopStates(line_, a, b)
             cut == line_ # <<>> /\ Full(states[Len(line_) - 1], a, b)
         IN IsPrefix(kept, Loud(line_)) /\ (cut \/ kept = Loud(line_))
<1>1. PICK g : IsRun(g, line_, a, b) /\ LoopStates(line_, a, b) = g /\ Loop(line_, a, b) = g[Len(line_)]
  BY LoopRuns
<1> DEFINE N == Len(line_)  s == g[N]  p == Closed(s)
<1>2. N \in Nat /\ N \in 0 .. N
  OBVIOUS
<1>3. s \in States(C)
  BY <1>1, <1>2, RunBounds
<1>4. PICK m \in 0 .. N : Kept(s) = Loud(SubSeq(line_, 1, m)) /\ (m = N \/ (N > 0 /\ Full(g[N - 1], a, b)))
  BY <1>1, <1>2, RunKept
<1>5. parse(line_, a, b) = p
  BY <1>1 DEF parse
<1> HIDE DEF s
<1>6. s.argv \in Seq(Seq(C)) /\ s.word \in Seq(C) /\ s.ptr \in Nat /\ Len(s.argv) \in Nat
  BY <1>3, StateFields
<1>7. Loud(FlattenSeq(p.argv)) = Kept(s)
  <2>1. FlattenSeq(s.argv) \in Seq(C)
    BY <1>6, FlattenRuns
  <2>2. CASE s.word = <<>>
    <3>1. Loud(FlattenSeq(s.argv)) \in Seq(C)
      BY <2>1, LoudRuns
    <3> QED BY <2>2, <3>1, LoudEmpty, ConcatEmptySeq DEF Closed, Kept
  <2>3. CASE s.word # <<>>
    <3>1. p.argv = Append(s.argv, s.word)
      BY <1>3, <2>3 DEF Closed, States
    <3>2. FlattenSeq(p.argv) = FlattenSeq(s.argv) \o s.word
      BY <1>6, <3>1, FlattenAppend
    <3> QED BY <1>6, <2>1, <3>2, LoudConcat DEF Kept
  <2> QED BY <2>2, <2>3
<1>8. N > 0 => line_ # <<>>
  BY EmptySeq
<1>9. IsPrefix(Kept(s), Loud(line_)) /\ (m = N => Kept(s) = Loud(line_))
  <2> DEFINE u == SubSeq(line_, 1, m)  v == SubSeq(line_, m + 1, N)
  <2>1. u \in Seq(C) /\ v \in Seq(C) /\ u \o v = line_
    <3>1. u \in Seq(C) /\ v \in Seq(C)
      OBVIOUS
    <3>2. u \o v = SubSeq(line_, 1, N)
      BY <1>2, SplitAt
    <3> QED BY <3>1, <3>2, SubSeqFull
  <2>2. m = N => u = line_
    BY <2>1, SubSeqFull
  <2> HIDE DEF u, v
  <2>3. Loud(line_) = Loud(u) \o Loud(v) /\ Loud(u) \in Seq(C) /\ Loud(v) \in Seq(C)
    BY <2>1, LoudConcat, LoudRuns
  <2>4. IsPrefix(Loud(u), Loud(line_))
    BY <2>3, PrefixOfConcat
  <2> QED BY <1>4, <2>2, <2>4 DEF u
<1>10. m = N \/ (line_ # <<>> /\ Full(LoopStates(line_, a, b)[N - 1], a, b))
  BY <1>1, <1>4, <1>8
<1> DEFINE kept == Loud(FlattenSeq(parse(line_, a, b).argv))
<1>11. kept = Kept(s)
  BY <1>5, <1>7
<1> HIDE DEF p, kept
<1>12. IsPrefix(kept, Loud(line_)) /\ (m = N => kept = Loud(line_))
  BY <1>9, <1>11
<1> QED BY <1>10, <1>12 DEF kept

-----------------------------------------------------------------------------
\* The specification.

Chars == {"a", "b", "|", "'", ">", "<", Space, DoubleQuote} \cup Characters

LEMMA ShortSequences ==
  ASSUME NEW C, NEW x \in C, NEW y \in C, NEW z \in C
  PROVE  <<>> \in Seq(C) /\ <<x>> \in Seq(C) /\ <<x, y>> \in Seq(C) /\ <<x, y, z>> \in Seq(C)
OBVIOUS

\* The line of a pipeline is a sequence of characters.
LEMMA SpelledType ==
  ASSUME NEW w \in Arguments \cup {"a", "a b"}
  PROVE  Spelled[w] \in Seq(Chars)
<1>1. Spelled[w] = IF w = "> a" THEN <<">", Space, "a">>
                   ELSE IF w = "a b" THEN <<"a", Space, "b">>
                   ELSE IF w = Quoting THEN <<"a", "|", "'">> ELSE <<w>>
  BY DEF Spelled
<1>2. "a" \in Chars /\ "b" \in Chars /\ "|" \in Chars /\ "'" \in Chars /\ ">" \in Chars /\ Space \in Chars
  BY DEF Chars
<1>3. CASE w = Quoting /\ w # "> a" /\ w # "a b"
  <2>1. <<"a", "|", "'">> \in Seq(Chars)
    BY <1>2, ShortSequences
  <2> QED BY <1>1, <1>3, <2>1
<1>4. CASE w = "> a"
  <2>1. <<">", Space, "a">> \in Seq(Chars)
    BY <1>2, ShortSequences
  <2> QED BY <1>1, <1>4, <2>1 DEF Quoting
<1>5. CASE w = "a b"
  <2>1. <<"a", Space, "b">> \in Seq(Chars)
    BY <1>2, ShortSequences
  <2> QED BY <1>1, <1>5, <2>1
<1>6. CASE w \notin {Quoting, "> a", "a b"}
  <2>1. w \in {"a", "b"}
    BY <1>6 DEF Arguments
  <2>2. w \in Chars
    BY <1>2, <2>1
  <2>3. <<w>> \in Seq(Chars)
    BY <2>2, ShortSequences
  <2> QED BY <1>1, <1>6, <2>3
<1> QED BY <1>3, <1>4, <1>5, <1>6

LEMMA PadType ==
  /\ Space \in Chars
  /\ <<>> \in Seq(Chars) /\ <<Space>> \in Seq(Chars) /\ <<"|">> \in Seq(Chars)
  /\ \A style \in Style : style.pad \in Seq(Chars)
<1>1. Space \in Chars /\ "|" \in Chars
  BY DEF Chars
<1>2. <<>> \in Seq(Chars) /\ <<Space>> \in Seq(Chars) /\ <<"|">> \in Seq(Chars)
  BY <1>1, ShortSequences
<1>3. ASSUME NEW style \in Style PROVE style.pad \in {<<>>, <<Space>>}
  BY DEF Style
<1> QED BY <1>1, <1>2, <1>3

LEMMA QuotedType ==
  ASSUME NEW style \in Style, NEW w \in Arguments \cup {"a", "a b"}
  PROVE  Quoted(w, style) \in Seq(Chars)
<1> DEFINE quote == IF w = Quoting THEN DoubleQuote ELSE style.quote
<1>1. quote \in Chars
  <2>1. style.quote \in Quotes
    BY DEF Style
  <2> QED BY <2>1 DEF Quotes, Chars
<1>2. Spelled[w] \in Seq(Chars)
  BY SpelledType
<1>3. Quoted(w, style) = IF Len(Spelled[w]) = 1 THEN Spelled[w] ELSE <<quote>> \o Spelled[w] \o <<quote>>
  BY DEF Quoted
<1> HIDE DEF quote
<1>4. <<quote>> \in Seq(Chars)
  BY <1>1, ShortSequences
<1>5. <<quote>> \o Spelled[w] \in Seq(Chars)
  BY <1>2, <1>4, ConcatProperties
<1>6. <<quote>> \o Spelled[w] \o <<quote>> \in Seq(Chars)
  BY <1>4, <1>5, ConcatProperties
<1> QED BY <1>2, <1>3, <1>6 DEF quote

LEMMA StageParts ==
  ASSUME NEW stage \in Stage
  PROVE  /\ \E k \in Nat : /\ DOMAIN stage.words = 1 .. k
                           /\ \A i \in 1 .. k : stage.words[i] \in Arguments \cup {"a", "a b"}
         /\ \E k \in Nat : /\ DOMAIN stage.redirs = 1 .. k
                           /\ \A i \in 1 .. k : stage.redirs[i] \in [op : Redirections, file : {"b", "a b"}]
<1>1. stage.words \in {<<"a">>} \cup {<<"a", w>> : w \in Arguments}
  BY DEF Stage
<1> DEFINE R == [op : Redirections, file : {"b", "a b"}]
           rs == stage.redirs
<1>2. PICK n \in 0 .. 2 : rs \in [1 .. n -> R]
  BY DEF Stage
<1> HIDE DEF R, rs
<1>3. DOMAIN rs = 1 .. n /\ \A k \in 1 .. n : rs[k] \in R
  BY <1>2
<1> DEFINE ws == stage.words
           W == Arguments \cup {"a", "a b"}
<1>4. "a" \in W /\ Arguments \subseteq W
  OBVIOUS
<1> HIDE DEF W
<1>5. ws \in Seq(W)
  <2>1. <<"a">> \in Seq(W)
    BY <1>4, ShortSequences
  <2>2. ASSUME NEW w \in Arguments PROVE <<"a", w>> \in Seq(W)
    BY <1>4, ShortSequences
  <2> QED BY <1>1, <2>1, <2>2
<1> HIDE DEF ws
<1>6. Len(ws) \in Nat /\ DOMAIN ws = 1 .. Len(ws) /\ \A i \in 1 .. Len(ws) : ws[i] \in W
  BY <1>5
<1>7. n \in Nat
  BY <1>2
<1>8. /\ \E k \in Nat : DOMAIN ws = 1 .. k /\ \A i \in 1 .. k : ws[i] \in W
      /\ \E k \in Nat : DOMAIN rs = 1 .. k /\ \A i \in 1 .. k : rs[i] \in R
  BY <1>3, <1>6, <1>7
<1> QED BY <1>8 DEF ws, W, rs, R

LEMMA WrittenType ==
  ASSUME NEW style \in Style, NEW stage \in Stage
  PROVE  Written(stage, style) \in Seq(Chars)
<1>1. PICK n \in Nat : DOMAIN stage.words = 1 .. n /\ \A i \in 1 .. n : stage.words[i] \in Arguments \cup {"a", "a b"}
  BY StageParts
<1>2. PICK m \in Nat : /\ DOMAIN stage.redirs = 1 .. m
                       /\ \A k \in 1 .. m : stage.redirs[k] \in [op : Redirections, file : {"b", "a b"}]
  BY StageParts
<1>3. style.pad \in Seq(Chars) /\ Space \in Chars
  BY PadType
<1> DEFINE ws == [i \in DOMAIN stage.words |->
                    (IF i = 1 THEN <<>> ELSE <<Space>>) \o Quoted(stage.words[i], style)]
           rs == [k \in DOMAIN stage.redirs |->
                    <<Space, stage.redirs[k].op>> \o style.pad \o Quoted(stage.redirs[k].file, style)]
<1>4. ws \in Seq(Seq(Chars))
  <2> DEFINE word(i) == (IF i = 1 THEN <<>> ELSE <<Space>>) \o Quoted(stage.words[i], style)
  <2>1. ASSUME NEW i \in 1 .. n
        PROVE  word(i) \in Seq(Chars)
    <3>1. Quoted(stage.words[i], style) \in Seq(Chars)
      BY <1>1, QuotedType
    <3>2. (IF i = 1 THEN <<>> ELSE <<Space>>) \in Seq(Chars)
      BY PadType
    <3> QED BY <3>1, <3>2, ConcatProperties
  <2>2. ws = [i \in 1 .. n |-> word(i)]
    BY <1>1
  <2> HIDE DEF word, ws
  <2>3. ws \in [1 .. n -> Seq(Chars)] /\ n \in Nat
    BY <1>1, <2>1, <2>2
  <2> QED BY <2>3
<1>5. rs \in Seq(Seq(Chars))
  <2> DEFINE redir(k) == <<Space, stage.redirs[k].op>> \o style.pad \o Quoted(stage.redirs[k].file, style)
  <2>1. ASSUME NEW k \in 1 .. m
        PROVE  redir(k) \in Seq(Chars)
    <3>1. stage.redirs[k].op \in Chars /\ stage.redirs[k].file \in Arguments \cup {"a", "a b"}
      <4>1. stage.redirs[k].op \in Redirections /\ stage.redirs[k].file \in {"b", "a b"}
        BY <1>2
      <4>2. Redirections \subseteq Chars
        BY DEF Redirections, Chars
      <4> QED BY <4>1, <4>2 DEF Arguments
    <3>2. Quoted(stage.redirs[k].file, style) \in Seq(Chars)
      BY <3>1, QuotedType
    <3>3. <<Space, stage.redirs[k].op>> \in Seq(Chars)
      BY <1>3, <3>1, ShortSequences
    <3> QED BY <1>3, <3>2, <3>3, ConcatProperties
  <2>2. rs = [k \in 1 .. m |-> redir(k)]
    BY <1>2
  <2> HIDE DEF redir, rs
  <2>3. rs \in [1 .. m -> Seq(Chars)] /\ m \in Nat
    BY <1>2, <2>1, <2>2
  <2> QED BY <2>3
<1>6. FlattenSeq(ws) \in Seq(Chars) /\ FlattenSeq(rs) \in Seq(Chars)
  <2> HIDE DEF ws, rs
  <2> QED BY <1>4, <1>5, FlattenRuns
<1> QED BY <1>6, ConcatProperties DEF Written

LEMMA LineType ==
  ASSUME NEW style \in Style, NEW stages \in Pipelines
  PROVE  Line(stages, style) \in Seq(Chars)
<1>1. PICK n \in 1 .. MaxStages : stages \in [1 .. n -> Stage]
  BY DEF Pipelines
<1> DEFINE part(k) ==
             (IF k = 1 THEN <<>>
              ELSE Ends(Written(stages[k - 1], style)) \o style.pad \o <<"|">> \o style.pad)
                \o Written(stages[k], style)
           ps == [k \in DOMAIN stages |-> part(k)]
<1>2. ASSUME NEW k \in 1 .. n PROVE part(k) \in Seq(Chars)
  <2>1. Written(stages[k], style) \in Seq(Chars)
    BY <1>1, WrittenType
  <2>2. Ends(Written(stages[k - 1], style)) \in Seq(Chars)
    BY PadType DEF Ends
  <2>3. style.pad \in Seq(Chars) /\ <<"|">> \in Seq(Chars) /\ <<>> \in Seq(Chars)
    BY PadType
  <2> DEFINE joint == Ends(Written(stages[k - 1], style)) \o style.pad \o <<"|">> \o style.pad
  <2>4. joint \in Seq(Chars)
    BY <2>2, <2>3, ConcatProperties
  <2> HIDE DEF joint
  <2>5. (IF k = 1 THEN <<>> ELSE joint) \in Seq(Chars)
    BY <2>3, <2>4
  <2> QED BY <2>1, <2>5, ConcatProperties DEF joint
<1>3. ps \in Seq(Seq(Chars))
  <2> HIDE DEF part
  <2>1. ps = [k \in 1 .. n |-> part(k)]
    BY <1>1
  <2>2. ps \in [1 .. n -> Seq(Chars)] /\ n \in Nat
    BY <1>2, <2>1
  <2> QED BY <2>2
<1>4. FlattenSeq(ps) \in Seq(Chars)
  <2> HIDE DEF ps
  <2> QED BY <1>3, FlattenRuns
<1> QED BY <1>4 DEF Line

\* parsed is what parse makes of the line.
LineInv ==
  /\ limits \in [argc_max : Nat \ {0, 1}, buf_len : Nat \ {0, 1}]
  /\ line \in Seq(Chars)
  /\ phase # "line" => \/ parsed = parse(line, limits.argc_max, limits.buf_len)
                       \/ parsed = Start /\ line = None

LEMMA LineInvInductive == Spec => []LineInv
<1>1. Init => LineInv
  <2> SUFFICES ASSUME Init PROVE LineInv
    OBVIOUS
  <2>1. Roomy \in [argc_max : Nat \ {0, 1}, buf_len : Nat \ {0, 1}]
    BY DEF Roomy
  <2>2. CASE InitLine
    <3>1. limits \in [argc_max : Nat \ {0, 1}, buf_len : Nat \ {0, 1}]
      BY <2>1, <2>2, LimitsOK DEF InitLine
    <3>2. line \in Seq(Chars)
      <4>1. CASE pipeline \in Pipelines /\ \E style \in Style : line = Line(pipeline, style)
        BY <4>1, LineType
      <4>2. CASE line \in UNION {[1 .. n -> Characters] : n \in 0 .. MaxLine}
        <5>1. PICK n \in 0 .. MaxLine : line \in [1 .. n -> Characters]
          BY <4>2
        <5>2. line \in [1 .. n -> Chars]
          BY <5>1 DEF Chars
        <5> QED BY <5>2
      <4> QED BY <2>2, <4>1, <4>2 DEF InitLine
    <3> QED BY <2>2, <3>1, <3>2 DEF InitLine, LineInv
  <2>3. CASE InitTokens
    BY <2>1, <2>3 DEF Init, InitTokens, LineInv, None
  <2> QED BY <2>2, <2>3 DEF Init
<1>2. LineInv /\ [Next]_vars => LineInv'
  BY DEF LineInv, Next, Tokenize, Build, vars
<1> QED BY <1>1, <1>2, PTL DEF Spec

\* parse keeps to the arrays of its caller, whatever line it reads and however
\* small they are: it writes one pointer behind argv and one byte behind buf at
\* most.
THEOREM ArraysKeptTo == Spec => []OneBehindAtMost
<1>1. LineInv => OneBehindAtMost
  <2> SUFFICES ASSUME LineInv, phase # "line"
               PROVE  Len(parsed.argv) <= limits.argc_max /\ parsed.ptr <= limits.buf_len + 1
    BY DEF OneBehindAtMost
  <2>1. limits.argc_max \in Nat \ {0, 1} /\ limits.buf_len \in Nat \ {0, 1}
    BY DEF LineInv
  <2>2. CASE parsed = parse(line, limits.argc_max, limits.buf_len)
    BY <2>1, <2>2, ParseBounds DEF LineInv
  <2>3. CASE parsed = Start
    BY <2>1, <2>3, EmptySeq DEF Start
  <2> QED BY <2>2, <2>3 DEF LineInv
<1> QED BY <1>1, LineInvInductive, PTL

\* No character is lost or moved, whatever line is read: the tokens hold its
\* letters and operators in their order, and all of them unless a limit was
\* reached while there was still a character to read.
THEOREM NoCharacterLost == Spec => []CharactersKept
<1>1. LineInv => CharactersKept
  <2> SUFFICES ASSUME LineInv, line # None, phase = "tokens"
               PROVE  LET kept == Loud(FlattenSeq(parsed.argv)) IN
                      /\ IsPrefix(kept, Loud(line))
                      /\ CutOff \/ kept = Loud(line)
    BY DEF CharactersKept
  <2>1. limits.argc_max \in Nat \ {0} /\ limits.buf_len \in Nat /\ line \in Seq(Chars)
    BY DEF LineInv
  <2>2. parsed = parse(line, limits.argc_max, limits.buf_len)
    BY DEF LineInv
  <2> QED BY <2>1, <2>2, ParseKeeps DEF CutOff
<1> QED BY <1>1, LineInvInductive, PTL

-----------------------------------------------------------------------------
\* The commands of a line.

\* A set of numbers that is not empty has a least.
LEMMA Least ==
  ASSUME NEW S, S \subseteq Nat, S # {}
  PROVE  \E m \in S : \A k \in S : m <= k
<1>1. PICK m \in S : \A k \in S : <<k, m>> \notin OpToRel(<, Nat)
  BY NatLessThanWellFounded, WFMin
<1>2. \A k \in S : ~(k < m)
  BY <1>1 DEF OpToRel
<1> QED BY <1>2

LEMMA NextInAt ==
  ASSUME NEW C, tokens \in Seq(C), NEW i \in 1 .. Len(tokens) + 1, NEW ops
  PROVE  LET j == NextIn(tokens, i, ops) IN
         /\ j \in i .. Len(tokens) + 1
         /\ j = Len(tokens) + 1 \/ tokens[j] \in ops
         /\ \A k \in i .. j - 1 : tokens[k] \notin ops
<1> DEFINE L == Len(tokens)
           Ends_(j) == (j = L + 1 \/ tokens[j] \in ops) /\ \A k \in i .. j - 1 : tokens[k] \notin ops
           S == {j \in i .. L + 1 : j = L + 1 \/ tokens[j] \in ops}
<1>1. L \in Nat
  OBVIOUS
<1> HIDE DEF L
<1>2. L + 1 \in S /\ S \subseteq Nat
  BY <1>1 DEF L
<1>3. PICK m \in S : \A k \in S : m <= k
  <2> HIDE DEF S
  <2> QED BY <1>2, Least
<1>4. m \in i .. L + 1 /\ Ends_(m)
  BY <1>1, <1>3 DEF L
<1>5. NextIn(tokens, i, ops) = CHOOSE j \in i .. L + 1 : Ends_(j)
  BY DEF NextIn, L
<1> HIDE DEF Ends_
<1>6. NextIn(tokens, i, ops) \in i .. L + 1 /\ Ends_(NextIn(tokens, i, ops))
  BY <1>4, <1>5
<1> QED BY <1>6 DEF Ends_, L

LEMMA PairsEndAt ==
  ASSUME NEW C, tokens \in Seq(C), NEW e \in 1 .. Len(tokens) + 1
  PROVE  LET j == PairsEnd(tokens, e) IN
         /\ j \in e .. Len(tokens) + 1 /\ (j - e) % 2 = 0
         /\ \A k \in e .. j - 1 : (k - e) % 2 = 0 => tokens[k] \in Redirections
         /\ j < Len(tokens) => tokens[j] \notin Redirections
<1> DEFINE L == Len(tokens)
           Ends_(j) == /\ (j - e) % 2 = 0
                       /\ \A k \in e .. j - 1 : (k - e) % 2 = 0 => tokens[k] \in Redirections
                       /\ j < L => tokens[j] \notin Redirections
           S == {j \in e .. L + 1 : (j - e) % 2 = 0 /\ (j < L => tokens[j] \notin Redirections)}
<1>1. L \in Nat
  OBVIOUS
<1> HIDE DEF L
<1>2. S # {} /\ S \subseteq Nat
  <2>1. (L - e) % 2 = 0 \/ (L + 1 - e) % 2 = 0
    BY <1>1 DEF L
  <2>2. L + 1 \in e .. L + 1 /\ (e # L + 1 => L \in e .. L + 1)
    BY <1>1 DEF L
  <2>3. CASE e = L + 1
    BY <1>1, <2>3
  <2>4. CASE e # L + 1
    BY <1>1, <2>1, <2>2, <2>4, SMTT(30)
  <2> QED BY <2>3, <2>4
<1>3. PICK m \in S : \A k \in S : m <= k
  <2> HIDE DEF S
  <2> QED BY <1>2, Least
<1>4. m \in e .. L + 1 /\ (m - e) % 2 = 0 /\ (m < L => tokens[m] \notin Redirections)
  BY <1>3
<1>5. ASSUME NEW k \in e .. m - 1, (k - e) % 2 = 0 PROVE tokens[k] \in Redirections
  <2>1. k \in e .. L + 1 /\ k < m
    BY <1>1, <1>4 DEF L
  <2>2. k \notin S
    <3> HIDE DEF S
    <3>1. k \in S => m <= k
      BY <1>3
    <3> QED BY <1>1, <1>4, <2>1, <3>1
  <2> QED BY <1>5, <2>1, <2>2
<1>6. Ends_(m)
  BY <1>4, <1>5
<1>7. PairsEnd(tokens, e) = CHOOSE j \in e .. L + 1 : Ends_(j)
  BY DEF PairsEnd, L
<1> HIDE DEF Ends_
<1>8. PairsEnd(tokens, e) \in e .. L + 1 /\ Ends_(PairsEnd(tokens, e))
  BY <1>4, <1>6, <1>7
<1> QED BY <1>8 DEF Ends_, L

\* A turn goes past at least one token.
LEMMA Progress ==
  ASSUME NEW C, tokens \in Seq(C), NEW i \in 1 .. Len(tokens)
  PROVE  LET e == ArgsEnd(tokens, i)
             j == PairsEnd(tokens, e)
         IN /\ e \in i .. Len(tokens) + 1 /\ j \in e .. Len(tokens) + 1
            /\ NextStart(tokens, j) \in i + 1 .. Len(tokens) + 1
<1> DEFINE L == Len(tokens)  e == ArgsEnd(tokens, i)  j == PairsEnd(tokens, e)  n == NextStart(tokens, j)
<1>1. L \in Nat
  OBVIOUS
<1>2. e \in i .. L + 1 /\ (e = L + 1 \/ tokens[e] \in Operators)
  BY <1>1, NextInAt DEF ArgsEnd
<1>3. e \in 1 .. L + 1
  BY <1>1, <1>2
<1>4. /\ j \in e .. L + 1 /\ (j - e) % 2 = 0
      /\ \A k \in e .. j - 1 : (k - e) % 2 = 0 => tokens[k] \in Redirections
      /\ j < L => tokens[j] \notin Redirections
  <2> HIDE DEF e
  <2> QED BY <1>3, PairsEndAt
<1>5. n = IF Dangling(tokens, j) \/ Separated(tokens, j) THEN j + 1 ELSE j
  BY DEF NextStart
<1> HIDE DEF e, j, n, L
<1>6. (j = i /\ j <= L) => Dangling(tokens, j) \/ Separated(tokens, j)
  <2> SUFFICES ASSUME j = i, j <= L PROVE Dangling(tokens, j) \/ Separated(tokens, j)
    OBVIOUS
  <2>1. e = j /\ tokens[j] \in Operators
    BY <1>1, <1>2, <1>3, <1>4
  <2>2. j = L \/ j < L
    BY <1>1, <1>2, <1>4
  <2> QED BY <1>4, <2>1, <2>2 DEF Operators, Dangling, Separated, L
<1>7. n \in i + 1 .. L + 1
  <2>1. Dangling(tokens, j) \/ Separated(tokens, j) => j <= L
    BY <1>1, <1>2, <1>4 DEF Dangling, Separated, L
  <2>2. i <= L /\ i \in Nat
    BY <1>1 DEF L
  <2> QED BY <1>1, <1>2, <1>4, <1>5, <1>6, <2>1, <2>2
<1> QED BY <1>2, <1>4, <1>7 DEF e, j, n, L
LEMMA NameStep ==
  \A k \in Nat \ {0} : IsName(k) <=> (k > 1 /\ tokens[k - 1] \in Redirections /\ ~IsName(k - 1))
<1> DEFINE Turn(v, j) == j > 1 /\ tokens[j - 1] \in Redirections /\ ~v
           Body(k, h) == [j \in 0 .. k |-> Turn(h[j - 1], j)]
           Name(k) == CHOOSE h : h = Body(k, h)
<1>1. \A k : IsName(k) <=> Name(k)[k]
  BY DEF IsName
<1>2. ASSUME NEW k \in Nat PROVE \E h : h = Body(k, h)
  <2> DEFINE step == [p \in (1 .. k) \X BOOLEAN |-> Turn(p[2], p[1])]
  <2>1. step \in [(1 .. k) \X BOOLEAN -> BOOLEAN]
    OBVIOUS
  <2>2. PICK g : Turns(g, k, BOOLEAN, FALSE, step)
    <3>1. FALSE \in BOOLEAN
      OBVIOUS
    <3> HIDE DEF step
    <3> QED BY <2>1, <3>1, Recursion
  <2>3. g \in [0 .. k -> BOOLEAN] /\ g[0] = FALSE
    BY <2>2 DEF Turns
  <2>4. \A j \in 1 .. k : g[j] = Turn(g[j - 1], j)
    <3> TAKE j \in 1 .. k
    <3>1. g[j - 1] \in BOOLEAN /\ g[j] = step[<<j, g[j - 1]>>]
      <4>1. j - 1 \in 0 .. k
        OBVIOUS
      <4> HIDE DEF step
      <4> QED BY <2>2, <4>1 DEF Turns
    <3> QED BY <3>1
  <2>5. \A j \in 0 .. k : g[j] = Turn(g[j - 1], j)
    <3>1. g[0] = Turn(g[0 - 1], 0)
      BY <2>3
    <3> QED BY <2>4, <3>1
  <2>6. g = Body(k, g)
    <3> HIDE DEF Turn
    <3> QED BY <2>3, <2>5
  <2> QED BY <2>6
<1>3. ASSUME NEW k \in Nat PROVE \A j \in 0 .. k : Name(k)[j] = Turn(Name(k)[j - 1], j)
  <2>1. Name(k) = Body(k, Name(k))
    <3> HIDE DEF Body
    <3> QED BY <1>2
  <2> HIDE DEF Name, Turn
  <2> QED BY <2>1
<1> HIDE DEF Name
<1>4. ASSUME NEW k \in Nat \ {0} PROVE Name(k)[k - 1] = Name(k - 1)[k - 1]
  <2> DEFINE g == Name(k)  h == Name(k - 1)
             T == {j \in 0 .. k - 1 : g[j] = h[j]}
  <2>1. \A j \in 0 .. k : g[j] = Turn(g[j - 1], j)
    BY <1>3
  <2>2. \A j \in 0 .. k - 1 : h[j] = Turn(h[j - 1], j)
    BY <1>3
  <2> HIDE DEF g, h
  <2>3. 0 \in T
    <3>1. \A v : Turn(v, 0) = FALSE
      OBVIOUS
    <3>2. 0 \in 0 .. k /\ 0 \in 0 .. k - 1
      OBVIOUS
    <3> HIDE DEF Turn
    <3>3. g[0] = FALSE /\ h[0] = FALSE
      BY <2>1, <2>2, <3>1, <3>2
    <3> QED BY <3>2, <3>3
  <2>4. ASSUME NEW j \in 1 .. k - 1, j - 1 \in T PROVE j \in T
    <3>1. g[j - 1] = h[j - 1] /\ j \in 0 .. k - 1 /\ j \in 0 .. k
      BY <2>4
    <3> HIDE DEF Turn
    <3> QED BY <2>1, <2>2, <3>1
  <2>5. k - 1 \in T
    <3> HIDE DEF T
    <3>1. 0 .. k - 1 \subseteq T
      BY <2>3, <2>4, RangeInduction
    <3> QED BY <3>1
  <2> QED BY <2>5 DEF g, h
<1> SUFFICES ASSUME NEW k \in Nat \ {0} PROVE IsName(k) <=> (k > 1 /\ tokens[k - 1] \in Redirections /\ ~IsName(k - 1))
  OBVIOUS
<1>5. Name(k)[k] = Turn(Name(k)[k - 1], k)
  BY <1>3
<1> QED BY <1>1, <1>4, <1>5

\* The tokens that are kept, in turns.
PlainTurns(p) ==
  /\ p[0] = <<>>
  /\ \A n \in 1 .. Len(tokens) :
       p[n] = IF tokens[n] \in Operators \/ IsName(n) THEN p[n - 1] ELSE Append(p[n - 1], tokens[n])

LEMMA PlainRuns ==
  ASSUME NEW C, tokens \in Seq(C)
  PROVE  \E p : /\ PlainTurns(p) /\ PlainTokens = p[Len(tokens)]
                /\ \A n \in 0 .. Len(tokens) : p[n] \in Seq(C)
<1> DEFINE N == Len(tokens)
           Turn(v, n) == IF tokens[n] \in Operators \/ IsName(n) THEN v ELSE Append(v, tokens[n])
           step == [p \in (1 .. N) \X Seq(C) |-> Turn(p[2], p[1])]
           Body(g) == [n \in 0 .. N |-> IF n = 0 THEN <<>> ELSE Turn(g[n - 1], n)]
<1>1. N \in Nat /\ \A n \in 1 .. N : tokens[n] \in C
  OBVIOUS
<1>2. <<>> \in Seq(C)
  OBVIOUS
<1>3. \A n \in 1 .. N, v \in Seq(C) : Turn(v, n) \in Seq(C)
  BY <1>1
<1>4. PlainTokens = (CHOOSE g : g = Body(g))[N]
  BY DEF PlainTokens
<1> HIDE DEF N, Turn
<1>5. step \in [(1 .. N) \X Seq(C) -> Seq(C)]
  BY <1>3
<1>6. PICK g : Turns(g, N, Seq(C), <<>>, step)
  <2> HIDE DEF step
  <2> QED BY <1>1, <1>2, <1>5, Recursion
<1>7. \A n \in 1 .. N : g[n] = Turn(g[n - 1], n)
  <2> TAKE n \in 1 .. N
  <2>1. g[n - 1] \in Seq(C) /\ g[n] = step[<<n, g[n - 1]>>]
    <3>1. n - 1 \in 0 .. N
      BY <1>1
    <3> HIDE DEF step
    <3> QED BY <1>6, <3>1 DEF Turns
  <2> QED BY <2>1
<1>8. g = Body(g)
  BY <1>1, <1>6, <1>7 DEF Turns
<1>9. PICK h : h = Body(h) /\ PlainTokens = h[N]
  BY <1>4, <1>8
<1>10. h[0] = <<>> /\ \A n \in 1 .. N : h[n] = Turn(h[n - 1], n)
  BY <1>1, <1>9
<1>11. 0 .. N \subseteq {n \in 0 .. N : h[n] \in Seq(C)}
  <2> DEFINE T == {n \in 0 .. N : h[n] \in Seq(C)}
  <2>1. 0 \in T
    <3>1. h[0] \in Seq(C) /\ 0 \in 0 .. N
      BY <1>1, <1>2, <1>10
    <3> QED BY <3>1
  <2>2. ASSUME NEW n \in 1 .. N, n - 1 \in T PROVE n \in T
    BY <1>1, <1>3, <1>10, <2>2
  <2>3. 0 .. N \subseteq T
    <3> HIDE DEF T
    <3> QED BY <1>1, <2>1, <2>2, RangeInduction
  <2> QED BY <2>3
<1> QED BY <1>9, <1>10, <1>11 DEF PlainTurns, N, Turn

\* A function that is defined by recursion on a later argument exists.
LaterTurns(g, N, S, c, next, step) ==
  g \in [1 .. N + 1 -> S] /\ g[N + 1] = c /\ \A i \in 1 .. N : g[i] = step[<<i, g[next[i]]>>]

LEMMA LaterRecursion ==
  ASSUME NEW N \in Nat, NEW S, NEW c \in S, NEW step \in [(1 .. N) \X S -> S],
         NEW next, \A i \in 1 .. N : next[i] \in i + 1 .. N + 1
  PROVE  \E g : LaterTurns(g, N, S, c, next, step)
<1> DEFINE Runs(k) == \E g \in [N + 1 - k .. N + 1 -> S] :
                       g[N + 1] = c /\ \A i \in N + 1 - k .. N : g[i] = step[<<i, g[next[i]]>>]
           T == {k \in 0 .. N : Runs(k)}
<1>1. 0 \in T
  <2> DEFINE g == [i \in N + 1 - 0 .. N + 1 |-> c]
  <2>1. g \in [N + 1 - 0 .. N + 1 -> S] /\ g[N + 1] = c
    OBVIOUS
  <2>2. N + 1 - 0 .. N = {}
    OBVIOUS
  <2> HIDE DEF g
  <2> QED BY <2>1, <2>2
<1>2. ASSUME NEW k \in 1 .. N, k - 1 \in T PROVE k \in T
  <2> DEFINE b == N + 1 - k
  <2>0. b \in 1 .. N /\ N + 1 - (k - 1) = b + 1
    OBVIOUS
  <2>1. PICK g \in [b + 1 .. N + 1 -> S] :
          g[N + 1] = c /\ \A i \in b + 1 .. N : g[i] = step[<<i, g[next[i]]>>]
    <3>1. Runs(k - 1)
      BY <1>2
    <3> HIDE DEF b
    <3> QED BY <2>0, <3>1
  <2> DEFINE h == [i \in b .. N + 1 |-> IF i = b THEN step[<<b, g[next[b]]>>] ELSE g[i]]
  <2>2. next[b] \in b + 1 .. N + 1 /\ g[next[b]] \in S /\ step[<<b, g[next[b]]>>] \in S
    <3> HIDE DEF b
    <3> QED BY <2>0, <2>1
  <2> HIDE DEF b
  <2>3. h \in [b .. N + 1 -> S] /\ h[N + 1] = c
    BY <2>0, <2>1, <2>2
  <2>4. ASSUME NEW i \in b .. N PROVE h[i] = step[<<i, h[next[i]]>>]
    <3>1. next[i] \in i + 1 .. N + 1
      BY <2>0
    <3>2. h[next[i]] = g[next[i]]
      BY <2>0, <3>1
    <3>3. CASE i = b
      <4>1. h[i] = step[<<b, g[next[b]]>>]
        BY <2>0, <3>3
      <4> HIDE DEF h
      <4> QED BY <3>2, <3>3, <4>1
    <3>4. CASE i # b
      <4>1. i \in b + 1 .. N /\ h[i] = g[i]
        BY <2>0, <3>4
      <4> HIDE DEF h
      <4> QED BY <2>1, <3>2, <4>1
    <3> QED BY <3>3, <3>4
  <2> HIDE DEF h
  <2>5. Runs(k)
    BY <2>3, <2>4 DEF b
  <2> QED BY <2>5
<1>3. N \in T
  <2> HIDE DEF T
  <2>1. 0 .. N \subseteq T
    BY <1>1, <1>2, RangeInduction
  <2> QED BY <2>1
<1>4. Runs(N)
  BY <1>3
<1>5. N + 1 - N = 1
  OBVIOUS
<1> QED BY <1>4, <1>5 DEF LaterTurns
LEMMA LaterInduction ==
  ASSUME NEW N \in Nat, NEW T, N + 1 \in T,
         \A i \in 1 .. N : (\A j \in i + 1 .. N + 1 : j \in T) => i \in T
  PROVE  1 .. N + 1 \subseteq T
<1> DEFINE S == {k \in 0 .. N : \A j \in N + 1 - k .. N + 1 : j \in T}
<1>1. 0 \in S
  OBVIOUS
<1>2. ASSUME NEW k \in 1 .. N, k - 1 \in S PROVE k \in S
  <2> DEFINE i == N + 1 - k
  <2>1. i \in 1 .. N /\ i + 1 = N + 1 - (k - 1)
    OBVIOUS
  <2>2. \A j \in i + 1 .. N + 1 : j \in T
    BY <1>2, <2>1
  <2>3. i \in T
    <3> HIDE DEF i
    <3> QED BY <2>1, <2>2
  <2>4. \A j \in i .. N + 1 : j \in T
    <3> HIDE DEF i
    <3> QED BY <2>1, <2>2, <2>3
  <2> QED BY <2>4
<1>3. N \in S
  <2> HIDE DEF S
  <2>1. 0 .. N \subseteq S
    BY <1>1, <1>2, RangeInduction
  <2> QED BY <2>1
<1> QED BY <1>3

\* The command of the turn at token i, and where the next turn starts.
CommandOf(i) == CommandAt(tokens, i, PairsEnd(tokens, ArgsEnd(tokens, i)))
After(i) == NextStart(tokens, PairsEnd(tokens, ArgsEnd(tokens, i)))
CommandsOf == {CommandOf(i) : i \in 1 .. Len(tokens)}
ListTurns(h) ==
  /\ h[Len(tokens) + 1] = <<>>
  /\ \A i \in 1 .. Len(tokens) : h[i] = <<CommandOf(i)>> \o h[After(i)]

LEMMA ListRuns ==
  ASSUME NEW C, tokens \in Seq(C)
  PROVE  \E h : /\ ListTurns(h) /\ buildCommandList(tokens) = h[1]
                /\ \A i \in 1 .. Len(tokens) + 1 : h[i] \in Seq(CommandsOf)
<1> DEFINE N == Len(tokens)  D == CommandsOf  S == Seq(D)
           step == [p \in (1 .. N) \X S |-> <<CommandOf(p[1])>> \o p[2]]
           next == [i \in 1 .. N |-> After(i)]
           Body(g) == [i \in 1 .. N + 1 |-> IF i > N THEN <<>> ELSE <<CommandOf(i)>> \o g[After(i)]]
<1>1. N \in Nat
  OBVIOUS
<1>2. \A i \in 1 .. N : After(i) \in i + 1 .. N + 1
  BY Progress DEF After
<1>3. <<>> \in S /\ \A i \in 1 .. N, v \in S : <<CommandOf(i)>> \o v \in S
  <2>1. \A i \in 1 .. N : CommandOf(i) \in D
    BY DEF CommandsOf
  <2> HIDE DEF D, N
  <2> QED BY <2>1
<1>4. buildCommandList(tokens) = (CHOOSE g : g = Body(g))[1]
  BY DEF buildCommandList, CommandOf, After
<1> HIDE DEF N, D, S
<1>5. step \in [(1 .. N) \X S -> S]
  BY <1>3
<1>6. \A i \in 1 .. N : next[i] \in i + 1 .. N + 1
  BY <1>2
<1>7. PICK g : LaterTurns(g, N, S, <<>>, next, step)
  <2> HIDE DEF step, next
  <2> QED BY <1>1, <1>3, <1>5, <1>6, LaterRecursion
<1>8. \A i \in 1 .. N : g[i] = <<CommandOf(i)>> \o g[After(i)]
  <2> TAKE i \in 1 .. N
  <2>1. g[next[i]] \in S /\ g[i] = step[<<i, g[next[i]]>>]
    <3>1. next[i] \in 1 .. N + 1
      BY <1>1, <1>6
    <3> HIDE DEF step, next
    <3> QED BY <1>7, <3>1 DEF LaterTurns
  <2> QED BY <2>1
<1>9. g = Body(g)
  <2>1. g \in [1 .. N + 1 -> S] /\ g[N + 1] = <<>>
    BY <1>7 DEF LaterTurns
  <2>2. \A i \in 1 .. N + 1 : i > N <=> i = N + 1
    BY <1>1
  <2>3. \A i \in 1 .. N + 1 : i \in 1 .. N \/ i = N + 1
    BY <1>1
  <2>4. \A i \in 1 .. N + 1 : g[i] = IF i > N THEN <<>> ELSE <<CommandOf(i)>> \o g[After(i)]
    BY <1>8, <2>1, <2>2, <2>3
  <2> QED BY <2>1, <2>4
<1>10. PICK h : h = Body(h) /\ buildCommandList(tokens) = h[1]
  BY <1>4, <1>9
<1>11. h[N + 1] = <<>> /\ \A i \in 1 .. N : h[i] = <<CommandOf(i)>> \o h[After(i)]
  <2>1. \A i \in 1 .. N + 1 : h[i] = IF i > N THEN <<>> ELSE <<CommandOf(i)>> \o h[After(i)]
    BY <1>10
  <2>2. N + 1 \in 1 .. N + 1 /\ N + 1 > N
    BY <1>1
  <2>3. \A i \in 1 .. N : i \in 1 .. N + 1 /\ ~(i > N)
    BY <1>1
  <2> QED BY <2>1, <2>2, <2>3
<1>12. \A i \in 1 .. N + 1 : h[i] \in S
  <2> DEFINE T == {i \in 1 .. N + 1 : h[i] \in S}
  <2>1. N + 1 \in T
    <3>1. N + 1 \in 1 .. N + 1
      BY <1>1
    <3> QED BY <1>3, <1>11, <3>1
  <2>2. ASSUME NEW i \in 1 .. N, \A j \in i + 1 .. N + 1 : j \in T PROVE i \in T
    <3>1. h[After(i)] \in S /\ i \in 1 .. N + 1
      BY <1>1, <1>2, <2>2
    <3> QED BY <1>3, <1>11, <3>1
  <2>3. 1 .. N + 1 \subseteq T
    <3> HIDE DEF T
    <3> QED BY <1>1, <2>1, <2>2, LaterInduction
  <2> QED BY <2>3
<1> QED BY <1>10, <1>11, <1>12 DEF ListTurns, N, S, D

LEMMA FlattenFirst ==
  ASSUME NEW C, NEW s \in Seq(C)
  PROVE  \A ss \in Seq(Seq(C)) : FlattenSeq(<<s>> \o ss) = s \o FlattenSeq(ss)
<1> DEFINE S == Seq(C)
           T == {ss \in Seq(S) : FlattenSeq(<<s>> \o ss) = s \o FlattenSeq(ss)}
<1>1. <<>> \in T
  <2>1. FlattenSeq(Append(<<>>, s)) = FlattenSeq(<<>>) \o s
    <3>1. <<>> \in Seq(Seq(C))
      OBVIOUS
    <3> QED BY <3>1, FlattenAppend
  <2>2. s \in S /\ <<>> \o s = s /\ s \o <<>> = s
    OBVIOUS
  <2>3. <<s>> \o <<>> = Append(<<>>, s) /\ <<>> \in Seq(S)
    <3> HIDE DEF S
    <3> QED BY <2>2
  <2>4. FlattenSeq(<<s>> \o <<>>) = s \o FlattenSeq(<<>>)
    BY <2>1, <2>2, <2>3, FlattenEmpty
  <2> QED BY <2>3, <2>4
<1>2. ASSUME NEW ss \in Seq(S), NEW u \in S, ss \in T PROVE Append(ss, u) \in T
  <2>1. /\ s \in S /\ <<s>> \o ss \in Seq(S) /\ Append(ss, u) \in Seq(S)
        /\ <<s>> \o Append(ss, u) = Append(<<s>> \o ss, u)
    <3>1. s \in S
      OBVIOUS
    <3> HIDE DEF S
    <3> QED BY <3>1
  <2>2. FlattenSeq(Append(<<s>> \o ss, u)) = FlattenSeq(<<s>> \o ss) \o u
    BY <2>1, FlattenAppend
  <2>3. FlattenSeq(Append(ss, u)) = FlattenSeq(ss) \o u
    BY FlattenAppend
  <2>4. FlattenSeq(<<s>> \o ss) = s \o FlattenSeq(ss)
    BY <1>2
  <2>5. FlattenSeq(ss) \in S
    BY FlattenRuns
  <2>6. s \o (FlattenSeq(ss) \o u) = (s \o FlattenSeq(ss)) \o u
    BY <2>1, <2>5, ConcatThree, SMTT(30)
  <2>7. FlattenSeq(<<s>> \o Append(ss, u)) = s \o FlattenSeq(Append(ss, u))
    BY <2>1, <2>2, <2>3, <2>4, <2>6
  <2> HIDE DEF S
  <2> QED BY <2>1, <2>7
<1>3. Seq(S) \subseteq T
  <2> HIDE DEF T, S
  <2> QED BY <1>1, <1>2, SequenceInduction
<1> QED BY <1>3

\* The arguments of a list of commands, one command after the other.
ArgumentsOf(l) == FlattenSeq([k \in DOMAIN l |-> l[k].args])

LEMMA ArgumentsFirst ==
  ASSUME NEW C, NEW D, \A d \in D : d.args \in Seq(C), NEW c \in D, NEW l \in Seq(D)
  PROVE  ArgumentsOf(<<c>> \o l) = c.args \o ArgumentsOf(l) /\ ArgumentsOf(l) \in Seq(C)
<1> DEFINE S == Seq(C)  n == Len(l)  A(x) == [k \in DOMAIN x |-> x[k].args]  m == <<c>> \o l
<1>1. n \in Nat /\ DOMAIN l = 1 .. n /\ \A k \in 1 .. n : l[k] \in D
  OBVIOUS
<1>2. m \in Seq(D) /\ DOMAIN m = 1 .. n + 1 /\ m[1] = c /\ \A k \in 1 .. n : m[k + 1] = l[k]
  OBVIOUS
<1> HIDE DEF n, m, S
<1>3. A(l) \in Seq(S) /\ Len(A(l)) = n /\ \A k \in 1 .. n : A(l)[k] = l[k].args
  <2>1. A(l) \in [1 .. n -> S]
    BY <1>1 DEF S
  <2> QED BY <1>1, <2>1
<1>4. c.args \in S
  BY DEF S
<1>5. A(m) = <<c.args>> \o A(l)
  <2> DEFINE y == A(l)  z == <<c.args>> \o y
  <2>1. A(m) = [k \in 1 .. n + 1 |-> m[k].args]
    BY <1>2
  <2>2. y \in Seq(S) /\ Len(y) = n /\ \A k \in 1 .. n : y[k] = l[k].args
    BY <1>3
  <2> HIDE DEF y
  <2>3. /\ z = [k \in 1 .. n + 1 |-> z[k]] /\ z[1] = c.args
        /\ \A k \in 1 .. n : z[k + 1] = y[k]
    BY <1>1, <1>4, <2>2
  <2> HIDE DEF z
  <2>4. \A k \in 1 .. n + 1 : k = 1 \/ (k - 1 \in 1 .. n /\ (k - 1) + 1 = k)
    BY <1>1
  <2>5. ASSUME NEW k \in 1 .. n + 1 PROVE m[k].args = z[k]
    <3>1. CASE k = 1
      BY <1>2, <2>3, <3>1
    <3>2. CASE k - 1 \in 1 .. n /\ (k - 1) + 1 = k
      <4>1. m[k] = l[k - 1]
        BY <1>2, <3>2
      <4>2. z[k] = y[k - 1]
        BY <2>3, <3>2
      <4> QED BY <2>2, <3>2, <4>1, <4>2
    <3> QED BY <2>4, <3>1, <3>2
  <2>6. A(m) = z
    BY <2>1, <2>3, <2>5
  <2> QED BY <2>6 DEF z, y
<1> HIDE DEF A
<1>6. FlattenSeq(A(m)) = c.args \o FlattenSeq(A(l)) /\ FlattenSeq(A(l)) \in S
  BY <1>3, <1>4, <1>5, FlattenFirst, FlattenRuns DEF S
<1>7. ArgumentsOf(l) = FlattenSeq(A(l)) /\ ArgumentsOf(m) = FlattenSeq(A(m))
  BY DEF ArgumentsOf, A
<1> QED BY <1>6, <1>7 DEF m, S

\* The arguments of a turn are kept.
LEMMA ArgumentsTurn ==
  ASSUME NEW C, tokens \in Seq(C), NEW p, PlainTurns(p), \A n \in 0 .. Len(tokens) : p[n] \in Seq(C),
         NEW i \in 1 .. Len(tokens), ~IsName(i),
         NEW e \in i .. Len(tokens) + 1, \A k \in i .. e - 1 : tokens[k] \notin Operators
  PROVE  p[e - 1] = p[i - 1] \o SubSeq(tokens, i, e - 1) /\ ~IsName(e)
<1> DEFINE N == Len(tokens)
           T == {m \in 0 .. e - i : p[i - 1 + m] = p[i - 1] \o SubSeq(tokens, i, i - 1 + m) /\ ~IsName(i + m)}
<1>1. N \in Nat /\ i \in 1 .. N /\ e \in i .. N + 1
  OBVIOUS
<1>2. \A n \in 1 .. N : p[n] = IF tokens[n] \in Operators \/ IsName(n) THEN p[n - 1] ELSE Append(p[n - 1], tokens[n])
  BY DEF PlainTurns
<1> HIDE DEF N
<1>3. 0 \in T
  <2>1. SubSeq(tokens, i, i - 1) = <<>> /\ p[i - 1] \in Seq(C)
    <3>1. i - 1 \in 0 .. N
      BY <1>1
    <3> QED BY <3>1, SubSeqEmpty DEF N
  <2>2. p[i - 1] = p[i - 1] \o <<>>
    BY <2>1
  <2>3. i - 1 + 0 = i - 1 /\ i + 0 = i /\ 0 \in 0 .. e - i
    BY <1>1
  <2> QED BY <2>1, <2>2, <2>3
<1>4. ASSUME NEW m \in 1 .. e - i, m - 1 \in T PROVE m \in T
  <2> DEFINE k == i + m - 1
  <2>1. k \in i .. e - 1 /\ k \in 1 .. N /\ k \in i .. N /\ i - 1 + (m - 1) = k - 1 /\ i - 1 + m = k /\ i + (m - 1) = k /\ i + m = k + 1
    BY <1>1
  <2> HIDE DEF k
  <2>2. p[k - 1] = p[i - 1] \o SubSeq(tokens, i, k - 1) /\ ~IsName(k)
    BY <1>4, <2>1
  <2>3. p[k] = Append(p[k - 1], tokens[k]) /\ tokens[k] \notin Operators
    BY <1>2, <2>1, <2>2
  <2>4. ~IsName(k + 1)
    <3>1. k + 1 \in Nat \ {0} /\ (k + 1) - 1 = k
      BY <1>1, <2>1
    <3>2. tokens[k] \notin Redirections
      BY <2>3 DEF Operators
    <3> QED BY <3>1, <3>2, NameStep
  <2>5. p[k] = p[i - 1] \o SubSeq(tokens, i, k)
    <3>1. SubSeq(tokens, i, k) = SubSeq(tokens, i, k - 1) \o <<tokens[k]>>
      BY <1>1, <2>1, SubSeqRecursiveSecond DEF N
    <3>2. p[i - 1] \in Seq(C) /\ tokens[k] \in C
      <4>1. i - 1 \in 0 .. N
        BY <1>1
      <4> QED BY <2>1, <4>1 DEF N
    <3>3. SubSeq(tokens, i, k - 1) \in Seq(C)
      <4>1. k - 1 \in Int /\ i \in 1 .. N /\ k - 1 <= N /\ k - 1 \in i - 1 .. N
        BY <1>1, <2>1
      <4> QED BY <4>1, SubSeqProperties DEF N
    <3> DEFINE u == p[i - 1]  v == SubSeq(tokens, i, k - 1)  w == tokens[k]
    <3>4. u \in Seq(C) /\ v \in Seq(C) /\ w \in C
      BY <3>2, <3>3
    <3> HIDE DEF u, v, w
    <3>5. u \o v \in Seq(C) /\ <<w>> \in Seq(C)
      BY <3>4
    <3>6. Append(u \o v, w) = (u \o v) \o <<w>>
      <4> DEFINE z == u \o v
      <4>1. z \in Seq(C)
        BY <3>5
      <4> HIDE DEF z
      <4>2. Append(z, w) = z \o <<w>>
        BY <3>4, <4>1
      <4> QED BY <4>2 DEF z
    <3>7. Append(u \o v, w) = u \o (v \o <<w>>)
      BY <3>4, <3>5, <3>6, ConcatThree, SMTT(30)
    <3> QED BY <2>2, <2>3, <3>1, <3>7 DEF u, v, w
  <2>6. m \in 0 .. e - i
    BY <1>1
  <2> QED BY <2>1, <2>4, <2>5, <2>6
<1>5. e - i \in T
  <2> HIDE DEF T
  <2>1. e - i \in Nat
    BY <1>1
  <2>2. 0 .. e - i \subseteq T
    BY <1>3, <1>4, <2>1, RangeInduction
  <2> QED BY <2>1, <2>2
<1>6. i - 1 + (e - i) = e - 1 /\ i + (e - i) = e
  BY <1>1
<1> QED BY <1>5, <1>6

\* Its redirections are not.
LEMMA PairsTurn ==
  ASSUME NEW C, tokens \in Seq(C), NEW p, PlainTurns(p),
         NEW e \in 1 .. Len(tokens) + 1, ~IsName(e), NEW j \in e .. Len(tokens) + 1, (j - e) % 2 = 0,
         \A k \in e .. j - 1 : (k - e) % 2 = 0 => tokens[k] \in Redirections
  PROVE  p[j - 1] = p[e - 1] /\ ~IsName(j)
<1> DEFINE N == Len(tokens)
           T == {m \in 0 .. j - e : p[e - 1 + m] = p[e - 1] /\ (IsName(e + m) <=> m % 2 = 1)}
<1>1. N \in Nat /\ e \in 1 .. N + 1 /\ j \in e .. N + 1
  OBVIOUS
<1>2. \A n \in 1 .. N : p[n] = IF tokens[n] \in Operators \/ IsName(n) THEN p[n - 1] ELSE Append(p[n - 1], tokens[n])
  BY DEF PlainTurns
<1> HIDE DEF N
<1>3. 0 \in T
  <2>1. e - 1 + 0 = e - 1 /\ e + 0 = e /\ 0 \in 0 .. j - e /\ 0 % 2 # 1
    BY <1>1
  <2> QED BY <2>1
<1>4. ASSUME NEW m \in 1 .. j - e, m - 1 \in T PROVE m \in T
  <2> DEFINE k == e + m - 1
  <2>1. k \in e .. j - 1 /\ k \in 1 .. N /\ e - 1 + (m - 1) = k - 1 /\ e - 1 + m = k /\ e + (m - 1) = k /\ e + m = k + 1 /\ k - e = m - 1
    BY <1>1
  <2> HIDE DEF k
  <2>2. p[k - 1] = p[e - 1] /\ (IsName(k) <=> (m - 1) % 2 = 1)
    BY <1>4, <2>1
  <2>3. IsName(k + 1) <=> tokens[k] \in Redirections /\ ~IsName(k)
    <3>1. k + 1 \in Nat \ {0} /\ (k + 1) - 1 = k /\ k + 1 > 1
      BY <1>1, <2>1
    <3> QED BY <3>1, NameStep
  <2>4. CASE (m - 1) % 2 = 0
    <3>1. m % 2 = 1 /\ (m - 1) % 2 # 1
      BY <1>1, <2>4
    <3>2. tokens[k] \in Redirections
      BY <2>1, <2>4
    <3>3. p[k] = p[k - 1]
      BY <1>2, <2>1, <3>2 DEF Operators
    <3> QED BY <2>1, <2>2, <2>3, <3>1, <3>2, <3>3
  <2>5. CASE (m - 1) % 2 = 1
    <3>1. m % 2 # 1
      BY <1>1, <2>5
    <3>2. p[k] = p[k - 1]
      BY <1>2, <2>1, <2>2, <2>5
    <3> QED BY <2>1, <2>2, <2>3, <2>5, <3>1, <3>2
  <2>6. (m - 1) % 2 = 0 \/ (m - 1) % 2 = 1
    BY <1>1
  <2> QED BY <2>4, <2>5, <2>6
<1>5. j - e \in T
  <2> HIDE DEF T
  <2>1. j - e \in Nat
    BY <1>1
  <2>2. 0 .. j - e \subseteq T
    BY <1>3, <1>4, <2>1, RangeInduction
  <2> QED BY <2>1, <2>2
<1>6. e - 1 + (j - e) = j - 1 /\ e + (j - e) = j
  BY <1>1
<1>7. (j - e) % 2 # 1
  BY <1>1
<1> QED BY <1>5, <1>6, <1>7

LEMMA Turn ==
  ASSUME NEW C, tokens \in Seq(C), NEW p, PlainTurns(p), \A n \in 0 .. Len(tokens) : p[n] \in Seq(C),
         NEW i \in 1 .. Len(tokens), ~IsName(i)
  PROVE  /\ CommandOf(i).args \in Seq(C)
         /\ p[After(i) - 1] = p[i - 1] \o CommandOf(i).args
         /\ After(i) \in i + 1 .. Len(tokens) + 1
         /\ After(i) <= Len(tokens) => ~IsName(After(i))
<1> DEFINE N == Len(tokens)  e == ArgsEnd(tokens, i)  j == PairsEnd(tokens, e)
<1>1. N \in Nat /\ i \in 1 .. N
  OBVIOUS
<1>2. e \in i .. N + 1 /\ \A k \in i .. e - 1 : tokens[k] \notin Operators
  <2>1. i \in 1 .. N + 1
    BY <1>1
  <2> QED BY <2>1, NextInAt DEF ArgsEnd
<1>3. e \in 1 .. N + 1
  BY <1>1, <1>2
<1>4. /\ j \in e .. N + 1 /\ (j - e) % 2 = 0
      /\ \A k \in e .. j - 1 : (k - e) % 2 = 0 => tokens[k] \in Redirections
  <2> HIDE DEF e
  <2> QED BY <1>3, PairsEndAt
<1>5. After(i) \in i + 1 .. N + 1
  BY Progress DEF After
<1>6. After(i) = IF Dangling(tokens, j) \/ Separated(tokens, j) THEN j + 1 ELSE j
  BY DEF After, NextStart
<1>7. CommandOf(i).args = SubSeq(tokens, i, e - 1)
  BY DEF CommandOf, CommandAt
<1> HIDE DEF e, j
<1>8. p[e - 1] = p[i - 1] \o SubSeq(tokens, i, e - 1) /\ ~IsName(e)
  BY <1>2, ArgumentsTurn
<1>9. p[j - 1] = p[e - 1] /\ ~IsName(j)
  BY <1>3, <1>4, <1>8, PairsTurn
<1>10. SubSeq(tokens, i, e - 1) \in Seq(C)
  <2>1. e - 1 \in Int /\ e - 1 <= N /\ e - 1 \in i - 1 .. N
    BY <1>1, <1>2
  <2> QED BY <1>1, <2>1, SubSeqProperties
<1>11. CASE After(i) = j
  BY <1>5, <1>7, <1>8, <1>9, <1>10, <1>11
<1>12. CASE After(i) = j + 1 /\ (Dangling(tokens, j) \/ Separated(tokens, j))
  <2>1. j \in 1 .. N /\ tokens[j] \in Operators
    BY <1>1, <1>3, <1>4, <1>12 DEF Dangling, Separated, Operators
  <2>2. p[j] = p[j - 1]
    BY <2>1 DEF PlainTurns
  <2>3. (j + 1) - 1 = j
    BY <2>1
  <2>4. After(i) <= N => ~IsName(After(i))
    <3> SUFFICES ASSUME j + 1 <= N PROVE ~IsName(j + 1)
      BY <1>12
    <3>1. tokens[j] \in Separators
      BY <1>1, <1>12, <2>1 DEF Dangling, Separated
    <3>2. tokens[j] \notin Redirections
      BY <3>1 DEF Separators, Redirections
    <3>3. j + 1 \in Nat \ {0}
      BY <2>1
    <3> QED BY <2>3, <3>2, <3>3, NameStep
  <2>5. p[After(i) - 1] = p[i - 1] \o CommandOf(i).args
    BY <1>7, <1>8, <1>9, <1>12, <2>2, <2>3
  <2> QED BY <1>5, <1>7, <1>10, <2>4, <2>5
<1> QED BY <1>6, <1>11, <1>12

\* buildCommandList hands on the plain tokens, whatever the line.
LEMMA ListKeepsArguments ==
  ASSUME NEW C, tokens \in Seq(C)
  PROVE  ArgumentsOf(buildCommandList(tokens)) = PlainTokens
<1> DEFINE N == Len(tokens)
<1>1. N \in Nat
  OBVIOUS
<1>2. PICK p : /\ PlainTurns(p) /\ PlainTokens = p[N]
               /\ \A n \in 0 .. N : p[n] \in Seq(C)
  BY PlainRuns
<1>3. PICK h : /\ ListTurns(h) /\ buildCommandList(tokens) = h[1]
               /\ \A i \in 1 .. N + 1 : h[i] \in Seq(CommandsOf)
  BY ListRuns
<1> DEFINE D == {CommandOf(i) : i \in {k \in 1 .. N : ~IsName(k)}}
           T == {i \in 1 .. N + 1 : (i <= N => ~IsName(i)) =>
                   /\ h[i] \in Seq(D)
                   /\ ArgumentsOf(h[i]) \in Seq(C)
                   /\ p[N] = p[i - 1] \o ArgumentsOf(h[i])}
<1>4. \A d \in D : d.args \in Seq(C)
  BY <1>2, Turn
<1>5. N + 1 \in T
  <2>1. h[N + 1] = <<>>
    BY <1>3 DEF ListTurns
  <2>2. ArgumentsOf(<<>>) = <<>>
    <3>1. [k \in DOMAIN <<>> |-> <<>>[k].args] = <<>>
      OBVIOUS
    <3> QED BY <3>1, FlattenEmpty DEF ArgumentsOf
  <2>3. <<>> \in Seq(D) /\ <<>> \in Seq(C)
    OBVIOUS
  <2>4. p[N] = p[N] \o <<>>
    <3>1. p[N] \in Seq(C)
      BY <1>1, <1>2
    <3> QED BY <3>1
  <2>5. N + 1 \in 1 .. N + 1 /\ (N + 1) - 1 = N
    BY <1>1
  <2> HIDE DEF D, N
  <2> QED BY <2>1, <2>2, <2>3, <2>4, <2>5
<1>6. ASSUME NEW i \in 1 .. N, \A x \in i + 1 .. N + 1 : x \in T PROVE i \in T
  <2> SUFFICES ASSUME ~IsName(i)
               PROVE  /\ h[i] \in Seq(D)
                      /\ ArgumentsOf(h[i]) \in Seq(C)
                      /\ p[N] = p[i - 1] \o ArgumentsOf(h[i])
    <3>1. i \in 1 .. N + 1 /\ i <= N
      BY <1>1
    <3> HIDE DEF D, N
    <3> QED BY <3>1
  <2> DEFINE c == CommandOf(i)  n == After(i)
  <2>1. /\ c.args \in Seq(C) /\ p[n - 1] = p[i - 1] \o c.args
        /\ n \in i + 1 .. N + 1 /\ (n <= N => ~IsName(n))
    BY <1>2, Turn
  <2>2. c \in D
    OBVIOUS
  <2>3. h[i] = <<c>> \o h[n]
    BY <1>3 DEF ListTurns
  <2> HIDE DEF c, n, D
  <2>0. \A d \in D : d.args \in Seq(C)
    BY <1>4
  <2>4. h[n] \in Seq(D) /\ ArgumentsOf(h[n]) \in Seq(C) /\ p[N] = p[n - 1] \o ArgumentsOf(h[n])
    BY <1>6, <2>1
  <2>5. ArgumentsOf(<<c>> \o h[n]) = c.args \o ArgumentsOf(h[n])
    <3> DEFINE l == h[n]
    <3>1. l \in Seq(D)
      BY <2>4
    <3> HIDE DEF l
    <3>2. ArgumentsOf(<<c>> \o l) = c.args \o ArgumentsOf(l) /\ ArgumentsOf(l) \in Seq(C)
      BY <2>0, <2>2, <3>1, ArgumentsFirst
    <3> QED BY <3>2 DEF l
  <2>6. <<c>> \o h[n] \in Seq(D)
    BY <2>2, <2>4
  <2>7. p[i - 1] \in Seq(C)
    <3>1. i - 1 \in 0 .. N
      BY <1>1
    <3> QED BY <1>2, <3>1
  <2> DEFINE u == p[i - 1]  v == c.args  w == ArgumentsOf(h[n])
  <2>8. u \in Seq(C) /\ v \in Seq(C) /\ w \in Seq(C) /\ p[N] = (u \o v) \o w /\ ArgumentsOf(h[i]) = v \o w
    BY <2>1, <2>3, <2>4, <2>5, <2>7
  <2> HIDE DEF u, v, w
  <2>9. v \o w \in Seq(C) /\ (u \o v) \o w = u \o (v \o w)
    BY <2>8, ConcatThree, SMTT(30)
  <2> QED BY <2>3, <2>6, <2>8, <2>9 DEF u
<1>7. 1 \in T
  <2> HIDE DEF T
  <2>1. 1 .. N + 1 \subseteq T
    BY <1>1, <1>5, <1>6, LaterInduction
  <2>2. 1 \in 1 .. N + 1
    BY <1>1
  <2> QED BY <2>1, <2>2
<1>8. ~IsName(1)
  BY NameStep
<1>9. p[N] = p[0] \o ArgumentsOf(h[1]) /\ ArgumentsOf(h[1]) \in Seq(C)
  <2>1. p[N] = p[1 - 1] \o ArgumentsOf(h[1]) /\ ArgumentsOf(h[1]) \in Seq(C)
    <3> HIDE DEF D, N
    <3> QED BY <1>7, <1>8
  <2> QED BY <2>1
<1>10. p[0] = <<>>
  BY <1>2 DEF PlainTurns
<1> DEFINE w == ArgumentsOf(h[1])
<1>11. <<>> \o w = w
  <2>1. w \in Seq(C)
    BY <1>9
  <2> HIDE DEF w
  <2> QED BY <2>1
<1> QED BY <1>2, <1>3, <1>9, <1>10, <1>11

\* The words of a line reach the commands in their order, and only the names of
\* files do not, however many redirections there are and wherever they are.
THEOREM NoWordLost == Spec => []ArgumentsKept
<1> DEFINE Inv == (\E C : tokens \in Seq(C)) /\ (phase = "list" => list = buildCommandList(tokens))
<1>1. Init => Inv
  <2> SUFFICES ASSUME Init PROVE Inv
    OBVIOUS
  <2>1. CASE InitLine
    <3>1. tokens = <<>> /\ phase = "line"
      BY <2>1 DEF InitLine, None
    <3>2. <<>> \in Seq({})
      OBVIOUS
    <3> QED BY <3>1, <3>2
  <2>2. CASE InitTokens
    <3>1. PICK n \in 0 .. MaxTokens : tokens \in [1 .. n -> Words \cup Operators]
      BY <2>2 DEF InitTokens
    <3>2. phase = "tokens"
      BY <2>2 DEF InitTokens
    <3>3. tokens \in Seq(Words \cup Operators)
      <4>1. n \in Nat
        OBVIOUS
      <4> QED BY <3>1, <4>1
    <3> QED BY <3>2, <3>3
  <2> QED BY <2>1, <2>2 DEF Init
<1>2. LineInv /\ Inv /\ [Next]_vars => Inv'
  <2> SUFFICES ASSUME LineInv, Inv, [Next]_vars PROVE Inv'
    OBVIOUS
  <2>1. CASE Tokenize
    <3>1. parsed' = parse(line, limits.argc_max, limits.buf_len) /\ phase' = "tokens"
      BY <2>1 DEF Tokenize
    <3>2. parsed' \in States(Chars)
      BY <3>1, ParseBounds DEF LineInv
    <3> DEFINE ws == parsed'.argv
               C == {Text(ws[k]) : k \in DOMAIN ws}
    <3>3. tokens' = [k \in DOMAIN ws |-> Text(ws[k])]
      BY <2>1 DEF Tokenize
    <3>4. ws \in Seq(Seq(Chars))
      BY <3>2, StateFields
    <3> HIDE DEF ws
    <3>5. DOMAIN ws = 1 .. Len(ws) /\ Len(ws) \in Nat
      BY <3>4, LenProperties
    <3>6. tokens' \in [1 .. Len(ws) -> C]
      BY <3>3, <3>5
    <3> HIDE DEF C
    <3>7. tokens' \in Seq(C)
      BY <3>5, <3>6
    <3> QED BY <3>1, <3>7
  <2>2. CASE Build
    BY <2>2 DEF Build
  <2>3. CASE UNCHANGED vars
    BY <2>3 DEF vars
  <2> QED BY <2>1, <2>2, <2>3 DEF Next
<1>3. Inv => ArgumentsKept
  <2> SUFFICES ASSUME Inv, phase = "list"
               PROVE  FlattenSeq([k \in DOMAIN list |-> list[k].args]) = PlainTokens
    BY DEF ArgumentsKept
  <2> QED BY ListKeepsArguments DEF ArgumentsOf
<1> HIDE DEF Inv
<1> QED BY <1>1, <1>2, <1>3, LineInvInductive, PTL DEF Spec

==============================================================================
