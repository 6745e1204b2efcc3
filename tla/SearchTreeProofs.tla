--------------------------- MODULE SearchTreeProofs ---------------------------
(***************************************************************************)
(* The board under the search, for every game and every set of calls: each *)
(* call in progress that has a move out has one position on the board, and *)
(* none has more.  Then the types of what the calls keep: what each of     *)
(* them is about is one position of the board, and its moves are that      *)
(* position's.  Then the lines: each leads on from the position its call   *)
(* is about, so that what is given back can be played, and where           *)
(* board_quiesce ends is worth what it says.  Last the scores: each lies   *)
(* between being mated at its ply and mating there, what is stored too,    *)
(* and a root that is searched is given a move.                            *)
(***************************************************************************)
EXTENDS SearchTree, FiniteSetTheorems, SequenceTheorems, WellFoundedInduction, TLAPS

Elements(s) == {s[i] : i \in 1 .. Len(s)}
IsSeq(s) == s \in Seq(Elements(s))

\* What becomes of a sequence, whatever its elements are.
LEMMA Sequences == ASSUME NEW s, IsSeq(s)
  PROVE /\ Len(s) \in Nat /\ (s # <<>> => Len(s) > 0)
        /\ \A e : /\ IsSeq(Append(s, e)) /\ Len(Append(s, e)) = Len(s) + 1
                  /\ Append(s, e)[Len(s) + 1] = e
                  /\ \A i \in 1 .. Len(s) : Append(s, e)[i] = s[i]
        /\ s # <<>> => /\ IsSeq(Front(s)) /\ Len(Front(s)) = Len(s) - 1
                       /\ \A i \in 1 .. Len(s) - 1 : Front(s)[i] = s[i]
                       /\ Last(s) = s[Len(s)]
<1>1. Len(s) \in Nat /\ (s # <<>> => Len(s) > 0)
  BY EmptySeq DEF IsSeq
<1>2. ASSUME NEW S, NEW t \in Seq(S) PROVE IsSeq(t)
  <2>1. Len(t) \in Nat /\ t \in [1 .. Len(t) -> S] /\ DOMAIN t = 1 .. Len(t)
    BY LenProperties
  <2>2. t \in [1 .. Len(t) -> Elements(t)]
    BY <2>1 DEF Elements
  <2> QED BY <2>1, <2>2, SeqDef DEF IsSeq
<1>3. ASSUME NEW e PROVE /\ IsSeq(Append(s, e)) /\ Len(Append(s, e)) = Len(s) + 1
                  /\ Append(s, e)[Len(s) + 1] = e
                  /\ \A i \in 1 .. Len(s) : Append(s, e)[i] = s[i]
  <2> DEFINE S == Elements(s) \cup {e}
  <2>1. s \in Seq(S)
    BY SeqMonotonic DEF IsSeq
  <2>2. e \in S
    OBVIOUS
  <2> HIDE DEF S
  <2>3. Append(s, e) \in Seq(S)
    BY <2>1, <2>2
  <2>4. IsSeq(Append(s, e))
    BY <2>3, <1>2
  <2> QED BY <2>1, <2>2, <2>4
<1>4. s # <<>> => /\ IsSeq(Front(s)) /\ Len(Front(s)) = Len(s) - 1
                  /\ \A i \in 1 .. Len(s) - 1 : Front(s)[i] = s[i]
                  /\ Last(s) = s[Len(s)]
  <2> HAVE s # <<>>
  <2> DEFINE n == Len(s) - 1
             S == Elements(s)
  <2>1. n \in Nat
    BY <1>1
  <2>2. \A i \in 1 .. n : s[i] \in S
    BY <2>1, <1>1 DEF Elements
  <2> HIDE DEF S
  <2>3. /\ SubSeq(s, 1, n) \in Seq(S)
        /\ Len(SubSeq(s, 1, n)) = IF 1 <= n THEN n - 1 + 1 ELSE 0
        /\ \A i \in 1 .. n - 1 + 1 : SubSeq(s, 1, n)[i] = s[1 + i - 1]
    <3> HIDE DEF n
    <3> QED BY <2>1, <2>2, SubSeqProperties
  <2>4. IsSeq(Front(s))
    BY <2>3, <1>2 DEF Front
  <2> HIDE DEF n
  <2>5. Front(s) = SubSeq(s, 1, n) /\ n + 1 = Len(s) /\ n - 1 + 1 = n
    BY <2>1, <1>1 DEF Front, n
  <2>6. \A i \in 1 .. n : Front(s)[i] = s[i]
    BY <2>1, <2>3, <2>5
  <2>7. Len(Front(s)) = n
    BY <2>1, <2>3, <2>5
  <2>8. Last(s) = s[Len(s)]
    BY DEF Last
  <2>9. Len(s) - 1 = n
    BY DEF n
  <2> QED BY <2>4, <2>6, <2>7, <2>8, <2>9
<1>5. \A e : /\ IsSeq(Append(s, e)) /\ Len(Append(s, e)) = Len(s) + 1
             /\ Append(s, e)[Len(s) + 1] = e
             /\ \A i \in 1 .. Len(s) : Append(s, e)[i] = s[i]
  BY <1>3
<1> QED BY <1>1, <1>4, <1>5, Zenon

-----------------------------------------------------------------------------
(***************************************************************************)
(* The calls and the board.  A call has a move out, or a null move, while  *)
(* it waits for what it called below it; the verification of a cut (the    *)
(* place "probed") looks at the same position.                             *)
(***************************************************************************)
Out == {"nulled", "hashed", "tried", "searched"}
Made(f) == IF f.at \in Out THEN 1 ELSE 0
IsFrame(f) == "at" \in DOMAIN f

\* The stack s and n positions: h[i] is the number of them up to the one the i-th call
\* is about.
Heights(s, n) ==
    \E h \in [1 .. Len(s) -> Nat \ {0}] :
        /\ h[1] = 1
        /\ \A i \in 1 .. Len(s) - 1 : h[i + 1] = h[i] + Made(s[i])
        /\ n = h[Len(s)] + Made(s[Len(s)])

Balance(s, n) ==
    /\ IsSeq(s) /\ n \in Nat
    /\ \A i \in 1 .. Len(s) : IsFrame(s[i])
    /\ IF s = <<>> THEN n <= 1 ELSE Heights(s, n)

Balanced == IsSeq(board) /\ Balance(stack, Len(board))

\* The last call returns: what it had out is off the board.
LEMMA Returned == ASSUME NEW s, NEW n, Balance(s, n), s # <<>>
  PROVE  /\ n - Made(Last(s)) >= 1
         /\ Balance(Front(s), n - Made(Last(s)))
<1> DEFINE k == Len(s)
           m == n - Made(Last(s))
<1>1. IsSeq(s) /\ n \in Nat /\ \A i \in 1 .. Len(s) : IsFrame(s[i])
  BY DEF Balance
<1>2. /\ k \in Nat \ {0} /\ IsSeq(Front(s)) /\ Len(Front(s)) = k - 1
      /\ \A i \in 1 .. k - 1 : Front(s)[i] = s[i]
      /\ Last(s) = s[k]
  BY <1>1, Sequences
<1>3. PICK h \in [1 .. k -> Nat \ {0}] :
        /\ h[1] = 1
        /\ \A i \in 1 .. k - 1 : h[i + 1] = h[i] + Made(s[i])
        /\ n = h[k] + Made(s[k])
  BY DEF Balance, Heights
<1> HIDE DEF k
<1>4. Made(s[k]) \in {0, 1} /\ Made(s[k]) = Made(Last(s))
  BY <1>2 DEF Made
<1>5. m = h[k] /\ h[k] \in Nat \ {0}
  BY <1>2, <1>3, <1>4
<1>6. \A i \in 1 .. Len(Front(s)) : IsFrame(Front(s)[i])
  BY <1>1, <1>2 DEF k
<1>7. CASE k = 1
  <2>1. Front(s) = <<>>
    BY <1>2, <1>7, Sequences
  <2> QED BY <1>2, <1>3, <1>5, <1>6, <1>7, <2>1 DEF Balance
<1>8. CASE k # 1
  <2> DEFINE g == [i \in 1 .. k - 1 |-> h[i]]
  <2>1. g \in [1 .. Len(Front(s)) -> Nat \ {0}] /\ g[1] = 1 /\ k - 1 \in 1 .. k - 1
    BY <1>2, <1>3, <1>8
  <2>2. \A i \in 1 .. Len(Front(s)) - 1 : g[i + 1] = g[i] + Made(Front(s)[i])
    BY <1>2, <1>3, <1>8
  <2>3. m = g[Len(Front(s))] + Made(Front(s)[Len(Front(s))])
    <3>1. h[k - 1 + 1] = h[k - 1] + Made(s[k - 1])
      BY <1>2, <1>3, <2>1
    <3> QED BY <1>2, <1>5, <2>1, <3>1
  <2>4. Heights(Front(s), m)
    <3> HIDE DEF g, m
    <3> QED BY <2>1, <2>2, <2>3 DEF Heights
  <2>5. Front(s) # <<>>
    BY <1>2, <1>8, EmptySeq
  <2> QED BY <1>2, <1>5, <1>6, <2>4, <2>5 DEF Balance
<1> QED BY <1>5, <1>7, <1>8

\* A call is made at the position the last one has brought the board to.
LEMMA Called == ASSUME NEW s, NEW n, Balance(s, n), s # <<>> \/ n = 1,
                       NEW f, IsFrame(f)
  PROVE  Balance(Append(s, f), n + Made(f))
<1> DEFINE k == Len(s)
           t == Append(s, f)
<1>1. IsSeq(s) /\ n \in Nat /\ \A i \in 1 .. k : IsFrame(s[i])
  BY DEF Balance
<1>2. /\ k \in Nat /\ (s # <<>> => k > 0) /\ IsSeq(t) /\ Len(t) = k + 1
      /\ \A i \in 1 .. k : t[i] = s[i]
      /\ t[k + 1] = f
  BY <1>1, Sequences
<1>3. Made(f) \in {0, 1}
  BY DEF Made
<1>4. t # <<>> /\ \A i \in 1 .. Len(t) : IsFrame(t[i])
  <2>1. Len(t) # 0
    BY <1>2
  <2>2. t # <<>>
    BY <2>1, EmptySeq
  <2> QED BY <1>1, <1>2, <2>2
<1>5. Heights(t, n + Made(f))
  <2>1. CASE s = <<>>
    <3> DEFINE h == [i \in 1 .. 1 |-> 1]
    <3>1. k = 0
      BY <2>1, EmptySeq
    <3>2. h \in [1 .. Len(t) -> Nat \ {0}] /\ h[1] = 1
      BY <1>2, <3>1
    <3>3. n + Made(f) = h[Len(t)] + Made(t[Len(t)])
      BY <1>2, <2>1, <3>1, <3>2
    <3> HIDE DEF h, t, k
    <3> QED BY <1>2, <3>1, <3>2, <3>3 DEF Heights
  <2>2. CASE s # <<>>
    <3>1. PICK h \in [1 .. k -> Nat \ {0}] :
            /\ h[1] = 1
            /\ \A i \in 1 .. k - 1 : h[i + 1] = h[i] + Made(s[i])
            /\ n = h[k] + Made(s[k])
      BY <2>2 DEF Balance, Heights
    <3> DEFINE g == [i \in 1 .. k + 1 |-> IF i = k + 1 THEN n ELSE h[i]]
    <3> HIDE DEF t, k
    <3>2. Made(s[k]) \in {0, 1} /\ k \in 1 .. k /\ k > 0
      BY <1>2, <2>2 DEF Made
    <3>3. n \in Nat \ {0}
      BY <1>1, <3>1, <3>2
    <3>4. g \in [1 .. Len(t) -> Nat \ {0}] /\ g[1] = 1
      BY <1>2, <3>1, <3>2, <3>3
    <3>5. ASSUME NEW i \in 1 .. Len(t) - 1 PROVE g[i + 1] = g[i] + Made(t[i])
      <4>1. CASE i = k
        BY <1>2, <3>1, <3>2, <4>1
      <4>2. CASE i # k
        <5>1. i \in 1 .. k - 1 /\ i \in 1 .. k /\ i + 1 \in 1 .. k /\ t[i] = s[i]
          BY <1>2, <4>2
        <5> QED BY <1>2, <3>1, <5>1
      <4> QED BY <4>1, <4>2
    <3>6. n + Made(f) = g[Len(t)] + Made(t[Len(t)])
      BY <1>2
    <3> HIDE DEF g
    <3> QED BY <3>4, <3>5, <3>6 DEF Heights
  <2> QED BY <2>1, <2>2
<1>6. n + Made(f) \in Nat
  BY <1>1, <1>3
<1> HIDE DEF t
<1>7. Balance(t, n + Made(f))
  BY <1>2, <1>4, <1>5, <1>6 DEF Balance
<1> QED BY <1>7 DEF t

-----------------------------------------------------------------------------
Unmoved(f, g) == IsFrame(g) /\ g.at = f.at

\* A call that begins has nothing out, and what happens to a frame leaves the place in it
\* alone.
LEMMA Frames ==
  /\ \A fn, d, a, b, t, n : IsFrame(Frame(fn, d, a, b, t, n)) /\ Made(Frame(fn, d, a, b, t, n)) = 0
  /\ \A f : IsFrame(f) => Unmoved(f, Working(f)) /\ Unmoved(f, Counted(f))
<1>1. ASSUME NEW fn, NEW d, NEW a, NEW b, NEW t, NEW n
      PROVE  IsFrame(Frame(fn, d, a, b, t, n)) /\ Made(Frame(fn, d, a, b, t, n)) = 0
  BY DEF Frame, IsFrame, Made, Out
<1>2. ASSUME NEW f, IsFrame(f)
      PROVE  Unmoved(f, Working(f)) /\ Unmoved(f, Counted(f))
  <2>1. \A answer, low : Unmoved(f, Bounded(f, answer, low))
    BY <1>2 DEF Bounded, IsFrame, Unmoved
  <2>2. \A answer : Unmoved(f, Answered(f, answer))
    BY <2>1 DEF Answered
  <2>3. ASSUME NEW g, Unmoved(f, g), NEW place
        PROVE  Unmoved(f, Untaken(g, place))
    BY <2>3 DEF Untaken, IsFrame, Unmoved
  <2>4. Unmoved(f, Working(f))
    BY <2>2, <2>3 DEF Working
  <2>5. Unmoved(f, Counted(f))
    BY <1>2 DEF Counted, IsFrame, Unmoved
  <2> QED BY <2>4, <2>5
<1> QED BY <1>1, <1>2

\* What a step of the call on top makes of the stack, when it takes from the board what
\* it had out and puts there what it now has out.
LEMMA Moved == ASSUME Balanced, stack # <<>>, IsSeq(board')
  PROVE  /\ IsFrame(Top)
         /\ \A score, line :
              Return(score, line) /\ Len(board') = Len(board) - Made(Top) => Balanced'
         /\ \A f :
              Go(f) /\ IsFrame(f) /\ Len(board') = Len(board) - Made(Top) + Made(f) => Balanced'
         /\ \A f, g :
              Call(f, g) /\ IsFrame(f) /\ IsFrame(g) /\ Made(g) = 0
                /\ Len(board') = Len(board) - Made(Top) + Made(f) => Balanced'
<1> DEFINE s == Front(stack)
           n == Len(board) - Made(Top)
<1>1. IsSeq(stack) /\ Balance(stack, Len(board)) /\ \A i \in 1 .. Len(stack) : IsFrame(stack[i])
  BY DEF Balanced, Balance
<1>2. IsFrame(Top)
  BY <1>1, Sequences DEF Top
<1>3. Balance(s, n) /\ n >= 1
  BY <1>1, Returned DEF Top
<1>4. s # <<>> \/ n = 1
  BY <1>3 DEF Balance
<1> HIDE DEF s, n
<1>5. ASSUME NEW score, NEW line, Return(score, line), Len(board') = Len(board) - Made(Top)
      PROVE  Balanced'
  <2>1. stack' = s /\ Len(board') = n
    BY <1>5 DEF Return, s, n
  <2> QED BY <2>1, <1>3 DEF Balanced
<1>6. ASSUME NEW f, Go(f), IsFrame(f), Len(board') = Len(board) - Made(Top) + Made(f)
      PROVE  Balanced'
  <2>1. stack' = Append(s, f) /\ Len(board') = n + Made(f)
    BY <1>6 DEF Go, s, n
  <2>2. Balance(Append(s, f), n + Made(f))
    BY <1>3, <1>4, <1>6, Called
  <2> QED BY <2>1, <2>2 DEF Balanced
<1>7. ASSUME NEW f, NEW g, Call(f, g), IsFrame(f), IsFrame(g), Made(g) = 0,
             Len(board') = Len(board) - Made(Top) + Made(f)
      PROVE  Balanced'
  <2> DEFINE t == Append(s, f)
             m == n + Made(f)
  <2>1. Balance(t, m)
    BY <1>3, <1>4, <1>7, Called
  <2>2. t # <<>> /\ m \in Nat /\ m + Made(g) = m
    <3>1. IsSeq(s)
      BY <1>3 DEF Balance
    <3>2. Len(t) # 0
      BY <3>1, Sequences
    <3> QED BY <2>1, <3>2, <1>7, EmptySeq DEF Balance
  <2>3. Balance(Append(t, g), m)
    <3> HIDE DEF t, m
    <3> QED BY <2>1, <2>2, <1>7, Called
  <2>4. stack' = Append(t, g)
    <3>1. PICK S : s \in Seq(S)
      BY <1>3 DEF Balance, IsSeq
    <3>2. s \in Seq(S \cup {f, g})
      BY <3>1, SeqMonotonic
    <3>3. s \o <<f, g>> = Append(Append(s, f), g)
      BY <3>2
    <3> QED BY <3>3, <1>7 DEF Call, s
  <2>5. Len(board') = m
    BY <1>7 DEF n
  <2> HIDE DEF t, m
  <2> QED BY <2>3, <2>4, <2>5 DEF Balanced
<1> QED BY <1>2, <1>5, <1>6, <1>7, Zenon

\* Every step of a call keeps the balance: a move is put on the board with a call made
\* below it, and taken back on every way the call goes on after that.
LEMMA StepBalances == ASSUME Balanced, Step PROVE Balanced'
<1>0. stack # <<>>
  BY DEF Step, Look, Play, Keep, EndAtRoot, EndEarly, EndInQuiesce, EndInTable, Work,
         NoNullMove, Probcut, AfterProbcut, NoHashMove, PruneMove, TryAgain, QuiesceEnter,
         QuiesceSkip, QuiesceDone, NullMove, AfterNullMove, HashMove, TryMove, AfterMove,
         QuiesceMove, AfterQuiesceMove, EndInTablebase, Done, AfterHashMove, StopItself,
         Enter, At, Back
<1> DEFINE
      Returns0 == \E score, line : Return(score, line)
      Goes0 == \E f : Go(f) /\ IsFrame(f) /\ Made(f) = Made(Top)
      Calls0 == \E f, g : Call(f, g) /\ IsFrame(f) /\ IsFrame(g) /\ Made(g) = 0 /\ Made(f) = Made(Top)
      Calls1 == \E f, g : Call(f, g) /\ IsFrame(f) /\ IsFrame(g) /\ Made(g) = 0 /\ Made(f) = 1
      Goes1 == \E f : Go(f) /\ IsFrame(f) /\ Made(f) = 0
<1>1. IsSeq(board) /\ Len(board) \in Nat
  BY Sequences DEF Balanced
<1>2. IsFrame(Top)
  BY <1>0, Sequences DEF Balanced, Balance, Top
<1>3. \A f : Unmoved(Top, f) => Made(f) = Made(Top)
  BY DEF Unmoved, Made
<1>4. ASSUME board' = board, (Returns0 /\ Made(Top) = 0) \/ Goes0 \/ Calls0 PROVE Balanced'
  <2>1. IsSeq(board') /\ Len(board') = Len(board) /\ Made(Top) \in {0, 1}
    BY <1>1, <1>4 DEF Made
  <2>2. CASE Returns0 /\ Made(Top) = 0
    BY <1>0, <1>1, <2>1, <2>2, Moved
  <2>3. CASE Goes0
    <3>1. PICK f : Go(f) /\ IsFrame(f) /\ Made(f) = Made(Top)
      BY <2>3
    <3>2. Len(board') = Len(board) - Made(Top) + Made(f)
      BY <1>1, <2>1, <3>1
    <3> QED BY <1>0, <2>1, <3>1, <3>2, Moved
  <2>4. CASE Calls0
    <3>1. PICK f, g : Call(f, g) /\ IsFrame(f) /\ IsFrame(g) /\ Made(g) = 0 /\ Made(f) = Made(Top)
      BY <2>4
    <3>2. Len(board') = Len(board) - Made(Top) + Made(f)
      BY <1>1, <2>1, <3>1
    <3> QED BY <1>0, <2>1, <3>1, <3>2, Moved
  <2> QED BY <1>4, <2>2, <2>3, <2>4
<1>5. ASSUME NEW n, board' = Append(board, n), Made(Top) = 0, Calls1 PROVE Balanced'
  <2>1. IsSeq(board') /\ Len(board') = Len(board) + 1
    BY <1>1, <1>5, Sequences
  <2>2. PICK f, g : Call(f, g) /\ IsFrame(f) /\ IsFrame(g) /\ Made(g) = 0 /\ Made(f) = 1
    BY <1>5
  <2>3. Len(board') = Len(board) - Made(Top) + Made(f)
    BY <1>1, <1>5, <2>1, <2>2
  <2> QED BY <1>0, <2>1, <2>2, <2>3, Moved
<1>6. ASSUME board' = Front(board), Made(Top) = 1, Returns0 \/ Goes1 PROVE Balanced'
  <2>1. Len(board) # 0
    <3>1. Len(board) - Made(Last(stack)) >= 1
      BY <1>0, Returned DEF Balanced
    <3> QED BY <1>1, <1>6, <3>1 DEF Top
  <2>2. board # <<>>
    BY <2>1, EmptySeq
  <2>3. IsSeq(board') /\ Len(board') = Len(board) - Made(Top)
    BY <1>1, <1>6, <2>2, Sequences
  <2>4. CASE Returns0
    BY <1>0, <2>3, <2>4, Moved
  <2>5. CASE Goes1
    <3>1. PICK f : Go(f) /\ IsFrame(f) /\ Made(f) = 0
      BY <2>5
    <3>2. Len(board') = Len(board) - Made(Top) + Made(f)
      BY <1>1, <1>6, <2>3, <3>1
    <3> QED BY <1>0, <2>3, <3>1, <3>2, Moved
  <2> QED BY <1>6, <2>4, <2>5
<1> HIDE DEF Returns0, Goes0, Calls0, Calls1, Goes1
\* Where a frame may be, and what a call made from it may be.
<1>7. ASSUME NEW stage, Enter(stage) PROVE Made(Top) = 0 /\ Top.at = "enter"
  BY <1>7 DEF Enter, At, Made, Out
<1>8. ASSUME NEW place \in {"enter", "null", "probcut", "hash", "loop"}, At(place)
      PROVE  Made(Top) = 0
  BY <1>8 DEF At, Made, Out
<1>9. ASSUME NEW f, NEW g, Call(f, g), IsFrame(f), Made(f) = 1,
             \E fn, d, a, b, t, n : g = Frame(fn, d, a, b, t, n)
      PROVE  Calls1
  BY <1>9, Frames DEF Calls1
<1>10. CASE Look /\ UNCHANGED <<board, stop, table>>
  <2>1. CASE EndAtRoot \/ EndEarly \/ EndInTable
    BY <1>4, <1>7, <1>10, <2>1 DEF EndAtRoot, EndEarly, EndInTable, Returns0
  <2>2. CASE EndInQuiesce
    BY <1>4, <1>7, <1>10, <2>2, Frames DEF EndInQuiesce, Goes0
  <2>3. CASE Work
    <3>1. Unmoved(Top, Working(Top)) /\ Made(Top) = 0
      BY <1>2, <1>7, <2>3, Frames DEF Work
    <3> DEFINE f == Working(Top)
    <3>2. CASE Futile(f)
      BY <1>4, <1>10, <2>3, <3>1, <3>2 DEF Work, Start, Returns0
    <3>3. CASE ~Futile(f)
      <4> DEFINE g == [f EXCEPT !.at = IF f.fn = "pv" THEN "hash" ELSE "null"]
      <4>1. Go(g)
        BY <2>3, <3>3 DEF Work, Start
      <4>2. IsFrame(g) /\ Made(g) = 0
        BY <3>1 DEF Unmoved, IsFrame, Made, Out
      <4> QED BY <1>4, <1>10, <3>1, <4>1, <4>2, Zenon DEF Goes0
    <3> QED BY <3>2, <3>3
  <2>4. CASE NoNullMove \/ NoHashMove
    <3>1. Made(Top) = 0
      BY <1>8, <2>4 DEF NoNullMove, NoHashMove
    <3>2. \A place : IsFrame([Top EXCEPT !.at = place]) /\ [Top EXCEPT !.at = place].at = place
      BY <1>2 DEF IsFrame
    <3> QED BY <1>4, <1>10, <2>4, <3>1, <3>2 DEF NoNullMove, NoHashMove, Goes0, Made, Out
  <2>5. CASE Probcut
    <3>1. Made(Top) = 0
      BY <1>8, <2>5 DEF Probcut
    <3>2. \A place : IsFrame([Top EXCEPT !.at = place]) /\ [Top EXCEPT !.at = place].at = place
      BY <1>2 DEF IsFrame
    <3> QED BY <1>4, <1>10, <2>5, <3>1, <3>2, Frames DEF Probcut, Goes0, Calls0, Made, Out
  <2>6. CASE AfterProbcut
    <3>1. Made(Top) = 0
      BY <2>6 DEF AfterProbcut, Back, Made, Out
    <3>2. \A place : IsFrame([Top EXCEPT !.at = place]) /\ [Top EXCEPT !.at = place].at = place
      BY <1>2 DEF IsFrame
    <3> QED BY <1>4, <1>10, <2>6, <3>1, <3>2 DEF AfterProbcut, Goes0, Returns0, Made, Out
  <2>7. CASE PruneMove
    BY <1>2, <1>3, <1>4, <1>10, <2>7, Frames DEF PruneMove, Goes0, Unmoved
  <2>8. CASE TryAgain
    <3>1. Made(Top) = 1
      BY <2>8 DEF TryAgain, Back, Made, Out
    <3>2. IsFrame([Top EXCEPT !.at = "searched"]) /\ [Top EXCEPT !.at = "searched"].at = "searched"
      BY <1>2 DEF IsFrame
    <3>3. IsFrame(FullChild(Top)) /\ Made(FullChild(Top)) = 0
      BY Frames DEF FullChild, PvChild, ScoutChild
    <3> QED BY <1>4, <1>10, <2>8, <3>1, <3>2, <3>3 DEF TryAgain, Calls0, Made, Out
  <2>9. CASE QuiesceEnter \/ QuiesceSkip \/ QuiesceDone
    <3>1. Made(Top) = 0
      BY <1>8, <2>9 DEF QuiesceEnter, QuiesceSkip, QuiesceDone
    <3>2. CASE QuiesceEnter
      <4>1. Returns0 \/ \E a, l : Go([Top EXCEPT !.at = "loop", !.alpha = a, !.left = l])
        BY <3>2 DEF QuiesceEnter, QuiesceStart, Returns0
      <4>2. \A a, l : LET f == [Top EXCEPT !.at = "loop", !.alpha = a, !.left = l]
                      IN IsFrame(f) /\ Made(f) = 0
        BY <1>2 DEF IsFrame, Made, Out
      <4>3. ASSUME NEW a, NEW l, Go([Top EXCEPT !.at = "loop", !.alpha = a, !.left = l])
            PROVE  Goes0
        <5> DEFINE f == [Top EXCEPT !.at = "loop", !.alpha = a, !.left = l]
        <5>1. IsFrame(f) /\ Made(f) = 0
          BY <4>2
        <5> HIDE DEF f
        <5>2. Go(f)
          BY <4>3 DEF f
        <5> QED BY <3>1, <5>1, <5>2 DEF Goes0
      <4> QED BY <1>4, <1>10, <3>1, <4>1, <4>3
    <3>3. CASE QuiesceSkip
      <4>1. Unmoved(Top, [Top EXCEPT !.left = Untried(Top)])
        BY <1>2 DEF Unmoved, IsFrame
      <4> QED BY <1>3, <1>4, <1>10, <3>3, <4>1 DEF QuiesceSkip, Goes0, Unmoved
    <3>4. CASE QuiesceDone
      BY <1>4, <1>10, <3>1, <3>4 DEF QuiesceDone, Returns0
    <3> QED BY <2>9, <3>2, <3>3, <3>4
  <2> QED BY <1>10, <2>1, <2>2, <2>3, <2>4, <2>5, <2>6, <2>7, <2>8, <2>9 DEF Look
<1>11. CASE Play /\ UNCHANGED <<stop, table>>
  <2>1. CASE NullMove
    <3> DEFINE f == [Top EXCEPT !.at = "nulled"]
    <3>1. Made(Top) = 0
      BY <1>8, <2>1 DEF NullMove
    <3>2. IsFrame(f) /\ Made(f) = 1
      BY <1>2 DEF IsFrame, Made, Out
    <3>3. Calls1
      BY <1>9, <2>1, <3>2 DEF NullMove
    <3> QED BY <1>5, <2>1, <3>1, <3>3 DEF NullMove
  <2>2. CASE HashMove
    <3> DEFINE f == [Top EXCEPT !.at = "hashed", !.move = Top.hash_move]
    <3>1. Made(Top) = 0
      BY <1>8, <2>2 DEF HashMove
    <3>2. IsFrame(f) /\ Made(f) = 1
      BY <1>2 DEF IsFrame, Made, Out
    <3>3. Calls1
      BY <1>9, <2>2, <3>2 DEF HashMove, FullChild, PvChild, ScoutChild
    <3> QED BY <1>5, <2>2, <3>1, <3>3 DEF HashMove, MakeMove
  <2>3. CASE TryMove
    <3> DEFINE f == Counted(Top)
    <3>1. Made(Top) = 0
      BY <1>8, <2>3 DEF TryMove
    <3>2. IsFrame(f)
      BY <1>2, Frames DEF Unmoved
    <3>3. /\ IsFrame([f EXCEPT !.at = "searched"]) /\ Made([f EXCEPT !.at = "searched"]) = 1
          /\ IsFrame([f EXCEPT !.at = "tried"]) /\ Made([f EXCEPT !.at = "tried"]) = 1
          /\ \A d : LET g == [f EXCEPT !.at = "tried", !.search_depth = d]
                    IN IsFrame(g) /\ Made(g) = 1
      BY <3>2 DEF IsFrame, Made, Out
    <3> HIDE DEF f
    <3>4. Calls1
      <4>1. CASE f.fn = "pv" /\ f.counter = 1
        BY <1>9, <2>3, <3>3, <4>1 DEF TryMove, PvChild, f
      <4>2. CASE ~(f.fn = "pv" /\ f.counter = 1) /\ f.fn = "pv" /\ f.counter > 1
        BY <1>9, <2>3, <3>3, <4>2 DEF TryMove, f
      <4>3. CASE ~(f.fn = "pv" /\ f.counter = 1) /\ ~(f.fn = "pv" /\ f.counter > 1)
        BY <1>9, <2>3, <3>3, <4>3 DEF TryMove, ScoutChild, f
      <4> QED BY <4>1, <4>2, <4>3
    <3> QED BY <1>5, <2>3, <3>1, <3>4 DEF TryMove, MakeMove
  <2>4. CASE QuiesceMove
    <3> DEFINE f == [Top EXCEPT !.at = "searched", !.left = Untried(Top)]
    <3>1. Made(Top) = 0
      BY <1>8, <2>4 DEF QuiesceMove
    <3>2. IsFrame(f) /\ Made(f) = 1
      BY <1>2 DEF IsFrame, Made, Out
    <3>3. Calls1
      BY <1>9, <2>4, <3>2 DEF QuiesceMove
    <3> QED BY <1>5, <2>4, <3>1, <3>3 DEF QuiesceMove, MakeMove
  <2>5. CASE AfterNullMove
    <3>1. Made(Top) = 1
      BY <2>5 DEF AfterNullMove, Back, Made, Out
    <3>2. IsFrame([Top EXCEPT !.at = "probcut"]) /\ Made([Top EXCEPT !.at = "probcut"]) = 0
      BY <1>2 DEF IsFrame, Made, Out
    <3> QED BY <1>6, <2>5, <3>1, <3>2 DEF AfterNullMove, Unmake, Goes1, Returns0
  <2>6. CASE AfterMove
    <3>1. Made(Top) = 1
      BY <2>6 DEF AfterMove, Back, Made, Out
    <3> DEFINE better == -ret.score > Top.best
               f == Raised(IF better THEN Improved(Top, -ret.score) ELSE Top)
               g == [f EXCEPT !.left = IF Cut(f) THEN {} ELSE @]
    <3>2. IsFrame(f) /\ f.at = "loop"
      BY <1>2 DEF IsFrame, Raised, Improved
    <3> HIDE DEF f
    <3>3. IsFrame(g) /\ Made(g) = 0
      BY <3>2 DEF IsFrame, Made, Out
    <3>4. (Returns0 \/ Go(g)) /\ board' = Front(board)
      BY <2>6 DEF AfterMove, Returns0, LeaveBoard, Unmake, f
    <3> HIDE DEF g
    <3> QED BY <1>6, <3>1, <3>3, <3>4 DEF Goes1
  <2>7. CASE AfterQuiesceMove
    <3>1. Made(Top) = 1
      BY <2>7 DEF AfterQuiesceMove, Back, Made, Out
    <3> DEFINE f == Raised(Top)
               g == [f EXCEPT !.left = IF Cut(f) THEN {} ELSE @,
                              !.line = IF Top.fn = "settle" THEN Way(Top) ELSE @]
    <3>2. IsFrame(f) /\ f.at = "loop"
      BY <1>2 DEF IsFrame, Raised
    <3> HIDE DEF f
    <3>3. IsFrame(g) /\ Made(g) = 0
      BY <3>2 DEF IsFrame, Made, Out
    <3>4. Go(g) /\ board' = Front(board)
      BY <2>7 DEF AfterQuiesceMove, Unmake, f
    <3> HIDE DEF g
    <3> QED BY <1>6, <3>1, <3>3, <3>4 DEF Goes1
  <2> QED BY <1>11, <2>1, <2>2, <2>3, <2>4, <2>5, <2>6, <2>7 DEF Play
<1>12. CASE Keep /\ UNCHANGED <<board, stop>>
  <2>1. Made(Top) = 0
    BY <1>7, <1>8, <1>12 DEF Keep, EndInTablebase, Done
  <2> QED BY <1>4, <1>12, <2>1 DEF Keep, EndInTablebase, Done, Returns0
<1>13. CASE AfterHashMove /\ UNCHANGED stop
  <2>1. Made(Top) = 1
    BY <1>13 DEF AfterHashMove, Back, Made, Out
  <2> DEFINE pv == Top.fn = "pv"
             score == IF pv THEN Max({Top.best, -ret.score}) ELSE -ret.score
             f == [Raised(Improved(Top, score)) EXCEPT !.counter = IF pv THEN 1 ELSE 0]
  <2>2. IsFrame(f) /\ Made(f) = 0
    BY <1>2 DEF IsFrame, Raised, Improved, Made, Out
  <2> HIDE DEF f
  <2>3. (Returns0 \/ Go(f)) /\ board' = Front(board)
    BY <1>13 DEF AfterHashMove, Returns0, Unmake, f
  <2> QED BY <1>6, <2>1, <2>2, <2>3 DEF Goes1
<1>14. CASE StopItself /\ UNCHANGED <<board, table>>
  BY <1>4, <1>7, <1>14 DEF StopItself, Returns0
<1> QED BY <1>10, <1>11, <1>12, <1>13, <1>14 DEF Step

\* Whatever is asked, whenever it is stopped and whichever way it goes, a search that
\* has ended has taken back every move and every null move: the board is the root's.
THEOREM BoardIsRestored == Spec => []BoardRestored
<1>1. Init => Balanced
  <2> SUFFICES ASSUME Init PROVE Balanced
    OBVIOUS
  <2>1. IsSeq(<<>>) /\ Len(<<>>) = 0
    BY EmptySeq DEF IsSeq
  <2> QED BY <2>1 DEF Init, Balanced, Balance
<1>2. Balanced /\ [Next]_vars => Balanced'
  <2> SUFFICES ASSUME Balanced, [Next]_vars PROVE Balanced'
    OBVIOUS
  <2>1. CASE Ask
    <3>1. PICK ask \in Asks :
            /\ stack' = <<Frame(ask.fn, ask.depth, ask.alpha, ask.beta, "PV", TRUE)>>
            /\ board' = <<ask.root>>
      BY <2>1 DEF Ask
    <3> DEFINE f == Frame(ask.fn, ask.depth, ask.alpha, ask.beta, "PV", TRUE)
    <3>2. IsSeq(<<>>) /\ Len(<<>>) = 0
      BY EmptySeq DEF IsSeq
    <3>3. board' = Append(<<>>, ask.root) /\ stack' = Append(<<>>, f)
      <4>1. \A x : <<x>> = Append(<<>>, x)
        OBVIOUS
      <4> QED BY <3>1, <4>1
    <3>4. IsSeq(board') /\ Len(board') = 1
      <4>1. \A x : IsSeq(Append(<<>>, x)) /\ Len(Append(<<>>, x)) = Len(<<>>) + 1
        BY <3>2, Sequences
      <4> QED BY <3>2, <3>3, <4>1
    <3>5. IsFrame(f) /\ Made(f) = 0
      BY Frames
    <3> HIDE DEF f
    <3>6. Balance(<<>>, 1)
      BY <3>2 DEF Balance
    <3>7. Balance(Append(<<>>, f), 1)
      <4>1. Balance(Append(<<>>, f), 1 + Made(f))
        BY <3>5, <3>6, Called
      <4> QED BY <3>5, <4>1
    <3> QED BY <3>3, <3>4, <3>5, <3>7 DEF Balanced
  <2>2. CASE Step
    BY <2>2, StepBalances
  <2>3. CASE SetStop \/ UNCHANGED vars
    BY <2>3 DEF SetStop, vars, Balanced, Balance
  <2> QED BY <2>1, <2>2, <2>3 DEF Next
<1>3. Balanced => BoardRestored
  BY DEF Balanced, Balance, BoardRestored, Idle
<1> QED BY <1>1, <1>2, <1>3, PTL DEF Spec
-----------------------------------------------------------------------------
(***************************************************************************)
(* What the calls in progress are about.                                   *)
(***************************************************************************)
Fields ==
    {"fn", "at", "depth", "alpha", "beta", "alpha_start", "type", "allow_null", "best", "best_move",
     "score_ub", "hash_move", "move", "left", "counter", "search_depth", "line"}

\* A node that has begun has a depth to search and, as long as it has moves to try, an open
\* window; one that has not may be a leaf, and has room for the extension of a check.
Ready(f) ==
    \/ f.at = "enter" /\ f.depth \in 0 .. MAX_DEPTH - 2 /\ f.alpha < f.beta
    \/ /\ f.at # "enter" /\ f.depth \in 1 .. MAX_DEPTH - 1
       /\ f.alpha < f.beta \/ (f.at = "loop" /\ f.left = {})
Sound(f) ==
    /\ Fields \subseteq DOMAIN f
    /\ f.alpha \in Int /\ f.beta \in Int /\ f.best \in Int /\ f.score_ub \in Int
    /\ \/ f.fn \in {"pv", "scout"} /\ Ready(f)
       \/ f.fn \in {"quiesce", "settle"} /\ f.depth = 0 /\ f.at \in {"enter", "loop", "searched"}

\* Its moves are those of the position n, and until the loop begins the hash move is
\* none of those left.
Begun(f) == f.at \in {"loop", "tried", "searched"}
Seated(f, n) ==
    /\ Sound(f)
    /\ f.left \subseteq DOMAIN Game[n].moves
    /\ f.hash_move \in DOMAIN Game[n].moves \cup {0}
    /\ f.counter \in Nat /\ f.counter + Cardinality(f.left) < MAX_MOVES
    /\ ~Begun(f) => f.counter = 0 /\ f.hash_move \notin f.left
    /\ f.at = "hashed" => f.hash_move # 0

\* The i-th call of the stack s is about the position h[i] of the board b.
Seats(s, b, h) ==
    /\ \A i, j \in 1 .. Len(s) : i <= j => h[i] <= h[j]
    /\ \A i \in 1 .. Len(s) - 1 : h[i + 1] = h[i] + Made(s[i])
    /\ \A i \in 1 .. Len(s) : Seated(s[i], b[h[i]])

\* The position a call made by the last of them is about is the n-th.
Waiting(s, b, h, n) ==
    /\ IsSeq(s) /\ h \in [1 .. Len(s) -> Nat \ {0}] /\ Seats(s, b, h) /\ n \in Nat \ {0}
    /\ s # <<>> => n = h[Len(s)] + Made(s[Len(s)])
Placed(s, b) == IsSeq(s) /\ (s # <<>> => \E h : Waiting(s, b, h, Len(b)))

OnBoard(b) == IsSeq(b) /\ \A i \in 1 .. Len(b) : b[i] \in DOMAIN Game
InTable(t) == DOMAIN t = 0 .. Slots - 1 /\ \A i \in 0 .. Slots - 1 : t[i].score \in Int
Typed ==
    /\ stop \in BOOLEAN /\ ret.given \in BOOLEAN /\ ret.score \in Int /\ root_ply \in Nat
    /\ InTable(table) /\ OnBoard(board) /\ Placed(stack, board)

\* The larger and the smaller of two numbers, and the first of a set of places.
LEMMA Extremes ==
  /\ \A a, b \in Int : Max({a, b}) = IF a >= b THEN a ELSE b
  /\ \A a, b \in Int : Min({a, b}) = IF a <= b THEN a ELSE b
  /\ \A S \in SUBSET Nat : S # {} => Min(S) \in S /\ \A y \in S : Min(S) <= y
<1>1. ASSUME NEW a \in Int, NEW b \in Int PROVE Max({a, b}) = IF a >= b THEN a ELSE b
  <2> DEFINE m == IF a >= b THEN a ELSE b
  <2>1. m \in {a, b} /\ \A y \in {a, b} : m >= y
    OBVIOUS
  <2>2. \A x \in {a, b} : (\A y \in {a, b} : x >= y) => x = m
    OBVIOUS
  <2> QED BY <2>1, <2>2 DEF Max
<1>2. ASSUME NEW a \in Int, NEW b \in Int PROVE Min({a, b}) = IF a <= b THEN a ELSE b
  <2> DEFINE m == IF a <= b THEN a ELSE b
  <2>1. m \in {a, b} /\ \A y \in {a, b} : m =< y
    OBVIOUS
  <2>2. \A x \in {a, b} : (\A y \in {a, b} : x =< y) => x = m
    OBVIOUS
  <2> QED BY <2>1, <2>2 DEF Min
<1>3. ASSUME NEW S \in SUBSET Nat, S # {} PROVE Min(S) \in S /\ \A y \in S : Min(S) <= y
  <2>1. PICK x \in S : \A y \in S : ~(<<y, x>> \in OpToRel(<, Nat))
    BY <1>3, WFMin, NatLessThanWellFounded
  <2>2. ASSUME NEW y \in S PROVE x =< y
    <3>1. x \in Nat /\ y \in Nat
      OBVIOUS
    <3>2. CASE y < x
      <4>1. <<y, x>> \in Nat \X Nat /\ <<y, x>>[1] < <<y, x>>[2]
        BY <3>1, <3>2
      <4>2. <<y, x>> \in OpToRel(<, Nat)
        BY <4>1, Zenon DEF OpToRel
      <4> QED BY <2>1, <4>2, Zenon
    <3> QED BY <3>1, <3>2
  <2> QED BY <2>2 DEF Min
<1> QED BY <1>1, <1>2, <1>3

\* What FirstOf gives is one of the scores, and where it gives none every exit is closed.
LEMMA FirstExit ==
  ASSUME NEW exits, DOMAIN exits \subseteq Nat
  PROVE  /\ FirstOf(exits) = <<>> => \A i \in DOMAIN exits : ~exits[i][1]
         /\ FirstOf(exits) # <<>> => \E i \in DOMAIN exits : exits[i][1] /\ FirstOf(exits)[1] = exits[i][2]
<1> DEFINE open == {i \in DOMAIN exits : exits[i][1]}
<1>1. open \in SUBSET Nat
  OBVIOUS
<1>2. CASE open = {}
  BY <1>2 DEF FirstOf
<1>3. CASE open # {}
  <2>1. Min(open) \in open
    <3> HIDE DEF open
    <3> QED BY <1>1, <1>3, Extremes
  <2>2. FirstOf(exits) = <<exits[Min(open)][2]>>
    BY <1>3 DEF FirstOf
  <2>3. \A x : <<x>> # <<>> /\ <<x>>[1] = x
    OBVIOUS
  <2> QED BY <2>1, <2>2, <2>3
<1> QED BY <1>2, <1>3

\* What the numbers of a position and of an entry come to is a number.
LEMMA Scores ==
  ASSUME Typed, board # <<>>
  PROVE  /\ Last(board) \in DOMAIN Game /\ Last(board) = board[Len(board)]
         /\ here.eval \in Int /\ ply \in Nat /\ terminal \in Int /\ drawn_score \in Int
         /\ probe_wdl.score \in Int /\ hit_eval \in Int
         /\ root_moves # {} => root_score \in Int
<1>1. Last(board) = board[Len(board)] /\ Len(board) \in Nat /\ Len(board) > 0
  BY Sequences DEF Typed, OnBoard
<1>2. Last(board) \in DOMAIN Game
  BY <1>1 DEF Typed, OnBoard
<1>3. here.eval \in Int /\ here.dtz \in Int /\ here.wdl \in DOMAIN WdlBounds
  BY <1>2, PositionsAssumption DEF here
<1>4. ply \in Nat
  BY <1>1 DEF Typed, ply, height
<1>5. terminal \in Int /\ drawn_score \in Int
  <2>1. drawn_score \in Int
    BY TablesAssumption DEF drawn_score
  <2> QED BY <1>4, <2>1 DEF terminal, ply_to_mate_score, TT!MATING_SCORE, TT!MAX_SCORE
<1>6. \A w \in DOMAIN WdlBounds : WdlScores[w] \in Int
  BY <1>5 DEF WdlScores, WdlBounds, TBWIN, TT!MIN_MATE_SCORE, TT!MATING_SCORE, TT!MAX_SCORE, TT!MAX_PLY
<1>7. probe_wdl.score \in Int
  <2>1. "FAILED" \in DOMAIN WdlBounds
    BY DEF WdlBounds
  <2> QED BY <1>3, <1>6, <2>1 DEF probe_wdl, Wdl
<1>8. hit_eval \in Int
  <2>1. hash % Slots \in 0 .. Slots - 1
    BY <1>2, GameAssumption, TablesAssumption DEF hash
  <2>2. hit.score \in Int
    BY <2>1 DEF hit, TT!Index, Typed, InTable
  <2> QED BY <1>4, <2>2 DEF hit_eval, TT!eval_from_tt
<1>9. root_score \in Int
  <2>1. TBWIN \in Int
    BY DEF TBWIN, TT!MIN_MATE_SCORE, TT!MATING_SCORE, TT!MAX_SCORE, TT!MAX_PLY
  <2> QED BY <1>3, <1>6, <2>1 DEF root_score
<1> QED BY <1>1, <1>2, <1>3, <1>4, <1>5, <1>7, <1>8, <1>9

\* A head of pv_search or scout_search that ends early does so with a score; one that
\* does not has a window above the mate it may be in and below the one it may give.
LEMMA Heads ==
  ASSUME Typed, board # <<>>, NEW f
  PROVE  /\ EarlyScore(f) # <<>> => EarlyScore(f)[1] \in Int
         /\ EarlyScore(f) = <<>> => ~(-ply_to_mate_score(ply) >= f.beta)
<1> DEFINE mate == ply_to_mate_score(ply)
           exits == << <<here.moves = <<>>, terminal>>,
                       <<here.draw /\ ~(f.fn = "pv" /\ is_root), drawn_score>>,
                       <<mate <= f.alpha, mate>>, <<-mate >= f.beta, -mate>>,
                       <<ply >= TT!MAX_PLY, here.eval>> >>
<1>1. EarlyScore(f) = FirstOf(exits)
  BY DEF EarlyScore
<1>2. mate \in Int
  BY Scores DEF ply_to_mate_score, TT!MATING_SCORE, TT!MAX_SCORE
<1> HIDE DEF mate
<1>3. DOMAIN exits = 1 .. 5
  OBVIOUS
<1>4. exits[4][1] = (-mate >= f.beta)
  OBVIOUS
<1>5. \A i \in 1 .. 5 : exits[i][2] \in Int
  <2>1. terminal \in Int /\ drawn_score \in Int /\ here.eval \in Int /\ -mate \in Int
    BY <1>2, Scores
  <2> QED BY <1>2, <2>1
<1> HIDE DEF exits
<1>6. DOMAIN exits \subseteq Nat /\ 4 \in DOMAIN exits
  BY <1>3
<1>7. /\ FirstOf(exits) = <<>> => ~exits[4][1]
      /\ FirstOf(exits) # <<>> => \E i \in 1 .. 5 : FirstOf(exits)[1] = exits[i][2]
  BY <1>3, <1>6, FirstExit
<1> QED BY <1>1, <1>4, <1>5, <1>7 DEF mate

LEMMA QuiesceHeads ==
  ASSUME Typed, board # <<>>, NEW f, QuiesceScore(f, here) # <<>>
  PROVE  QuiesceScore(f, here)[1] \in Int
<1> DEFINE p == here
           exits == << <<p.check /\ p.moves = <<>>, terminal>>,
                       <<p.draw, drawn_score>>,
                       <<~p.check /\ p.eval >= f.beta, p.eval>>,
                       <<p.eval + 900 + (IF p.seventh THEN 500 ELSE 0) <= Max({f.alpha, p.eval}), p.eval>>,
                       <<~p.check /\ \A i \in DOMAIN p.moves : ~IsCapture(p.moves[i]), p.eval>> >>
<1>1. QuiesceScore(f, here) = FirstOf(exits)
  BY DEF QuiesceScore
<1>2. DOMAIN exits = 1 .. 5
  OBVIOUS
<1>3. exits[1][2] = terminal /\ exits[2][2] = drawn_score /\ \A i \in 3 .. 5 : exits[i][2] = p.eval
  OBVIOUS
<1> HIDE DEF exits, p
<1>4. \A i \in 1 .. 5 : exits[i][2] \in Int
  BY <1>3, Scores DEF p
<1>5. DOMAIN exits \subseteq Nat
  BY <1>2
<1>6. \E i \in 1 .. 5 : FirstOf(exits)[1] = exits[i][2]
  BY <1>1, <1>2, <1>5, FirstExit
<1> QED BY <1>1, <1>4, <1>6

\* A list of moves is not longer than the tables have columns.
LEMMA Few ==
  ASSUME NEW n \in DOMAIN Game, NEW S \in SUBSET DOMAIN Game[n].moves
  PROVE  /\ S \subseteq Nat /\ IsFiniteSet(S) /\ Cardinality(S) \in Nat /\ Cardinality(S) < MAX_MOVES
         /\ \A x \in S : Cardinality(S \ {x}) = Cardinality(S) - 1
         /\ \A x \in DOMAIN Game[n].moves \ S : Cardinality(S) + 1 < MAX_MOVES
         /\ \A T \in SUBSET S : Cardinality(T) \in Nat /\ Cardinality(T) <= Cardinality(S)
<1> DEFINE places == 1 .. 255
<1>1. DOMAIN Game[n].moves \subseteq places
  BY PositionsAssumption DEF MAX_MOVES
<1>2. IsFiniteSet(places) /\ Cardinality(places) = 255
  <2>1. \A k \in Nat \ {0} : IsFiniteSet(1 .. k) /\ Cardinality(1 .. k) = k
    <3> SUFFICES ASSUME NEW k \in Nat \ {0} PROVE IsFiniteSet(1 .. k) /\ Cardinality(1 .. k) = k
      OBVIOUS
    <3>1. 1 \in Int /\ k \in Int /\ ~(1 > k) /\ k - 1 + 1 = k
      OBVIOUS
    <3>2. IsFiniteSet(1 .. k) /\ Cardinality(1 .. k) = IF 1 > k THEN 0 ELSE k - 1 + 1
      BY ONLY <3>1, FS_Interval
    <3> QED BY <3>1, <3>2
  <2>2. 255 \in Nat \ {0}
    OBVIOUS
  <2> QED BY <2>1, <2>2, Zenon
<1>0. places \subseteq Nat
  OBVIOUS
<1> HIDE DEF places
<1>3. ASSUME NEW T \in SUBSET DOMAIN Game[n].moves
      PROVE  IsFiniteSet(T) /\ Cardinality(T) \in Nat /\ Cardinality(T) <= 255
  <2>1. T \in SUBSET places
    BY <1>1
  <2>2. IsFiniteSet(T) /\ Cardinality(T) <= 255
    BY <1>2, <2>1, FS_Subset
  <2> QED BY <2>2, FS_CardinalityType
<1>4. IsFiniteSet(S) /\ Cardinality(S) \in Nat /\ Cardinality(S) <= 255
  BY <1>3
<1>5. \A x \in S : Cardinality(S \ {x}) = Cardinality(S) - 1
  BY <1>4, FS_RemoveElement
<1>6. ASSUME NEW x \in DOMAIN Game[n].moves \ S PROVE Cardinality(S) + 1 <= 255
  <2>1. Cardinality(S \cup {x}) = Cardinality(S) + 1
    BY <1>4, FS_AddElement
  <2>2. S \cup {x} \in SUBSET DOMAIN Game[n].moves
    OBVIOUS
  <2> QED BY <1>3, <2>1, <2>2
<1>7. \A T \in SUBSET S : Cardinality(T) \in Nat /\ Cardinality(T) <= Cardinality(S)
  BY <1>3, <1>4, FS_Subset
<1>8. S \subseteq Nat
  BY <1>0, <1>1
<1>9. Cardinality(S) < MAX_MOVES
  BY <1>4 DEF MAX_MOVES
<1>10. \A x \in DOMAIN Game[n].moves \ S : Cardinality(S) + 1 < MAX_MOVES
  BY <1>4, <1>6 DEF MAX_MOVES
<1> QED BY <1>4, <1>5, <1>7, <1>8, <1>9, <1>10, Zenon

\* A call that begins is about whichever position the board then shows.
LEMMA Opened ==
  ASSUME NEW n, NEW fn, NEW d, NEW a \in Int, NEW b \in Int, NEW t, NEW z,
         \/ fn \in {"pv", "scout"} /\ d \in 0 .. MAX_DEPTH - 2 /\ a < b
         \/ fn \in {"quiesce", "settle"} /\ d = 0
  PROVE  Seated(Frame(fn, d, a, b, t, z), n)
<1> DEFINE f == Frame(fn, d, a, b, t, z)
<1>1. /\ f.fn = fn /\ f.at = "enter" /\ f.depth = d /\ f.alpha = a /\ f.beta = b /\ f.left = {}
      /\ f.best = MIN_SCORE /\ f.score_ub = MAX_SCORE /\ f.hash_move = 0 /\ f.counter = 0
      /\ Fields \subseteq DOMAIN f
  BY DEF Frame, Fields
<1>2. MIN_SCORE \in Int /\ MAX_SCORE \in Int
  BY DEF MIN_SCORE, MAX_SCORE, TT!MAX_SCORE
<1>3. Cardinality({}) = 0
  BY FS_EmptySet
<1> HIDE DEF f
<1>4. Sound(f)
  BY <1>1, <1>2 DEF Sound, Ready
<1>5. Seated(f, n)
  BY <1>1, <1>3, <1>4 DEF Seated, Begun, MAX_MOVES
<1> QED BY <1>5 DEF f

Tree == {"pv", "scout"}

\* A node that goes on to another place with its window open.
LEMMA Onward ==
  ASSUME NEW n, NEW f, Seated(f, n), f.fn \in Tree, f.at # "enter", f.alpha < f.beta,
         NEW p, p # "enter", p \notin {"loop", "tried", "searched"} => ~Begun(f),
         p = "hashed" => f.hash_move # 0, NEW m
  PROVE  Seated([f EXCEPT !.at = p], n) /\ Seated([f EXCEPT !.at = p, !.move = m], n)
<1>1. Fields \subseteq DOMAIN f
  BY DEF Seated, Sound
<1>2. ASSUME NEW g, Fields \subseteq DOMAIN g, g.at = p, g.fn = f.fn, g.depth = f.depth,
             g.alpha = f.alpha, g.beta = f.beta, g.best = f.best, g.score_ub = f.score_ub,
             g.left = f.left, g.hash_move = f.hash_move, g.counter = f.counter
      PROVE  Seated(g, n)
  <2>1. Ready(g)
    BY <1>2 DEF Seated, Sound, Ready, Tree
  <2>2. Sound(g)
    BY <1>2, <2>1 DEF Seated, Sound, Tree
  <2> QED BY <1>2, <2>2 DEF Seated, Begun
<1>3. Seated([f EXCEPT !.at = p], n)
  <2> DEFINE g == [f EXCEPT !.at = p]
  <2>1. /\ Fields \subseteq DOMAIN g /\ g.at = p /\ g.fn = f.fn /\ g.depth = f.depth
        /\ g.alpha = f.alpha /\ g.beta = f.beta /\ g.best = f.best /\ g.score_ub = f.score_ub
        /\ g.left = f.left /\ g.hash_move = f.hash_move /\ g.counter = f.counter
    BY <1>1 DEF Fields
  <2> HIDE DEF g
  <2>2. Seated(g, n)
    BY <1>2, <2>1
  <2> QED BY <2>2 DEF g
<1>4. Seated([f EXCEPT !.at = p, !.move = m], n)
  <2> DEFINE g == [f EXCEPT !.at = p, !.move = m]
  <2>1. /\ Fields \subseteq DOMAIN g /\ g.at = p /\ g.fn = f.fn /\ g.depth = f.depth
        /\ g.alpha = f.alpha /\ g.beta = f.beta /\ g.best = f.best /\ g.score_ub = f.score_ub
        /\ g.left = f.left /\ g.hash_move = f.hash_move /\ g.counter = f.counter
    BY <1>1 DEF Fields
  <2> HIDE DEF g
  <2>2. Seated(g, n)
    BY <1>2, <2>1
  <2> QED BY <2>2 DEF g
<1> QED BY <1>3, <1>4

\* A node begins its work with a depth, the bounds of the tablebase inside its window,
\* and every move of its position to try but the one of the table.
LEMMA SetToWork ==
  ASSUME Typed, board # <<>>, NEW f, Seated(f, Last(board)), f.fn \in Tree, f.at = "enter",
         Stage(f) = "work", NEW p \in {"hash", "null"}
  PROVE  /\ Seated([Working(f) EXCEPT !.at = p], Last(board))
         /\ Working(f).fn = f.fn /\ Working(f).depth \in 1 .. MAX_DEPTH - 1 /\ Working(f).alpha < Working(f).beta
<1> DEFINE n == Last(board)
           answer == IF f.fn = "pv" /\ is_root THEN NoAnswer ELSE probe_wdl
           low == IF answer.bound = "LOWER" THEN answer.score ELSE MIN_SCORE
           place == HashPlace
<1>1. /\ Fields \subseteq DOMAIN f /\ f.alpha \in Int /\ f.beta \in Int /\ f.alpha < f.beta
      /\ f.depth \in 0 .. MAX_DEPTH - 2 /\ f.counter = 0
  BY DEF Seated, Sound, Ready, Tree, Begun
<1>2. EarlyScore(f) = <<>> /\ Extended(f) # 0 /\ (~(f.fn = "pv" /\ is_root) => ~TablebaseDecides(f, probe_wdl))
  BY DEF Stage
<1>3. Extended(f) \in 1 .. MAX_DEPTH - 1
  <2>1. f.depth \in 0 .. 125 /\ (Extended(f) = f.depth \/ Extended(f) = f.depth + 1)
    BY <1>1 DEF Extended, MAX_DEPTH
  <2>2. \A d \in 0 .. 125 : (d # 0 => d \in 1 .. MAX_DEPTH - 1) /\ d + 1 \in 1 .. MAX_DEPTH - 1
    BY DEF MAX_DEPTH
  <2> QED BY <1>2, <2>1, <2>2, Zenon
<1>4. answer.score \in Int /\ low \in Int
  BY Scores DEF NoAnswer, MIN_SCORE, MAX_SCORE, TT!MAX_SCORE
<1>5. low < f.beta
  <2>1. MIN_SCORE < f.beta
    <3>1. ~(-ply_to_mate_score(ply) >= f.beta)
      BY <1>2, Heads
    <3>2. ply \in Nat
      BY Scores
    <3> QED BY <1>1, <3>1, <3>2 DEF ply_to_mate_score, TT!MATING_SCORE, MIN_SCORE, MAX_SCORE, TT!MAX_SCORE
  <2>2. CASE answer.bound = "LOWER"
    <3>1. answer = probe_wdl /\ ~(f.fn = "pv" /\ is_root)
      BY <2>2 DEF NoAnswer
    <3> QED BY <1>1, <1>2, <1>4, <2>2, <3>1 DEF TablebaseDecides
  <2> QED BY <2>1, <2>2
<1>6. place \in DOMAIN Game[n].moves \cup {0}
  BY DEF HashPlace, here
<1> DEFINE g == Bounded(f, answer, low)
<1>7. /\ Fields \subseteq DOMAIN g /\ g.at = f.at /\ g.fn = f.fn /\ g.depth = Extended(f)
      /\ g.alpha = Max({f.alpha, low}) /\ g.beta = f.beta /\ g.best = low
      /\ g.score_ub = (IF answer.bound = "UPPER" THEN answer.score ELSE MAX_SCORE)
      /\ g.counter = f.counter
  <2> HIDE DEF answer, low
  <2> QED BY <1>1 DEF Bounded, Fields
<1>8. g.score_ub \in Int
  BY <1>4, <1>7 DEF MAX_SCORE, TT!MAX_SCORE
<1>9. g.alpha \in Int /\ g.alpha < g.beta
  <2> HIDE DEF low, g
  <2>1. Max({f.alpha, low}) = IF f.alpha >= low THEN f.alpha ELSE low
    BY <1>1, <1>4, Extremes
  <2> QED BY <1>1, <1>4, <1>5, <1>7, <2>1
<1>10. Working(f) = Untaken(g, place)
  BY DEF Working, Answered
<1> HIDE DEF g, place, low, answer
<1> DEFINE w == Untaken(g, place)
           e == [w EXCEPT !.at = p]
<1>11. /\ Fields \subseteq DOMAIN w /\ w.fn = f.fn /\ w.depth = Extended(f)
       /\ w.alpha = g.alpha /\ w.beta = f.beta /\ w.best = low /\ w.score_ub = g.score_ub
       /\ w.hash_move = place /\ w.left = DOMAIN here.moves \ {place} /\ w.counter = 0
  BY <1>1, <1>7 DEF Untaken, Fields
<1> HIDE DEF w
<1>12. /\ Fields \subseteq DOMAIN e /\ e.at = p /\ e.fn = f.fn /\ e.depth = Extended(f)
       /\ e.alpha = g.alpha /\ e.beta = f.beta /\ e.best = low /\ e.score_ub = g.score_ub
       /\ e.hash_move = place /\ e.left = DOMAIN here.moves \ {place} /\ e.counter = 0
  BY <1>11 DEF Fields
<1> HIDE DEF e
<1>13. Sound(e)
  <2>1. Ready(e)
    BY <1>1, <1>3, <1>7, <1>9, <1>12 DEF Ready
  <2> QED BY <1>1, <1>4, <1>8, <1>9, <1>12, <2>1 DEF Sound, Tree
<1>14. e.left \in SUBSET DOMAIN Game[n].moves /\ place \notin e.left
  BY <1>12 DEF here
<1>15. Cardinality(e.left) \in Nat /\ Cardinality(e.left) < MAX_MOVES
  BY <1>14, Few, Scores
<1>16. Seated(e, n)
  BY <1>6, <1>12, <1>13, <1>14, <1>15 DEF Seated, Begun, MAX_MOVES
<1> QED BY <1>1, <1>3, <1>7, <1>9, <1>10, <1>11, <1>16 DEF w, e, n

\* One more move is counted, and is one of the position's.
LEMMA MoveCounted ==
  ASSUME NEW n \in DOMAIN Game, NEW f, Seated(f, n), f.fn \in Tree, f.at = "loop", f.left # {}
  PROVE  LET c == Counted(f)
         IN /\ c.fn = f.fn /\ c.alpha = f.alpha /\ c.beta = f.beta /\ c.alpha < c.beta
            /\ c.depth = f.depth /\ c.depth \in 1 .. MAX_DEPTH - 1
            /\ c.counter \in 1 .. MAX_MOVES - 1 /\ c.move \in DOMAIN Game[n].moves
            /\ Seated(c, n)
            /\ \A p \in {"tried", "searched"} : \A d :
                  Seated([c EXCEPT !.at = p], n) /\ Seated([c EXCEPT !.at = p, !.search_depth = d], n)
<1> DEFINE c == Counted(f)
           m == Min(f.left)
<1>1. /\ Fields \subseteq DOMAIN f /\ f.alpha \in Int /\ f.beta \in Int /\ f.alpha < f.beta
      /\ f.depth \in 1 .. MAX_DEPTH - 1 /\ f.counter \in Nat /\ f.left \in SUBSET DOMAIN Game[n].moves
      /\ f.counter + Cardinality(f.left) < MAX_MOVES
  BY DEF Seated, Sound, Ready, Tree
<1>2. m \in f.left
  <2>1. f.left \in SUBSET Nat
    BY <1>1, Few
  <2> QED BY <2>1, Extremes
<1>3. Cardinality(f.left) \in Nat /\ Cardinality(f.left \ {m}) = Cardinality(f.left) - 1
      /\ Cardinality(f.left \ {m}) \in Nat
  <2>1. f.left \ {m} \in SUBSET DOMAIN Game[n].moves
    BY <1>1
  <2> QED BY <1>1, <1>2, <2>1, Few
<1> HIDE DEF m
<1>4. /\ Fields \subseteq DOMAIN c /\ c.at = "loop" /\ c.fn = f.fn /\ c.depth = f.depth
      /\ c.alpha = f.alpha /\ c.beta = f.beta /\ c.best = f.best /\ c.score_ub = f.score_ub
      /\ c.left = f.left \ {m} /\ c.hash_move = f.hash_move /\ c.counter = f.counter + 1
      /\ c.move = m
  BY <1>1 DEF Counted, Fields, m
<1> HIDE DEF c
<1>5. c.counter \in 1 .. MAX_MOVES - 1 /\ c.counter + Cardinality(c.left) < MAX_MOVES
  BY <1>1, <1>3, <1>4 DEF MAX_MOVES
<1>6. ASSUME NEW g, Fields \subseteq DOMAIN g, g.at \in {"loop", "tried", "searched"}, g.fn = c.fn,
             g.depth = c.depth, g.alpha = c.alpha, g.beta = c.beta, g.best = c.best,
             g.score_ub = c.score_ub, g.left = c.left, g.hash_move = c.hash_move, g.counter = c.counter
      PROVE  Seated(g, n)
  <2>1. Ready(g)
    BY <1>1, <1>4, <1>6 DEF Ready
  <2>2. Sound(g)
    BY <1>1, <1>4, <1>6, <2>1 DEF Seated, Sound, Tree
  <2>3. g.left \subseteq DOMAIN Game[n].moves /\ g.hash_move \in DOMAIN Game[n].moves \cup {0}
    BY <1>1, <1>4, <1>6 DEF Seated
  <2> QED BY <1>5, <1>6, <2>2, <2>3 DEF Seated, Begun
<1>7. Seated(c, n)
  BY <1>4, <1>6
<1>8. ASSUME NEW p \in {"tried", "searched"}, NEW d
      PROVE  Seated([c EXCEPT !.at = p], n) /\ Seated([c EXCEPT !.at = p, !.search_depth = d], n)
  <2> DEFINE g == [c EXCEPT !.at = p]
             h == [c EXCEPT !.at = p, !.search_depth = d]
  <2>1. /\ Fields \subseteq DOMAIN g /\ g.at = p /\ g.fn = c.fn /\ g.depth = c.depth
        /\ g.alpha = c.alpha /\ g.beta = c.beta /\ g.best = c.best /\ g.score_ub = c.score_ub
        /\ g.left = c.left /\ g.hash_move = c.hash_move /\ g.counter = c.counter
    BY <1>4 DEF Fields
  <2>2. /\ Fields \subseteq DOMAIN h /\ h.at = p /\ h.fn = c.fn /\ h.depth = c.depth
        /\ h.alpha = c.alpha /\ h.beta = c.beta /\ h.best = c.best /\ h.score_ub = c.score_ub
        /\ h.left = c.left /\ h.hash_move = c.hash_move /\ h.counter = c.counter
    BY <1>4 DEF Fields
  <2> HIDE DEF g, h
  <2>3. Seated(g, n) /\ Seated(h, n)
    BY <1>6, <2>1, <2>2
  <2> QED BY <2>3 DEF g, h
<1>9. c.move \in DOMAIN Game[n].moves
  BY <1>1, <1>2, <1>4
<1> QED BY <1>1, <1>4, <1>5, <1>7, <1>8, <1>9 DEF c

\* The depth of the next call lies between the leaves and one less than the node's.
LEMMA Clamped ==
  ASSUME NEW f, f.depth \in 1 .. MAX_DEPTH - 1, f.counter \in 1 .. MAX_MOVES - 1, NEW m
  PROVE  Clamp(SearchDepth(f, m), f.depth - 1) \in 0 .. f.depth - 1
<1>1. SearchDepth(f, m) \in Int
  <2>1. quiet_reduction(f.depth, f.counter) \in Int /\ capture_reduction(f.depth, f.counter) \in Int
    BY TablesAssumption
  <2> DEFINE late == f.type = "ALL" /\ Calm(m)
             slow == CASE late /\ ~IsCapture(m) /\ f.counter >= 2 -> quiet_reduction(f.depth, f.counter)
                  [] late /\ IsCapture(m) /\ f.counter >= 3 -> capture_reduction(f.depth, f.counter)
                  [] OTHER -> 0
             bad == IF late /\ IsCapture(m) /\ m.see < -see_prune_threshold THEN 1 ELSE 0
  <2>2. slow \in Int
    <3> HIDE DEF late
    <3> QED BY <2>1
  <2>3. bad \in Int
    OBVIOUS
  <2>4. SearchDepth(f, m) = f.depth - 1 - slow - bad
    BY DEF SearchDepth
  <2> HIDE DEF slow, bad
  <2>5. f.depth \in Int
    BY DEF MAX_DEPTH
  <2> QED BY <2>2, <2>3, <2>4, <2>5
<1> DEFINE d == SearchDepth(f, m)
           top == f.depth - 1
<1>2. top \in Nat
  BY DEF MAX_DEPTH
<1> HIDE DEF d, top
<1>3. Min({d, top}) \in Int /\ Min({d, top}) <= top
  BY <1>1, <1>2, Extremes DEF d
<1>4. Max({0, Min({d, top})}) \in 0 .. top
  <2> DEFINE e == Min({d, top})
  <2> HIDE DEF e
  <2>1. e \in Int /\ e <= top
    BY <1>3 DEF e
  <2>2. Max({0, e}) = IF 0 >= e THEN 0 ELSE e
    BY <2>1, Extremes
  <2>3. Max({0, e}) \in 0 .. top
    BY <1>2, <2>1, <2>2
  <2> QED BY <2>3 DEF e
<1> QED BY <1>4 DEF Clamp, d, top

\* A node knows what its last move brought: its window is narrower, or shut.
LEMMA Learned ==
  ASSUME NEW n \in DOMAIN Game, NEW f, Seated(f, n), f.fn \in Tree, ret.score \in Int
  PROVE  /\ f.at \in {"tried", "searched"} =>
              LET g == Raised(IF -ret.score > f.best THEN Improved(f, -ret.score) ELSE f)
              IN Seated([g EXCEPT !.left = IF Cut(g) THEN {} ELSE @], n)
         /\ f.at = "hashed" =>
              \A score \in Int, k \in {0, 1} :
                LET g == [Raised(Improved(f, score)) EXCEPT !.counter = k]
                IN /\ g.best \in Int /\ g.score_ub \in Int
                   /\ ~Cut(g) => Seated(g, n)
<1>1. /\ Fields \subseteq DOMAIN f /\ f.alpha \in Int /\ f.beta \in Int /\ f.best \in Int /\ f.score_ub \in Int
      /\ f.at # "enter" => f.depth \in 1 .. MAX_DEPTH - 1
  BY DEF Seated, Sound, Ready, Tree
<1>2. Max({f.alpha, -ret.score}) \in Int
  BY <1>1, Extremes
<1>3. ASSUME f.at \in {"tried", "searched"}
      PROVE  LET g == Raised(IF -ret.score > f.best THEN Improved(f, -ret.score) ELSE f)
             IN Seated([g EXCEPT !.left = IF Cut(g) THEN {} ELSE @], n)
  <2> DEFINE i == IF -ret.score > f.best THEN Improved(f, -ret.score) ELSE f
             g == Raised(i)
             e == [g EXCEPT !.left = IF Cut(g) THEN {} ELSE @]
  <2>1. /\ Fields \subseteq DOMAIN i /\ i.fn = f.fn /\ i.depth = f.depth
        /\ i.alpha = f.alpha /\ i.beta = f.beta /\ i.best \in Int /\ i.score_ub = f.score_ub
        /\ i.left = f.left /\ i.hash_move = f.hash_move /\ i.counter = f.counter
    <3>1. CASE -ret.score > f.best
      BY <1>1, <3>1 DEF Improved, Fields
    <3>2. CASE ~(-ret.score > f.best)
      BY <1>1, <3>2
    <3> QED BY <3>1, <3>2
  <2> HIDE DEF i
  <2>2. /\ Fields \subseteq DOMAIN g /\ g.at = "loop" /\ g.fn = f.fn /\ g.depth = f.depth
        /\ g.alpha = Max({f.alpha, -ret.score}) /\ g.beta = f.beta /\ g.best \in Int /\ g.score_ub = f.score_ub
        /\ g.left = f.left /\ g.hash_move = f.hash_move /\ g.counter = f.counter
    BY <2>1 DEF Raised, Fields
  <2> HIDE DEF g
  <2>3. /\ Fields \subseteq DOMAIN e /\ e.at = "loop" /\ e.fn = f.fn /\ e.depth = f.depth
        /\ e.alpha = g.alpha /\ e.beta = f.beta /\ e.best \in Int /\ e.score_ub = f.score_ub
        /\ e.left = (IF Cut(g) THEN {} ELSE f.left) /\ e.hash_move = f.hash_move /\ e.counter = f.counter
    BY <2>2 DEF Fields
  <2> HIDE DEF e
  <2>4. e.alpha < e.beta \/ e.left = {}
    <3>1. CASE Cut(g)
      BY <2>3, <3>1
    <3>2. CASE ~Cut(g)
      <4>1. ~(g.alpha >= g.beta)
        BY <3>2 DEF Cut
      <4> QED BY <1>1, <1>2, <2>2, <2>3, <4>1
    <3> QED BY <3>1, <3>2
  <2>5. Sound(e)
    BY <1>1, <1>2, <1>3, <2>2, <2>3, <2>4 DEF Sound, Ready, Tree
  <2>6. e.left \subseteq f.left /\ e.counter + Cardinality(e.left) < MAX_MOVES
    <3>1. CASE Cut(g)
      <4>1. e.left = {} /\ Cardinality({}) = 0
        BY <2>3, <3>1, FS_EmptySet
      <4>2. f.counter < MAX_MOVES
        <5>1. f.left \in SUBSET DOMAIN Game[n].moves
          BY DEF Seated
        <5>2. Cardinality(f.left) \in Nat
          BY <5>1, Few
        <5> QED BY <5>2 DEF Seated, MAX_MOVES
      <4> QED BY <2>3, <4>1, <4>2 DEF Seated
    <3>2. CASE ~Cut(g)
      BY <2>3, <3>2 DEF Seated
    <3> QED BY <3>1, <3>2
  <2>7. Seated(e, n)
    BY <2>3, <2>5, <2>6 DEF Seated, Begun
  <2> QED BY <2>7 DEF e, g, i
<1>4. ASSUME f.at = "hashed", NEW score \in Int, NEW k \in {0, 1}
      PROVE  LET g == [Raised(Improved(f, score)) EXCEPT !.counter = k]
             IN /\ g.best \in Int /\ g.score_ub \in Int
                /\ ~Cut(g) => Seated(g, n)
  <2> DEFINE g == [Raised(Improved(f, score)) EXCEPT !.counter = k]
  <2>1. /\ Fields \subseteq DOMAIN g /\ g.at = "loop" /\ g.fn = f.fn /\ g.depth = f.depth
        /\ g.alpha = Max({f.alpha, -ret.score}) /\ g.beta = f.beta /\ g.best = score /\ g.score_ub = f.score_ub
        /\ g.left = f.left /\ g.hash_move = f.hash_move /\ g.counter = k
    BY <1>1 DEF Raised, Improved, Fields
  <2> HIDE DEF g
  <2>2. ASSUME ~Cut(g) PROVE Seated(g, n)
    <3>1. g.alpha < g.beta
      BY <1>1, <1>2, <2>1, <2>2 DEF Cut
    <3>2. Sound(g)
      BY <1>1, <1>2, <1>4, <2>1, <3>1 DEF Sound, Ready, Tree
    <3>3. f.left \in SUBSET DOMAIN Game[n].moves /\ f.hash_move \in DOMAIN Game[n].moves \ f.left
      BY <1>4 DEF Seated, Begun
    <3>4. Cardinality(f.left) \in Nat /\ Cardinality(f.left) + 1 < MAX_MOVES
      BY <1>4, <3>3, Few
    <3>5. g.counter \in Nat /\ g.counter + Cardinality(g.left) < MAX_MOVES
      BY <2>1, <3>4 DEF MAX_MOVES
    <3> QED BY <2>1, <3>2, <3>3, <3>5 DEF Seated, Begun
  <2> QED BY <1>1, <2>1, <2>2 DEF g
<1> QED BY <1>3, <1>4

\* A call that is made takes its seat after those in progress.
LEMMA NextSeat ==
  ASSUME NEW s, NEW b, NEW h, NEW c, Waiting(s, b, h, c), NEW f, Seated(f, b[c])
  PROVE  \E g : Waiting(Append(s, f), b, g, c + Made(f))
<1> DEFINE k == Len(s)
           t == Append(s, f)
           g == [i \in 1 .. k + 1 |-> IF i = k + 1 THEN c ELSE h[i]]
<1>0. /\ IsSeq(s) /\ h \in [1 .. k -> Nat \ {0}] /\ Seats(s, b, h) /\ c \in Nat \ {0}
      /\ s # <<>> => c = h[k] + Made(s[k])
  BY DEF Waiting
<1>1. /\ k \in Nat /\ (s # <<>> => k > 0) /\ IsSeq(t) /\ Len(t) = k + 1
      /\ \A i \in 1 .. k : t[i] = s[i]
      /\ t[k + 1] = f
  BY <1>0, Sequences
<1>2. (s = <<>>) => k = 0
  BY EmptySeq
<1>4. /\ \A i, j \in 1 .. k : i <= j => h[i] <= h[j]
      /\ \A i \in 1 .. k - 1 : h[i + 1] = h[i] + Made(s[i])
      /\ \A i \in 1 .. k : Seated(s[i], b[h[i]])
  BY <1>0 DEF Seats
<1> HIDE DEF k, t
<1>5. g \in [1 .. k + 1 -> Nat \ {0}] /\ g[k + 1] = c /\ \A i \in 1 .. k : g[i] = h[i]
  BY <1>0, <1>1
<1> HIDE DEF g
<1>6. k > 0 => c = h[k] + Made(s[k]) /\ Made(s[k]) \in {0, 1}
  BY <1>0, <1>2 DEF Made
<1>7. ASSUME NEW i \in 1 .. k + 1, NEW j \in 1 .. k + 1, i <= j PROVE g[i] <= g[j]
  <2>1. CASE j \in 1 .. k
    <3>1. i \in 1 .. k
      BY <1>1, <1>7, <2>1
    <3> QED BY <1>4, <1>5, <1>7, <2>1, <3>1
  <2>2. CASE j = k + 1 /\ i \in 1 .. k
    <3>1. h[i] <= h[k] /\ h[i] \in Nat /\ h[k] \in Nat
      <4>1. k \in 1 .. k /\ i <= k
        BY <1>1, <2>2
      <4> QED BY <1>0, <1>4, <2>2, <4>1
    <3> QED BY <1>1, <1>5, <1>6, <2>2, <3>1
  <2>3. CASE i = k + 1 /\ j = k + 1
    BY <1>0, <1>5, <2>3
  <2> QED BY <1>1, <1>7, <2>1, <2>2, <2>3
<1>8. ASSUME NEW i \in 1 .. k PROVE g[i + 1] = g[i] + Made(t[i])
  <2>1. CASE i = k
    BY <1>1, <1>5, <1>6, <2>1
  <2>2. CASE i # k
    <3>1. i \in 1 .. k - 1 /\ i + 1 \in 1 .. k
      BY <1>1, <2>2
    <3> QED BY <1>1, <1>4, <1>5, <3>1
  <2> QED BY <2>1, <2>2
<1>9. ASSUME NEW i \in 1 .. k + 1 PROVE Seated(t[i], b[g[i]])
  <2>1. CASE i = k + 1
    BY <1>1, <1>5, <2>1
  <2>2. CASE i # k + 1
    <3>1. i \in 1 .. k
      BY <1>1, <2>2
    <3> QED BY <1>1, <1>4, <1>5, <3>1
  <2> QED BY <2>1, <2>2
<1>10. Seats(t, b, g)
  <2>1. Len(t) = k + 1 /\ Len(t) - 1 = k
    BY <1>1
  <2> QED BY <1>7, <1>8, <1>9, <2>1 DEF Seats
<1>11. Made(f) \in {0, 1} /\ c + Made(f) \in Nat \ {0}
  BY <1>0 DEF Made
<1>12. Waiting(t, b, g, c + Made(f))
  BY <1>1, <1>5, <1>10, <1>11 DEF Waiting
<1> QED BY <1>12 DEF t

\* What a step of the call on top makes of the stack, when the board b it leaves is the
\* same below what it had out.
LEMMA Placing ==
  ASSUME Typed, stack # <<>>, NEW m, m = Len(board) - Made(Top)
  PROVE  /\ m \in 1 .. Len(board) /\ Seated(Top, board[m])
         /\ \A b : IsSeq(b) /\ (\A i \in 1 .. m : b[i] = board[i]) =>
              /\ Len(b) = m => Placed(Front(stack), b)
              /\ \A f : Seated(f, board[m]) /\ m + Made(f) = Len(b) =>
                    /\ Placed(Append(Front(stack), f), b)
                    /\ \A g : Made(g) = 0 /\ Seated(g, b[Len(b)]) =>
                          Placed(Append(Append(Front(stack), f), g), b)
<1> DEFINE k == Len(stack)
           s == Front(stack)
<1>1. IsSeq(stack) /\ IsSeq(board) /\ Len(board) \in Nat
  BY Sequences DEF Typed, Placed, OnBoard
<1>2. /\ k \in Nat \ {0} /\ IsSeq(s) /\ Len(s) = k - 1
      /\ \A i \in 1 .. k - 1 : s[i] = stack[i]
      /\ Top = stack[k]
  BY <1>1, Sequences DEF Top
<1>3. PICK h : /\ h \in [1 .. k -> Nat \ {0}] /\ Seats(stack, board, h)
               /\ h[k] + Made(stack[k]) = Len(board)
  BY DEF Typed, Placed, Waiting
<1> HIDE DEF k, s
<1>4. Made(Top) \in {0, 1}
  BY DEF Made
<1>5. m = h[k] /\ m \in 1 .. Len(board)
  BY <1>1, <1>2, <1>3, <1>4
<1>6. /\ \A i, j \in 1 .. k : i <= j => h[i] <= h[j]
      /\ \A i \in 1 .. k - 1 : h[i + 1] = h[i] + Made(stack[i])
      /\ \A i \in 1 .. k : Seated(stack[i], board[h[i]])
  BY <1>3 DEF Seats, k
<1>7. Seated(Top, board[m])
  BY <1>2, <1>5, <1>6
<1> DEFINE g0 == [i \in 1 .. k - 1 |-> h[i]]
<1>8. g0 \in [1 .. Len(s) -> Nat \ {0}] /\ \A i \in 1 .. k - 1 : g0[i] = h[i]
  BY <1>2, <1>3
<1> HIDE DEF g0
<1>9. s # <<>> => k - 1 \in 1 .. k - 1 /\ m = g0[Len(s)] + Made(s[Len(s)])
  <2> HAVE s # <<>>
  <2>1. Len(s) > 0
    BY <1>2, Sequences
  <2>2. k - 1 \in 1 .. k - 1 /\ k - 1 + 1 = k
    BY <1>2, <2>1
  <2>3. h[k - 1 + 1] = h[k - 1] + Made(stack[k - 1])
    BY <1>6, <2>2
  <2> QED BY <1>2, <1>5, <1>8, <2>2, <2>3
<1>10. ASSUME NEW b, IsSeq(b), \A i \in 1 .. m : b[i] = board[i]
       PROVE  Seats(s, b, g0)
  <2>1. ASSUME NEW i \in 1 .. k - 1 PROVE Seated(s[i], b[g0[i]])
    <3>1. i \in 1 .. k /\ k \in 1 .. k /\ i <= k
      BY <1>2
    <3>2. h[i] <= h[k] /\ h[i] \in Nat \ {0} /\ h[k] \in Nat
      BY <1>3, <1>6, <3>1
    <3>3. h[i] \in 1 .. m
      BY <1>5, <3>2
    <3> QED BY <1>2, <1>6, <1>8, <1>10, <3>1, <3>3
  <2>2. \A i, j \in 1 .. k - 1 : i <= j => g0[i] <= g0[j]
    <3>1. \A i \in 1 .. k - 1 : i \in 1 .. k
      BY <1>2
    <3> QED BY <1>6, <1>8, <3>1
  <2>3. ASSUME NEW i \in 1 .. k - 1 - 1 PROVE g0[i + 1] = g0[i] + Made(s[i])
    <3>1. i \in 1 .. k - 1 /\ i + 1 \in 1 .. k - 1
      BY <1>2
    <3> QED BY <1>2, <1>6, <1>8, <3>1
  <2> QED BY <1>2, <2>1, <2>2, <2>3 DEF Seats
<1>11. ASSUME NEW b, IsSeq(b), \A i \in 1 .. m : b[i] = board[i]
       PROVE  Waiting(s, b, g0, m)
  <2>1. Seats(s, b, g0) /\ m \in Nat \ {0}
    BY <1>1, <1>5, <1>10, <1>11
  <2> QED BY <1>2, <1>8, <1>9, <2>1 DEF Waiting
<1>12. ASSUME NEW b, IsSeq(b), \A i \in 1 .. m : b[i] = board[i], Len(b) = m
       PROVE  Placed(s, b)
  BY <1>2, <1>11, <1>12 DEF Placed
<1>13. ASSUME NEW b, IsSeq(b), \A i \in 1 .. m : b[i] = board[i],
              NEW f, Seated(f, board[m]), m + Made(f) = Len(b)
       PROVE  /\ Placed(Append(s, f), b)
              /\ \A g : Made(g) = 0 /\ Seated(g, b[Len(b)]) => Placed(Append(Append(s, f), g), b)
  <2>1. Waiting(s, b, g0, m) /\ Seated(f, b[m])
    BY <1>5, <1>11, <1>13
  <2>2. PICK g1 : Waiting(Append(s, f), b, g1, Len(b))
    BY <1>13, <2>1, NextSeat
  <2>3. \A t, g2 : Waiting(t, b, g2, Len(b)) => Placed(t, b)
    BY DEF Placed, Waiting
  <2>4. ASSUME NEW g, Made(g) = 0, Seated(g, b[Len(b)]) PROVE Placed(Append(Append(s, f), g), b)
    <3>1. PICK g2 : Waiting(Append(Append(s, f), g), b, g2, Len(b) + Made(g))
      BY <2>2, <2>4, NextSeat
    <3>2. Len(b) + Made(g) = Len(b)
      BY <2>2, <2>4 DEF Waiting
    <3> QED BY <2>3, <3>1, <3>2
  <2> QED BY <2>2, <2>3, <2>4
<1> QED BY <1>5, <1>7, <1>12, <1>13 DEF s

\* What a step of the call on top may make of it: it returns, goes on, or calls another
\* and waits, with k positions of its own on the board.
Home == board[Len(board) - Made(Top)]
Fresh(g) == Made(g) = 0 /\ \A n : Seated(g, n)
Ends == \E score \in Int : \E line : Return(score, line)
Goes(k) == \E f : Go(f) /\ Seated(f, Home) /\ Made(f) = k
Calls(k) == \E f, g : Call(f, g) /\ Seated(f, Home) /\ Made(f) = k /\ Fresh(g)

\* The board after a step: as it was, with one position more, or with one less.
LEMMA Settled ==
  ASSUME Typed, stack # <<>>, InTable(table'), stop' \in BOOLEAN, root_ply' = root_ply,
         \/ board' = board /\ ((Made(Top) = 0 /\ Ends) \/ Goes(Made(Top)) \/ Calls(Made(Top)))
         \/ Made(Top) = 0 /\ Calls(1) /\ \E n \in DOMAIN Game : board' = Append(board, n)
         \/ Made(Top) = 1 /\ (Ends \/ Goes(0)) /\ board' = Front(board)
  PROVE  Typed'
<1> DEFINE m == Len(board) - Made(Top)
           s == Front(stack)
<1>1. IsSeq(board) /\ Len(board) \in Nat /\ IsSeq(stack) /\ Made(Top) \in {0, 1}
  BY Sequences DEF Typed, OnBoard, Placed, Made
<1>2. /\ m \in 1 .. Len(board) /\ Seated(Top, Home)
      /\ \A b : IsSeq(b) /\ (\A i \in 1 .. m : b[i] = board[i]) =>
           /\ Len(b) = m => Placed(s, b)
           /\ \A f : Seated(f, Home) /\ m + Made(f) = Len(b) =>
                 /\ Placed(Append(s, f), b)
                 /\ \A g : Made(g) = 0 /\ Seated(g, b[Len(b)]) => Placed(Append(Append(s, f), g), b)
  BY Placing DEF Home
<1> HIDE DEF m, s
<1>3. board # <<>>
  <2>1. Len(board) # 0
    BY <1>1, <1>2
  <2> QED BY <2>1, EmptySeq
\* What the step does to the stack and to the result.
<1>4. ASSUME Ends PROVE stack' = s /\ ret'.given \in BOOLEAN /\ ret'.score \in Int
  BY <1>4 DEF Ends, Return, s
<1>5. ASSUME NEW f, Go(f) PROVE stack' = Append(s, f) /\ ret'.given \in BOOLEAN /\ ret'.score \in Int
  BY <1>5 DEF Go, None, s
<1>6. ASSUME NEW f, NEW g, Call(f, g)
      PROVE  stack' = Append(Append(s, f), g) /\ ret'.given \in BOOLEAN /\ ret'.score \in Int
  <2>1. IsSeq(s)
    BY <1>1, Sequences DEF s
  <2>2. s \in Seq(Elements(s) \cup {f, g})
    BY <2>1, SeqMonotonic DEF IsSeq
  <2>3. s \o <<f, g>> = Append(Append(s, f), g)
    BY <2>2
  <2> QED BY <1>6, <2>3 DEF Call, None, s
\* What it does to the board.
<1>7. ASSUME OnBoard(board'), \A i \in 1 .. m : board'[i] = board[i],
             \/ Ends /\ Len(board') = m
             \/ \E k : Goes(k) /\ Len(board') = m + k
             \/ \E k : Calls(k) /\ Len(board') = m + k
      PROVE  Typed'
  <2>1. IsSeq(board')
    BY <1>7 DEF OnBoard
  <2>2. CASE Ends /\ Len(board') = m
    <3>1. Placed(stack', board')
      BY <1>2, <1>4, <1>7, <2>1, <2>2
    <3> QED BY <1>4, <1>7, <2>2, <3>1 DEF Typed
  <2>3. ASSUME NEW k, Goes(k), Len(board') = m + k PROVE Typed'
    <3>1. PICK f : Go(f) /\ Seated(f, Home) /\ Made(f) = k
      BY <2>3 DEF Goes
    <3>2. Placed(stack', board')
      BY <1>2, <1>5, <1>7, <2>1, <2>3, <3>1
    <3> QED BY <1>5, <1>7, <3>1, <3>2 DEF Typed
  <2>4. ASSUME NEW k, Calls(k), Len(board') = m + k PROVE Typed'
    <3>1. PICK f, g : Call(f, g) /\ Seated(f, Home) /\ Made(f) = k /\ Fresh(g)
      BY <2>4 DEF Calls
    <3>2. Made(g) = 0 /\ Seated(g, board'[Len(board')])
      BY <3>1 DEF Fresh
    <3>3. Placed(stack', board')
      BY <1>2, <1>6, <1>7, <2>1, <2>4, <3>1, <3>2
    <3> QED BY <1>6, <1>7, <3>1, <3>3 DEF Typed
  <2> QED BY <1>7, <2>2, <2>3, <2>4
<1>8. CASE board' = board /\ ((Made(Top) = 0 /\ Ends) \/ Goes(Made(Top)) \/ Calls(Made(Top)))
  <2>1. OnBoard(board') /\ Len(board') = m + Made(Top) /\ \A i \in 1 .. m : board'[i] = board[i]
    BY <1>1, <1>8 DEF Typed, m
  <2>2. Made(Top) = 0 => Len(board') = m
    BY <1>2, <2>1
  <2> QED BY <1>7, <1>8, <2>1, <2>2
<1>9. CASE Made(Top) = 0 /\ Calls(1) /\ \E n \in DOMAIN Game : board' = Append(board, n)
  <2>1. PICK n \in DOMAIN Game : board' = Append(board, n)
    BY <1>9
  <2>2. /\ IsSeq(board') /\ Len(board') = Len(board) + 1 /\ board'[Len(board) + 1] = n
        /\ \A i \in 1 .. Len(board) : board'[i] = board[i]
    BY <1>1, <2>1, Sequences
  <2>3. m = Len(board)
    BY <1>1, <1>9 DEF m
  <2>4. OnBoard(board')
    <3>1. ASSUME NEW i \in 1 .. Len(board) + 1 PROVE board'[i] \in DOMAIN Game
      <4>1. CASE i = Len(board) + 1
        BY <2>2, <4>1
      <4>2. CASE i # Len(board) + 1
        <5>1. i \in 1 .. Len(board)
          BY <1>1, <4>2
        <5> QED BY <2>2, <5>1 DEF Typed, OnBoard
      <4> QED BY <4>1, <4>2
    <3> QED BY <2>2, <3>1 DEF OnBoard
  <2> QED BY <1>7, <1>9, <2>2, <2>3, <2>4
<1>10. CASE Made(Top) = 1 /\ (Ends \/ Goes(0)) /\ board' = Front(board)
  <2>1. /\ IsSeq(board') /\ Len(board') = Len(board) - 1
        /\ \A i \in 1 .. Len(board) - 1 : board'[i] = board[i]
    BY <1>1, <1>3, <1>10, Sequences
  <2>2. m = Len(board) - 1 /\ Len(board') = m /\ m + 0 = m
    BY <1>1, <1>10, <2>1 DEF m
  <2>3. OnBoard(board')
    <3>1. \A i \in 1 .. Len(board) - 1 : i \in 1 .. Len(board)
      BY <1>1
    <3> QED BY <2>1, <3>1 DEF Typed, OnBoard
  <2> QED BY <1>7, <1>10, <2>1, <2>2, <2>3
<1> QED BY <1>8, <1>9, <1>10

\* An entry that is stored has a number for its score.
LEMMA Stored ==
  ASSUME InTable(table), NEW n \in DOMAIN Game, NEW p \in Int, NEW score \in Int,
         NEW bound, NEW depth, NEW name, StoreAt(n, p, score, bound, depth, name)
  PROVE  InTable(table')
<1> DEFINE elem == TT!Element(Hash[n], score, bound, depth, name, p)
           i == TT!Index(Hash[n])
<1>1. elem.score \in Int
  BY DEF TT!Element, TT!eval_to_tt
<1>2. i \in 0 .. Slots - 1
  BY GameAssumption, TablesAssumption DEF TT!Index
<1>3. table' = [table EXCEPT ![i] = elem] \/ table' = table
  BY DEF StoreAt
<1> HIDE DEF elem, i
<1> QED BY <1>1, <1>2, <1>3 DEF InTable

\* The call on top, at the position it is about.
LEMMA OnTop ==
  ASSUME Typed, stack # <<>>
  PROVE  /\ Seated(Top, Home) /\ Home \in DOMAIN Game /\ board # <<>>
         /\ Fields \subseteq DOMAIN Top /\ Top.alpha \in Int /\ Top.beta \in Int /\ Top.best \in Int /\ Top.score_ub \in Int
         /\ Made(Top) \in {0, 1}
         /\ Made(Top) = 0 => Home = Last(board) /\ here = Game[Home]
         /\ Made(Top) = 1 => Home = parent
         /\ Top.at \notin {"enter", "loop", "searched"} => Top.fn \in Tree /\ Top.alpha < Top.beta
         /\ Top.fn \in Tree /\ Top.at # "enter" => Top.depth \in 1 .. MAX_DEPTH - 1
         /\ Top.fn \in Tree /\ Top.at # "loop" => Top.alpha < Top.beta
<1>1. /\ IsSeq(board) /\ Len(board) \in Nat /\ Len(board) - Made(Top) \in 1 .. Len(board) /\ Seated(Top, Home)
      /\ Made(Top) \in {0, 1}
  BY Placing, Sequences DEF Typed, OnBoard, Home, Made
<1>2. Home \in DOMAIN Game
  BY <1>1 DEF Typed, OnBoard, Home
<1>3. board # <<>>
  <2>1. Len(board) # 0
    BY <1>1
  <2> QED BY <2>1, EmptySeq
<1>4. Made(Top) = 0 => Home = Last(board) /\ here = Game[Home]
  <2>1. Last(board) = board[Len(board)]
    BY <1>1, <1>3, Sequences
  <2> QED BY <1>1, <2>1 DEF Home, here
<1>5. Made(Top) = 1 => Home = parent
  BY DEF Home, parent
<1>6. /\ Fields \subseteq DOMAIN Top /\ Top.alpha \in Int /\ Top.beta \in Int /\ Top.best \in Int /\ Top.score_ub \in Int
      /\ Top.at \notin {"enter", "loop", "searched"} => Top.fn \in Tree /\ Top.alpha < Top.beta
      /\ Top.fn \in Tree /\ Top.at # "enter" => Top.depth \in 1 .. MAX_DEPTH - 1
      /\ Top.fn \in Tree /\ Top.at # "loop" => Top.alpha < Top.beta
  <2> DEFINE f == Top
  <2>1. Seated(f, Home)
    BY <1>1
  <2> HIDE DEF f
  <2>2. /\ Fields \subseteq DOMAIN f /\ f.alpha \in Int /\ f.beta \in Int /\ f.best \in Int /\ f.score_ub \in Int
        /\ f.at \notin {"enter", "loop", "searched"} => f.fn \in Tree /\ f.alpha < f.beta
        /\ f.fn \in Tree /\ f.at # "enter" => f.depth \in 1 .. MAX_DEPTH - 1
        /\ f.fn \in Tree /\ f.at # "loop" => f.alpha < f.beta
    BY <2>1 DEF Seated, Sound, Ready, Tree
  <2> QED BY <2>2 DEF f
<1> QED BY <1>1, <1>2, <1>3, <1>4, <1>5, <1>6

\* A call that begins has a window and a depth that a node may have.
LEMMA Begins ==
  ASSUME NEW fn, NEW d, NEW a \in Int, NEW b \in Int, NEW t, NEW z,
         \/ fn \in {"pv", "scout"} /\ d \in 0 .. MAX_DEPTH - 2 /\ a < b
         \/ fn \in {"quiesce", "settle"} /\ d = 0
  PROVE  Fresh(Frame(fn, d, a, b, t, z))
<1>1. Made(Frame(fn, d, a, b, t, z)) = 0
  BY Frames
<1> QED BY <1>1, Opened DEF Fresh

\* A call of quiesce that goes on as g, with no more moves to try than it had or than its
\* position has.
Resumed(g, f, p, a, l) ==
    /\ Fields \subseteq DOMAIN g /\ g.at = p /\ g.alpha = a /\ g.left = l
    /\ g.fn = f.fn /\ g.depth = f.depth /\ g.beta = f.beta /\ g.best = f.best
    /\ g.score_ub = f.score_ub /\ g.hash_move = f.hash_move /\ g.counter = f.counter
Spare(l, f, n) == l \subseteq f.left \/ (~Begun(f) /\ l \subseteq DOMAIN Game[n].moves)

LEMMA QuietOnward ==
  ASSUME NEW n \in DOMAIN Game, NEW f, Seated(f, n), f.fn \notin Tree,
         NEW p \in {"loop", "searched"}, NEW a \in Int, NEW l, Spare(l, f, n),
         NEW g, Resumed(g, f, p, a, l)
  PROVE  /\ Seated(g, n)
         /\ p = "loop" => Made(g) = 0
         /\ p = "searched" => Made(g) = 1
<1>1. /\ Fields \subseteq DOMAIN f /\ f.beta \in Int /\ f.best \in Int /\ f.score_ub \in Int
      /\ f.fn \in {"quiesce", "settle"} /\ f.depth = 0 /\ f.hash_move \in DOMAIN Game[n].moves \cup {0}
      /\ f.counter \in Nat /\ f.counter + Cardinality(f.left) < MAX_MOVES
      /\ ~Begun(f) => f.counter = 0
      /\ f.left \in SUBSET DOMAIN Game[n].moves
  BY DEF Seated, Sound, Tree
<1>2. Sound(g) /\ g.at = p /\ g.left = l /\ g.hash_move = f.hash_move /\ g.counter = f.counter
  BY <1>1 DEF Sound, Resumed
<1>3. l \subseteq DOMAIN Game[n].moves /\ g.counter + Cardinality(l) < MAX_MOVES
  <2>1. CASE l \subseteq f.left
    <3>1. Cardinality(l) \in Nat /\ Cardinality(f.left) \in Nat /\ Cardinality(l) <= Cardinality(f.left)
      BY <1>1, <2>1, Few
    <3> QED BY <1>1, <1>2, <2>1, <3>1 DEF MAX_MOVES
  <2>2. CASE ~Begun(f) /\ l \subseteq DOMAIN Game[n].moves
    <3>1. Cardinality(l) \in Nat /\ Cardinality(l) < MAX_MOVES
      BY <2>2, Few
    <3> QED BY <1>1, <1>2, <2>2, <3>1 DEF MAX_MOVES
  <2> QED BY <2>1, <2>2 DEF Spare
<1> QED BY <1>1, <1>2, <1>3 DEF Seated, Begun, Made, Out

\* The steps that look, return or store.
LEMMA LooksTyped ==
  ASSUME Typed, stack # <<>>, Look
  PROVE  (Made(Top) = 0 /\ Ends) \/ Goes(Made(Top)) \/ Calls(Made(Top))
<1> DEFINE Aim == (Made(Top) = 0 /\ Ends) \/ Goes(Made(Top)) \/ Calls(Made(Top))
<1>1. /\ Seated(Top, Home) /\ Home \in DOMAIN Game /\ board # <<>>
      /\ Fields \subseteq DOMAIN Top /\ Top.alpha \in Int /\ Top.beta \in Int /\ Top.best \in Int /\ Top.score_ub \in Int
      /\ Made(Top) = 0 => Home = Last(board) /\ here = Game[Home]
  BY OnTop
<1>2. Top.at \notin {"enter", "loop", "searched"} =>
         Top.fn \in Tree /\ Top.alpha < Top.beta /\ Top.depth \in 1 .. MAX_DEPTH - 1
  BY OnTop
<1>3. /\ here.eval \in Int /\ probe_wdl.score \in Int /\ hit_eval \in Int
      /\ root_moves # {} => root_score \in Int
  BY <1>1, Scores
<1>4. ret.score \in Int
  BY DEF Typed
<1>5. ASSUME NEW stage, Enter(stage)
      PROVE  Made(Top) = 0 /\ Top.at = "enter" /\ Top.fn \in Tree /\ Stage(Top) = stage /\ Top.alpha < Top.beta
  <2>1. Made(Top) = 0 /\ Top.at = "enter" /\ Top.fn \in Tree /\ Stage(Top) = stage
    BY <1>5 DEF Enter, At, InTree, Made, Out, Tree
  <2> QED BY <2>1, OnTop
<1>6. ASSUME NEW place \in {"enter", "null", "probcut", "hash", "loop"}, At(place)
      PROVE  Made(Top) = 0 /\ Top.at = place
  BY <1>6 DEF At, Made, Out
<1>7. ASSUME Ends, Made(Top) = 0 PROVE Aim
  BY <1>7
<1>8. ASSUME NEW f, Go(f), Seated(f, Home), Made(f) = Made(Top) PROVE Aim
  BY <1>8 DEF Goes
<1>9. ASSUME NEW f, NEW g, Call(f, g), Seated(f, Home), Made(f) = Made(Top), Fresh(g) PROVE Aim
  BY <1>9 DEF Calls
<1> SUFFICES Aim
  OBVIOUS
<1> HIDE DEF Aim
<1>10. \A score \in Int : \A line : Return(score, line) => Ends
  BY DEF Ends
<1>11. CASE EndAtRoot
  <2>1. Made(Top) = 0 /\ root_moves # {} /\ \E line : Return(root_score, line)
    BY <1>5, <1>11 DEF EndAtRoot
  <2> QED BY <1>3, <1>7, <1>10, <2>1
<1>12. CASE EndEarly
  <2>1. Made(Top) = 0 /\ Stage(Top) = "score" /\ Return(EarlyScore(Top)[1], <<>>)
    BY <1>5, <1>12 DEF EndEarly
  <2>2. EarlyScore(Top) # <<>>
    BY <2>1 DEF Stage
  <2>3. EarlyScore(Top)[1] \in Int
    BY <1>1, <2>2, Heads
  <2> QED BY <1>7, <1>10, <2>1, <2>3
<1>13. CASE EndInQuiesce
  <2> DEFINE f == Frame("quiesce", 0, Top.alpha, Top.beta, "NONE", FALSE)
  <2>1. Made(Top) = 0 /\ Go(f)
    BY <1>5, <1>13 DEF EndInQuiesce
  <2>2. Fresh(f)
    BY <1>1, Begins
  <2> HIDE DEF f
  <2> QED BY <1>8, <2>1, <2>2 DEF Fresh
<1>14. CASE EndInTable
  <2>1. Made(Top) = 0 /\ Return(hit_eval, <<>>)
    BY <1>5, <1>14 DEF EndInTable
  <2> QED BY <1>3, <1>7, <1>10, <2>1
<1>15. CASE Work
  <2> DEFINE w == Working(Top)
  <2>1. Made(Top) = 0 /\ Top.at = "enter" /\ Top.fn \in Tree /\ Stage(Top) = "work" /\ Start(w)
    BY <1>5, <1>15 DEF Work
  <2>2. \A p \in {"hash", "null"} : Seated([w EXCEPT !.at = p], Home) /\ w.fn = Top.fn /\ w.depth \in 1 .. MAX_DEPTH - 1
    BY <1>1, <2>1, SetToWork
  <2>3. \A p : Fields \subseteq DOMAIN [w EXCEPT !.at = p] => [w EXCEPT !.at = p].at = p
    BY DEF Fields
  <2> HIDE DEF w
  <2>4. CASE Futile(w)
    <3>1. w.depth \in 1 .. 3
      <4>1. w.depth \in 1 .. MAX_DEPTH - 1
        <5>1. "hash" \in {"hash", "null"}
          OBVIOUS
        <5> QED BY <2>2, <5>1
      <4>2. w.depth <= rfp_max_depth
        BY <2>4 DEF Futile
      <4>3. \A d \in 1 .. MAX_DEPTH - 1 : d <= rfp_max_depth => d \in 1 .. 3
        BY DEF rfp_max_depth, MAX_DEPTH
      <4> QED BY <4>1, <4>2, <4>3
    <3>2. reverse_futility_margins[w.depth] \in Int
      BY <3>1 DEF reverse_futility_margins
    <3>3. here.eval - reverse_futility_margins[w.depth] \in Int
      BY <1>3, <3>2
    <3>4. Return(here.eval - reverse_futility_margins[w.depth], <<>>)
      BY <2>1, <2>4 DEF Start
    <3> QED BY <1>7, <1>10, <2>1, <3>3, <3>4
  <2>5. CASE ~Futile(w)
    <3>1. PICK p \in {"hash", "null"} : Go([w EXCEPT !.at = p])
      BY <2>1, <2>5 DEF Start
    <3> DEFINE f == [w EXCEPT !.at = p]
    <3>2. Seated(f, Home) /\ Go(f)
      BY <2>2, <3>1
    <3>3. f.at = p
      BY <2>3, <3>2 DEF Seated, Sound
    <3> HIDE DEF f
    <3>4. Made(f) = 0
      BY <3>3 DEF Made, Out
    <3> QED BY <1>8, <2>1, <3>2, <3>4
  <2> QED BY <2>4, <2>5
\* A node that goes on at another place.
<1>16. ASSUME NEW p \in {"probcut", "probed", "hash", "loop", "searched"},
              Top.at \notin {"enter", "loop", "searched"},
              p \in {"loop", "searched"} \/ ~Begun(Top)
       PROVE  Seated([Top EXCEPT !.at = p], Home) /\ Made([Top EXCEPT !.at = p]) = (IF p = "searched" THEN 1 ELSE 0)
  <2> DEFINE f == Top
             g == [f EXCEPT !.at = p]
  <2>1. g.at = p
    BY <1>1 DEF Fields
  <2> HIDE DEF f
  <2>2. Seated(g, Home)
    BY <1>1, <1>2, <1>16, Onward DEF f
  <2> HIDE DEF g
  <2>3. Made(g) = (IF p = "searched" THEN 1 ELSE 0)
    BY <2>1 DEF Made, Out
  <2> QED BY <2>2, <2>3 DEF f, g
<1>17. CASE NoNullMove \/ NoHashMove
  <2>1. CASE NoNullMove
    <3>1. Made(Top) = 0 /\ Top.at = "null" /\ Go([Top EXCEPT !.at = "probcut"])
      BY <1>6, <2>1 DEF NoNullMove
    <3> QED BY <1>8, <1>16, <3>1 DEF Begun
  <2>2. CASE NoHashMove
    <3>1. Made(Top) = 0 /\ Top.at = "hash" /\ Go([Top EXCEPT !.at = "loop"])
      BY <1>6, <2>2 DEF NoHashMove
    <3> QED BY <1>8, <1>16, <3>1 DEF Begun
  <2> QED BY <1>17, <2>1, <2>2
<1>18. CASE Probcut
  <2> DEFINE threshold == Top.beta + probcut_margin
             g == Frame("scout", Top.depth - probcut_depth_reduction, threshold - 1, threshold, Top.type, Top.allow_null)
  <2>1. Made(Top) = 0 /\ Top.at = "probcut"
    BY <1>6, <1>18 DEF Probcut
  <2>2. CASE Top.depth >= probcut_min_depth /\ Call([Top EXCEPT !.at = "probed"], g)
    <3>1. Top.depth - probcut_depth_reduction \in 0 .. MAX_DEPTH - 2
      <4>1. \A d \in 1 .. MAX_DEPTH - 1 :
              d >= probcut_min_depth => d - probcut_depth_reduction \in 0 .. MAX_DEPTH - 2
        BY DEF probcut_min_depth, probcut_depth_reduction, MAX_DEPTH
      <4> QED BY <1>2, <2>1, <2>2, <4>1
    <3>2. threshold \in Int /\ threshold - 1 \in Int /\ threshold - 1 < threshold
      BY <1>1 DEF probcut_margin
    <3> HIDE DEF threshold
    <3>3. Fresh(g)
      BY <3>1, <3>2, Begins
    <3> HIDE DEF g
    <3> QED BY <1>9, <1>16, <2>1, <2>2, <3>3 DEF Begun
  <2>3. CASE Go([Top EXCEPT !.at = "hash"])
    BY <1>8, <1>16, <2>1, <2>3 DEF Begun
  <2> QED BY <1>18, <2>2, <2>3 DEF Probcut
<1>19. CASE AfterProbcut
  <2>1. Made(Top) = 0 /\ Top.at = "probed" /\ (Return(ret.score, <<>>) \/ Go([Top EXCEPT !.at = "hash"]))
    BY <1>19 DEF AfterProbcut, Back, Made, Out
  <2>2. CASE Return(ret.score, <<>>)
    BY <1>4, <1>7, <1>10, <2>1, <2>2
  <2>3. CASE Go([Top EXCEPT !.at = "hash"])
    BY <1>8, <1>16, <2>1, <2>3 DEF Begun
  <2> QED BY <2>1, <2>2, <2>3
<1>20. CASE PruneMove
  <2> DEFINE f == Counted(Top)
  <2>1. Made(Top) = 0 /\ Top.at = "loop" /\ Top.fn \in Tree /\ Top.left # {} /\ Go(f)
    BY <1>6, <1>20 DEF PruneMove, InTree, Tree
  <2>2. Seated(f, Home)
    BY <1>1, <2>1, MoveCounted
  <2>3. IsFrame(Top)
    BY <1>1 DEF Fields, IsFrame
  <2>4. f.at = "loop"
    BY <2>1, <2>3, Frames DEF Unmoved
  <2> HIDE DEF f
  <2>5. Made(f) = 0
    BY <2>4 DEF Made, Out
  <2> QED BY <1>8, <2>1, <2>2, <2>5
<1>21. CASE TryAgain
  <2>1. Top.at = "tried" /\ Call([Top EXCEPT !.at = "searched"], FullChild(Top))
    BY <1>21 DEF TryAgain, Back
  <2>2. Made(Top) = 1
    BY <2>1 DEF Made, Out
  <2>3. Fresh(FullChild(Top))
    <3>1. Top.depth - 1 \in 0 .. MAX_DEPTH - 2 /\ -Top.beta \in Int /\ -Top.alpha \in Int /\ 1 - Top.beta \in Int
          /\ -Top.beta < -Top.alpha /\ -Top.beta < 1 - Top.beta
      BY <1>1, <1>2, <2>1 DEF MAX_DEPTH
    <3> QED BY <3>1, Begins DEF FullChild, PvChild, ScoutChild
  <2> QED BY <1>9, <1>16, <2>1, <2>2, <2>3
<1>22. CASE QuiesceEnter
  <2> DEFINE e == Top
             p == here
             early == QuiesceScore(Top, here)
             l == {i \in DOMAIN p.moves : p.check \/ IsCapture(p.moves[i])}
             f == [e EXCEPT !.at = "loop", !.alpha = Max({@, p.eval}), !.left = l]
  <2>1. Made(Top) = 0 /\ Top.at = "enter" /\ Top.fn \notin Tree
    BY <1>6, <1>22 DEF QuiesceEnter, InQuiesce, InTree, Tree
  <2>2. IF early # <<>> THEN Return(early[1], <<>>) ELSE Go(f)
    BY <1>22 DEF QuiesceEnter, QuiesceStart
  <2>3. CASE early # <<>>
    <3>1. early[1] \in Int
      BY <1>1, <2>3, QuiesceHeads
    <3> HIDE DEF early
    <3> QED BY <1>7, <1>10, <2>1, <2>2, <2>3, <3>1
  <2>4. CASE early = <<>>
    <3>1. l \subseteq DOMAIN Game[Home].moves
      BY <1>1, <2>1
    <3> HIDE DEF early, l
    <3>2. Go(f)
      BY <2>2, <2>4
    <3>3. Fields \subseteq DOMAIN e /\ e.alpha \in Int /\ ~Begun(Top)
      BY <1>1, <2>1 DEF Begun
    <3>4. Max({e.alpha, p.eval}) \in Int
      BY <1>3, <3>3, Extremes
    <3> HIDE DEF e, p
    <3>5. Resumed(f, e, "loop", Max({e.alpha, p.eval}), l)
      BY <3>3 DEF Resumed, Fields
    <3> HIDE DEF f
    <3>6. Spare(l, e, Home) /\ Seated(e, Home) /\ e.fn \notin Tree
      BY <1>1, <2>1, <3>1, <3>3 DEF Spare, e
    <3>7. Seated(f, Home) /\ Made(f) = 0
      BY <1>1, <3>4, <3>5, <3>6, QuietOnward
    <3> QED BY <1>8, <2>1, <3>2, <3>7
  <2> QED BY <2>3, <2>4
<1>23. CASE QuiesceSkip
  <2> DEFINE e == Top
             f == [e EXCEPT !.left = Untried(e)]
  <2>1. Made(Top) = 0 /\ Top.at = "loop" /\ Top.fn \notin Tree /\ Go(f)
    BY <1>6, <1>23 DEF QuiesceSkip, InQuiesce, InTree, Tree
  <2>2. /\ Fields \subseteq DOMAIN e /\ e.alpha \in Int /\ Seated(e, Home) /\ e.fn \notin Tree
        /\ e.at = "loop" /\ Spare(Untried(e), e, Home)
    BY <1>1, <2>1 DEF Spare, Untried
  <2> HIDE DEF e
  <2>3. Resumed(f, e, "loop", e.alpha, Untried(e))
    BY <2>2 DEF Resumed, Fields
  <2> HIDE DEF f
  <2>4. Seated(f, Home) /\ Made(f) = 0
    BY <1>1, <2>2, <2>3, QuietOnward
  <2> QED BY <1>8, <2>1, <2>4
<1>24. CASE QuiesceDone
  <2>1. Made(Top) = 0 /\ Return(Top.alpha, Top.line)
    BY <1>6, <1>24 DEF QuiesceDone
  <2> QED BY <1>1, <1>7, <1>10, <2>1
<1> QED BY <1>11, <1>12, <1>13, <1>14, <1>15, <1>17, <1>18, <1>19, <1>20, <1>21, <1>22, <1>23, <1>24 DEF Look

\* The calls that a move is searched with.
LEMMA Children ==
  ASSUME NEW f, f.depth \in 1 .. MAX_DEPTH - 1, f.alpha \in Int, f.beta \in Int, f.alpha < f.beta
  PROVE  /\ Fresh(PvChild(f)) /\ Fresh(FullChild(f))
         /\ \A d \in 0 .. f.depth - 1 : Fresh(ScoutChild(f, d))
         /\ \A t : Fresh(Frame("scout", f.depth - 1, -f.alpha - 1, -f.alpha, t, TRUE))
<1>1. /\ f.depth - 1 \in 0 .. MAX_DEPTH - 2
      /\ \A d \in 0 .. f.depth - 1 : d \in 0 .. MAX_DEPTH - 2
  <2>1. \A k \in 1 .. MAX_DEPTH - 1 : /\ k - 1 \in 0 .. MAX_DEPTH - 2
                                      /\ \A d \in 0 .. k - 1 : d \in 0 .. MAX_DEPTH - 2
    BY DEF MAX_DEPTH
  <2> QED BY <2>1
<1>2. /\ -f.beta \in Int /\ -f.alpha \in Int /\ 1 - f.beta \in Int /\ -f.alpha - 1 \in Int
      /\ -f.beta < -f.alpha /\ -f.beta < 1 - f.beta /\ -f.alpha - 1 < -f.alpha
  OBVIOUS
<1>3. Fresh(PvChild(f))
  BY <1>1, <1>2, Begins DEF PvChild
<1>4. ASSUME NEW d \in 0 .. f.depth - 1 PROVE Fresh(ScoutChild(f, d))
  <2>1. d \in 0 .. MAX_DEPTH - 2
    BY <1>1
  <2> QED BY <1>2, <2>1, Begins DEF ScoutChild
<1>5. ASSUME NEW t PROVE Fresh(Frame("scout", f.depth - 1, -f.alpha - 1, -f.alpha, t, TRUE))
  BY <1>1, <1>2, Begins
<1>6. Fresh(FullChild(f))
  <2>1. f.depth - 1 \in 0 .. f.depth - 1
    BY <1>1 DEF MAX_DEPTH
  <2>2. FullChild(f) = PvChild(f) \/ FullChild(f) = ScoutChild(f, f.depth - 1)
    BY DEF FullChild
  <2> QED BY <1>3, <1>4, <2>1, <2>2
<1> QED BY <1>3, <1>4, <1>5, <1>6

\* The steps that make a move or take one back.
Forth == Made(Top) = 0 /\ Calls(1) /\ \E n \in DOMAIN Game : board' = Append(board, n)
Taken == Made(Top) = 1 /\ (Ends \/ Goes(0)) /\ board' = Front(board)

LEMMA PlaysTyped ==
  ASSUME Typed, stack # <<>>, Play
  PROVE  Forth \/ Taken
<1>1. /\ Seated(Top, Home) /\ Home \in DOMAIN Game /\ board # <<>>
      /\ Fields \subseteq DOMAIN Top /\ Top.alpha \in Int /\ Top.beta \in Int /\ Top.best \in Int /\ Top.score_ub \in Int
      /\ Made(Top) = 0 => Home = Last(board) /\ here = Game[Home]
  BY OnTop
<1>2. Top.at \notin {"enter", "loop", "searched"} =>
         Top.fn \in Tree /\ Top.alpha < Top.beta /\ Top.depth \in 1 .. MAX_DEPTH - 1
  BY OnTop
<1>3. ret.score \in Int /\ -ret.score \in Int /\ MAX_SCORE \in Int
  BY DEF Typed, MAX_SCORE, TT!MAX_SCORE
<1>4. ASSUME NEW place \in {"null", "hash", "loop"}, At(place)
      PROVE  Made(Top) = 0 /\ Top.at = place
  BY <1>4 DEF At, Made, Out
<1>5. ASSUME NEW places \in SUBSET {"nulled", "tried", "searched"}, Back(places)
      PROVE  Made(Top) = 1 /\ Top.at \in places
  BY <1>5 DEF Back, Made, Out
<1>6. ASSUME NEW f, NEW g, NEW n \in DOMAIN Game, Made(Top) = 0, Call(f, g), Seated(f, Home),
             Made(f) = 1, Fresh(g), board' = Append(board, n)
      PROVE  Forth
  BY <1>6 DEF Forth, Calls
<1>7. ASSUME NEW f, Made(Top) = 1, Go(f), Seated(f, Home), Made(f) = 0, Unmake PROVE Taken
  BY <1>7 DEF Taken, Goes, Unmake
<1>8. ASSUME NEW score \in Int, NEW line, Made(Top) = 1, Return(score, line), Unmake PROVE Taken
  BY <1>8 DEF Taken, Ends, Unmake
<1> HIDE DEF Forth, Taken
\* A node of the tree that goes on at another place, with another move.
<1>9. ASSUME NEW p \in {"nulled", "hashed", "probcut"}, NEW i,
             Top.at \notin {"enter", "loop", "searched"}, ~Begun(Top), p = "hashed" => Top.hash_move # 0
      PROVE  /\ Seated([Top EXCEPT !.at = p], Home) /\ Seated([Top EXCEPT !.at = p, !.move = i], Home)
             /\ p = "probcut" => Made([Top EXCEPT !.at = p]) = 0
             /\ p # "probcut" => Made([Top EXCEPT !.at = p]) = 1 /\ Made([Top EXCEPT !.at = p, !.move = i]) = 1
  <2> DEFINE f == Top
             g == [f EXCEPT !.at = p]
             h == [f EXCEPT !.at = p, !.move = i]
  <2>1. g.at = p /\ h.at = p
    BY <1>1 DEF Fields
  <2> HIDE DEF f
  <2>2. Seated(g, Home) /\ Seated(h, Home)
    BY <1>1, <1>2, <1>9, Onward DEF f
  <2> HIDE DEF g, h
  <2>3. /\ p = "probcut" => Made(g) = 0
        /\ p # "probcut" => Made(g) = 1 /\ Made(h) = 1
    BY <2>1 DEF Made, Out
  <2> QED BY <2>2, <2>3 DEF f, g, h
<1>10. \A i \in DOMAIN Game[Home].moves : Made(Top) = 0 => here.moves[i].to \in DOMAIN Game
  BY <1>1, PositionsAssumption
<1>11. CASE NullMove
  <2> DEFINE f == [Top EXCEPT !.at = "nulled"]
             g == Frame("scout", Top.depth - 1 - null_move_depth_reduction, -Top.beta, 1 - Top.beta, "CUT", FALSE)
  <2>1. Made(Top) = 0 /\ Top.at = "null" /\ MayPass(Top) /\ Call(f, g) /\ board' = Append(board, here.passed)
    BY <1>4, <1>11 DEF NullMove
  <2>2. here.passed \in DOMAIN Game
    BY <1>1, <2>1, PositionsAssumption
  <2>3. Seated(f, Home) /\ Made(f) = 1
    BY <1>9, <2>1 DEF Begun
  <2>4. Fresh(g)
    <3>1. Top.depth - 1 - null_move_depth_reduction \in 0 .. MAX_DEPTH - 2
      <4>1. \A d \in 1 .. MAX_DEPTH - 1 :
              d > null_move_depth_reduction => d - 1 - null_move_depth_reduction \in 0 .. MAX_DEPTH - 2
        BY DEF null_move_depth_reduction, MAX_DEPTH
      <4> QED BY <1>2, <2>1, <4>1 DEF MayPass
    <3>2. -Top.beta \in Int /\ 1 - Top.beta \in Int /\ -Top.beta < 1 - Top.beta
      BY <1>1
    <3> QED BY <3>1, <3>2, Begins
  <2> HIDE DEF f, g
  <2> QED BY <1>6, <2>1, <2>2, <2>3, <2>4
<1>12. CASE AfterNullMove
  <2> DEFINE f == [Top EXCEPT !.at = "probcut"]
  <2>1. Made(Top) = 1 /\ Top.at = "nulled" /\ Unmake /\ (Return(-ret.score, <<>>) \/ Go(f))
    BY <1>5, <1>12 DEF AfterNullMove
  <2>2. Seated(f, Home) /\ Made(f) = 0
    BY <1>9, <2>1 DEF Begun
  <2> HIDE DEF f
  <2>3. CASE Return(-ret.score, <<>>)
    BY <1>3, <1>8, <2>1, <2>3
  <2>4. CASE Go(f)
    BY <1>7, <2>1, <2>2, <2>4
  <2> QED BY <2>1, <2>3, <2>4
<1>13. CASE HashMove
  <2> DEFINE f == [Top EXCEPT !.at = "hashed", !.move = Top.hash_move]
             n == here.moves[Top.hash_move].to
  <2>1. /\ Made(Top) = 0 /\ Top.at = "hash" /\ Top.hash_move # 0 /\ Call(f, FullChild(Top))
        /\ board' = Append(board, n)
    BY <1>4, <1>13 DEF HashMove, MakeMove
  <2>2. Seated(f, Home) /\ Made(f) = 1
    BY <1>9, <2>1 DEF Begun
  <2>3. n \in DOMAIN Game
    <3>1. Top.hash_move \in DOMAIN Game[Home].moves
      BY <1>1, <2>1 DEF Seated
    <3> QED BY <1>10, <2>1, <3>1
  <2>4. Fresh(FullChild(Top))
    BY <1>1, <1>2, <2>1, Children
  <2> HIDE DEF f, n
  <2> QED BY <1>6, <2>1, <2>2, <2>3, <2>4
<1>14. CASE TryMove
  <2> DEFINE c == Counted(Top)
             m == here.moves[c.move]
             d == Clamp(SearchDepth(c, m), c.depth - 1)
             scout == Frame("scout", c.depth - 1, -c.alpha - 1, -c.alpha, "CUT", TRUE)
  <2>1. /\ Made(Top) = 0 /\ Top.at = "loop" /\ Top.fn \in Tree /\ Top.left # {}
        /\ \/ Call([c EXCEPT !.at = "searched"], PvChild(c))
           \/ Call([c EXCEPT !.at = "tried"], scout)
           \/ Call([c EXCEPT !.at = "tried", !.search_depth = d], ScoutChild(c, d))
        /\ board' = Append(board, here.moves[c.move].to)
    BY <1>4, <1>14 DEF TryMove, MakeMove, InTree, Tree
  <2>2. /\ c.alpha = Top.alpha /\ c.beta = Top.beta /\ c.alpha < c.beta
        /\ c.depth \in 1 .. MAX_DEPTH - 1 /\ c.counter \in 1 .. MAX_MOVES - 1
        /\ c.move \in DOMAIN Game[Home].moves
        /\ \A p \in {"tried", "searched"} : \A k :
              Seated([c EXCEPT !.at = p], Home) /\ Seated([c EXCEPT !.at = p, !.search_depth = k], Home)
        /\ Seated(c, Home)
    BY <1>1, <2>1, MoveCounted
  <2> HIDE DEF c
  <2>3. d \in 0 .. c.depth - 1
    BY <2>2, Clamped
  <2>4. Fresh(PvChild(c)) /\ Fresh(scout) /\ Fresh(ScoutChild(c, d))
    BY <1>1, <2>2, <2>3, Children
  <2>5. here.moves[c.move].to \in DOMAIN Game
    BY <1>10, <2>1, <2>2
  <2> HIDE DEF d, scout
  <2>6. \A p \in {"tried", "searched"} : \A k :
           Made([c EXCEPT !.at = p]) = 1 /\ Made([c EXCEPT !.at = p, !.search_depth = k]) = 1
    <3>1. Fields \subseteq DOMAIN c
      BY <2>2 DEF Seated, Sound
    <3> QED BY <3>1 DEF Made, Out, Fields
  <2>7. ASSUME NEW f, NEW g, Call(f, g), Seated(f, Home), Made(f) = 1, Fresh(g) PROVE Forth
    BY <1>6, <2>1, <2>5, <2>7
  <2>8. CASE Call([c EXCEPT !.at = "searched"], PvChild(c))
    BY <2>2, <2>4, <2>6, <2>7, <2>8
  <2>9. CASE Call([c EXCEPT !.at = "tried"], scout)
    BY <2>2, <2>4, <2>6, <2>7, <2>9
  <2>10. CASE Call([c EXCEPT !.at = "tried", !.search_depth = d], ScoutChild(c, d))
    BY <2>2, <2>4, <2>6, <2>7, <2>10
  <2> QED BY <2>1, <2>8, <2>9, <2>10
<1>15. CASE AfterMove
  <2> DEFINE g == Raised(IF -ret.score > Top.best THEN Improved(Top, -ret.score) ELSE Top)
             f == [g EXCEPT !.left = IF Cut(g) THEN {} ELSE @]
  <2>1. /\ Made(Top) = 1 /\ Top.at \in {"tried", "searched"} /\ Top.fn \in Tree /\ Unmake
        /\ Return(MAX_SCORE, <<>>) \/ Go(f)
    BY <1>5, <1>15 DEF AfterMove, LeaveBoard, InTree, Tree
  <2>2. Seated(f, Home)
    BY <1>1, <1>3, <2>1, Learned
  <2>3. f.at = "loop"
    <3> DEFINE t == Top
               i == IF -ret.score > t.best THEN Improved(t, -ret.score) ELSE t
    <3>1. Fields \subseteq DOMAIN t
      BY <1>1
    <3> HIDE DEF t
    <3>2. Fields \subseteq DOMAIN i
      BY <3>1 DEF Improved, Fields
    <3> HIDE DEF i
    <3>3. Fields \subseteq DOMAIN Raised(i) /\ Raised(i).at = "loop"
      BY <3>2 DEF Raised, Fields
    <3>4. Fields \subseteq DOMAIN g /\ g.at = "loop"
      BY <3>3 DEF i, t
    <3> HIDE DEF g
    <3> QED BY <3>4 DEF Fields
  <2> HIDE DEF f
  <2>4. Made(f) = 0
    BY <2>3 DEF Made, Out
  <2>5. CASE Return(MAX_SCORE, <<>>)
    BY <1>3, <1>8, <2>1, <2>5
  <2>6. CASE Go(f)
    BY <1>7, <2>1, <2>2, <2>4, <2>6
  <2> QED BY <2>1, <2>5, <2>6
<1>16. CASE QuiesceMove
  <2> DEFINE e == Top
             f == [e EXCEPT !.at = "searched", !.left = Untried(e)]
             i == Min(Top.left)
             n == here.moves[i].to
             g == Frame(Top.fn, 0, -Top.beta, -Top.alpha, "NONE", FALSE)
  <2>1. /\ Made(Top) = 0 /\ Top.at = "loop" /\ Top.fn \notin Tree /\ Top.left # {}
        /\ Call(f, g) /\ board' = Append(board, n)
    BY <1>4, <1>16 DEF QuiesceMove, MakeMove, InQuiesce, InTree, Tree
  <2>2. n \in DOMAIN Game
    <3>1. Top.left \in SUBSET DOMAIN Game[Home].moves
      BY <1>1 DEF Seated
    <3>2. Top.left \in SUBSET Nat
      BY <1>1, <3>1, Few
    <3>3. i \in DOMAIN Game[Home].moves
      BY <2>1, <3>1, <3>2, Extremes
    <3> QED BY <1>10, <2>1, <3>3
  <2>3. Fresh(g)
    <3>1. -Top.beta \in Int /\ -Top.alpha \in Int /\ Top.fn \in {"quiesce", "settle"}
      BY <1>1, <2>1 DEF Seated, Sound, Tree
    <3> QED BY <3>1, Begins
  <2>4. /\ Fields \subseteq DOMAIN e /\ e.alpha \in Int /\ Seated(e, Home) /\ e.fn \notin Tree
        /\ e.at = "loop" /\ Spare(Untried(e), e, Home)
    BY <1>1, <2>1 DEF Spare, Untried
  <2> HIDE DEF e, g, n
  <2>5. Resumed(f, e, "searched", e.alpha, Untried(e))
    BY <2>4 DEF Resumed, Fields
  <2> HIDE DEF f
  <2>6. Seated(f, Home) /\ Made(f) = 1
    BY <1>1, <2>4, <2>5, QuietOnward
  <2> QED BY <1>6, <2>1, <2>2, <2>3, <2>6
<1>17. CASE AfterQuiesceMove
  <2> DEFINE e == Top
             r == Raised(e)
             l == IF Cut(r) THEN {} ELSE r.left
             way == IF Top.fn = "settle" THEN Way(Top) ELSE r.line
             f == [r EXCEPT !.left = l, !.line = way]
  <2>1. Made(Top) = 1 /\ Top.at = "searched" /\ Top.fn \notin Tree /\ Unmake
    BY <1>5, <1>17 DEF AfterQuiesceMove, InQuiesce, InTree, Tree
  <2>2. Go(f)
    BY <1>17 DEF AfterQuiesceMove
  <2>3. Fields \subseteq DOMAIN e /\ e.alpha \in Int /\ Seated(e, Home) /\ e.fn \notin Tree
    BY <1>1, <2>1
  <2>4. Max({e.alpha, -ret.score}) \in Int
    BY <1>3, <2>3, Extremes
  <2> HIDE DEF e, way
  <2>5. Resumed(r, e, "loop", Max({e.alpha, -ret.score}), e.left)
    BY <2>3 DEF Raised, Resumed, Fields
  <2>6. Spare(l, e, Home)
    BY <2>5 DEF Spare, Resumed
  <2> HIDE DEF r, l
  <2>7. Resumed(f, e, "loop", Max({e.alpha, -ret.score}), l)
    BY <2>5 DEF Resumed, Fields
  <2> HIDE DEF f
  <2>8. Seated(f, Home) /\ Made(f) = 0
    BY <1>1, <2>3, <2>4, <2>6, <2>7, QuietOnward
  <2> QED BY <1>7, <2>1, <2>2, <2>8
<1> QED BY <1>11, <1>12, <1>13, <1>14, <1>15, <1>16, <1>17 DEF Play

\* The steps that store.
LEMMA KeepsTyped ==
  ASSUME Typed, stack # <<>>, Keep
  PROVE  Made(Top) = 0 /\ Ends /\ InTable(table')
<1>1. /\ Seated(Top, Home) /\ board # <<>> /\ Top.best \in Int /\ Top.score_ub \in Int
  BY OnTop
<1>2. /\ Last(board) \in DOMAIN Game /\ ply \in Int /\ probe_wdl.score \in Int
  BY <1>1, Scores
<1>3. InTable(table)
  BY DEF Typed
<1>4. \A score \in Int : \A line : Return(score, line) => Ends
  BY DEF Ends
<1>5. ASSUME NEW score \in Int, NEW bound, NEW depth, NEW name, Store(score, bound, depth, name)
      PROVE  InTable(table')
  BY <1>2, <1>3, <1>5, Stored DEF Store
<1>6. CASE EndInTablebase
  <2>1. /\ Made(Top) = 0 /\ Return(probe_wdl.score, <<>>)
        /\ Store(probe_wdl.score, probe_wdl.bound, MAX_DEPTH, TT!NoMove)
    BY <1>6 DEF EndInTablebase, Enter, At, Made, Out
  <2> QED BY <1>2, <1>4, <1>5, <2>1
<1>7. CASE Done
  <2> DEFINE best == Min({Top.best, Top.score_ub})
  <2>1. /\ Made(Top) = 0
        /\ \/ Return(Top.best, <<>>) /\ table' = table
           \/ /\ Store(best, BoundOf(best, Top), Top.depth, Top.best_move)
              /\ Return(best, LineOf(Top))
    BY <1>7 DEF Done, At, Made, Out
  <2>2. best \in Int
    BY <1>1, Extremes
  <2> HIDE DEF best
  <2>3. CASE Return(Top.best, <<>>) /\ table' = table
    BY <1>1, <1>3, <1>4, <2>1, <2>3 DEF InTable
  <2>4. CASE Store(best, BoundOf(best, Top), Top.depth, Top.best_move) /\ Return(best, LineOf(Top))
    BY <1>4, <1>5, <2>1, <2>2, <2>4
  <2> QED BY <2>1, <2>3, <2>4
<1> QED BY <1>6, <1>7 DEF Keep

\* The answer to the hash move, which may be stored as the cut it is.
LEMMA HashTyped ==
  ASSUME Typed, stack # <<>>, AfterHashMove
  PROVE  Taken /\ InTable(table')
<1>1. /\ Seated(Top, Home) /\ Home \in DOMAIN Game /\ board # <<>> /\ Top.best \in Int
      /\ Made(Top) = 1 => Home = parent
  BY OnTop
<1>2. Made(Top) = 1 /\ Top.at = "hashed" /\ Top.fn \in Tree /\ Unmake
  <2>1. Made(Top) = 1 /\ Top.at = "hashed" /\ Unmake
    BY DEF AfterHashMove, Back, Made, Out
  <2> QED BY <2>1, OnTop
<1>3. ret.score \in Int /\ -ret.score \in Int /\ MAX_SCORE \in Int /\ InTable(table)
  BY DEF Typed, MAX_SCORE, TT!MAX_SCORE
<1>4. ASSUME NEW f, Go(f), Seated(f, Home), Made(f) = 0 PROVE Taken
  BY <1>2, <1>4 DEF Taken, Goes, Unmake
<1>5. ASSUME NEW score \in Int, NEW line, Return(score, line) PROVE Taken
  BY <1>2, <1>5 DEF Taken, Ends, Unmake
<1> DEFINE pv == Top.fn = "pv"
           score == IF pv THEN Max({Top.best, -ret.score}) ELSE -ret.score
           k == IF pv THEN 1 ELSE 0
           f == [Raised(Improved(Top, score)) EXCEPT !.counter = k]
           best == Min({f.best, f.score_ub})
<1>6. IF stop THEN Return(MAX_SCORE, <<>>) /\ UNCHANGED table
      ELSE IF Cut(f) THEN /\ StoreAt(parent, ply - 1, best, "LOWER", f.depth, f.best_move)
                          /\ Return(best, LineOf(f))
      ELSE Go(f) /\ UNCHANGED table
  BY DEF AfterHashMove
<1>7. score \in Int /\ k \in {0, 1}
  <2>1. Max({Top.best, -ret.score}) \in Int
    BY <1>1, <1>3, Extremes
  <2> QED BY <1>3, <2>1
<1>8. f.at = "loop"
  <2> DEFINE t == Top
             i == Improved(t, score)
             r == Raised(i)
  <2>1. Fields \subseteq DOMAIN t
    BY OnTop
  <2> HIDE DEF t, score, k
  <2>2. Fields \subseteq DOMAIN i
    BY <2>1 DEF Improved, Fields
  <2> HIDE DEF i
  <2>3. Fields \subseteq DOMAIN r /\ r.at = "loop"
    BY <2>2 DEF Raised, Fields
  <2> HIDE DEF r
  <2>4. [r EXCEPT !.counter = k].at = "loop"
    BY <2>3 DEF Fields
  <2> QED BY <2>4 DEF r, i, t
<1> HIDE DEF score, k
<1>9. f.best \in Int /\ f.score_ub \in Int /\ (~Cut(f) => Seated(f, Home))
  BY <1>1, <1>2, <1>3, <1>7, Learned
<1> HIDE DEF f
<1>10. Made(f) = 0 /\ best \in Int
  BY <1>8, <1>9, Extremes DEF Made, Out
<1> HIDE DEF best
<1>11. CASE stop
  BY <1>3, <1>5, <1>6, <1>11 DEF InTable
<1>12. CASE ~stop /\ Cut(f)
  <2>1. StoreAt(parent, ply - 1, best, "LOWER", f.depth, f.best_move) /\ Return(best, LineOf(f))
    BY <1>6, <1>12
  <2>2. parent \in DOMAIN Game
    BY <1>1, <1>2
  <2>3. ply - 1 \in Int
    <3>1. ply \in Nat
      BY <1>1, Scores
    <3> QED BY <3>1
  <2>4. InTable(table')
    BY <1>3, <1>10, <2>1, <2>2, <2>3, Stored
  <2> QED BY <1>5, <1>10, <2>1, <2>4
<1>13. CASE ~stop /\ ~Cut(f)
  <2>1. Go(f) /\ table' = table
    BY <1>6, <1>13
  <2> QED BY <1>3, <1>4, <1>9, <1>10, <1>13, <2>1 DEF InTable
<1> QED BY <1>11, <1>12, <1>13

LEMMA StepTyped == ASSUME Typed, Step PROVE Typed'
<1>0. stack # <<>>
  BY DEF Step, Look, Play, Keep, EndAtRoot, EndEarly, EndInQuiesce, EndInTable, Work,
         NoNullMove, Probcut, AfterProbcut, NoHashMove, PruneMove, TryAgain, QuiesceEnter,
         QuiesceSkip, QuiesceDone, NullMove, AfterNullMove, HashMove, TryMove, AfterMove,
         QuiesceMove, AfterQuiesceMove, EndInTablebase, Done, AfterHashMove, StopItself,
         Enter, At, Back
<1>1. stop \in BOOLEAN /\ InTable(table)
  BY DEF Typed
<1>2. root_ply' = root_ply
  BY DEF Step
<1>3. (table' = table) => InTable(table')
  BY <1>1 DEF InTable
<1>4. CASE Look /\ UNCHANGED <<board, stop, table>>
  BY <1>0, <1>1, <1>2, <1>3, <1>4, LooksTyped, Settled
<1>5. CASE Play /\ UNCHANGED <<stop, table>>
  BY <1>0, <1>1, <1>2, <1>3, <1>5, PlaysTyped, Settled DEF Forth, Taken
<1>6. CASE Keep /\ UNCHANGED <<board, stop>>
  BY <1>0, <1>1, <1>2, <1>6, KeepsTyped, Settled
<1>7. CASE AfterHashMove /\ UNCHANGED stop
  BY <1>0, <1>1, <1>2, <1>7, HashTyped, Settled DEF Taken
<1>8. CASE StopItself /\ UNCHANGED <<board, table>>
  <2>1. Made(Top) = 0 /\ Return(MAX_SCORE, <<>>) /\ stop' \in BOOLEAN
    BY <1>8 DEF StopItself, Enter, At, Made, Out
  <2>2. Ends
    BY <2>1 DEF Ends, MAX_SCORE, TT!MAX_SCORE
  <2> QED BY <1>0, <1>2, <1>3, <1>8, <2>1, <2>2, Settled
<1> QED BY <1>4, <1>5, <1>6, <1>7, <1>8 DEF Step

\* What the calls in progress are about gives them their types.
LEMMA TypesFollow == ASSUME Typed PROVE TypeOK
<1>1. /\ stop \in BOOLEAN /\ ret.given \in BOOLEAN /\ IsSeq(board) /\ Len(board) \in Nat
      /\ IsSeq(stack) /\ Len(stack) \in Nat
  BY Sequences DEF Typed, OnBoard, Placed
<1>2. DOMAIN board = 1 .. Len(board) /\ DOMAIN stack = 1 .. Len(stack)
  BY <1>1, LenProperties DEF IsSeq
<1>3. \A i \in DOMAIN board : board[i] \in DOMAIN Game
  BY <1>2 DEF Typed, OnBoard
<1>4. ASSUME NEW i \in 1 .. Len(stack)
      PROVE  \E n \in DOMAIN Game : Seated(stack[i], n)
  <2> DEFINE k == Len(stack)
  <2>1. stack # <<>>
    <3>1. Len(stack) # 0
      BY <1>1, <1>4
    <3> QED BY <3>1, EmptySeq
  <2>2. PICK h : Waiting(stack, board, h, Len(board))
    BY <2>1 DEF Typed, Placed
  <2>3. /\ h \in [1 .. k -> Nat \ {0}] /\ Len(board) = h[k] + Made(stack[k])
        /\ \A a, b \in 1 .. k : a <= b => h[a] <= h[b]
        /\ Seated(stack[i], board[h[i]])
    BY <1>4, <2>1, <2>2 DEF Waiting, Seats
  <2>4. k \in 1 .. k /\ i <= k /\ Made(stack[k]) \in {0, 1}
    BY <1>1, <1>4 DEF Made
  <2> HIDE DEF k
  <2>5. h[i] \in Nat \ {0} /\ h[k] \in Nat /\ h[i] <= h[k]
    BY <1>4, <2>3, <2>4 DEF k
  <2>6. h[i] \in 1 .. Len(board)
    BY <1>1, <2>3, <2>4, <2>5
  <2> QED BY <1>2, <1>3, <2>3, <2>6
<1>5. ASSUME NEW f, NEW n \in DOMAIN Game, Seated(f, n)
      PROVE  /\ f.fn \in {"pv", "scout", "quiesce", "settle"}
             /\ f.depth \in 0 .. MAX_DEPTH - 1 /\ f.counter \in 0 .. MAX_MOVES - 1
             /\ f.fn \in {"pv", "scout"} => f.alpha < f.beta \/ f.left = {}
  <2>1. f.depth \in 0 .. MAX_DEPTH - 1
    BY <1>5 DEF Seated, Sound, Ready, MAX_DEPTH
  <2>2. f.counter \in 0 .. MAX_MOVES - 1
    <3>1. f.left \in SUBSET DOMAIN Game[n].moves /\ f.counter \in Nat /\ f.counter + Cardinality(f.left) < MAX_MOVES
      BY <1>5 DEF Seated
    <3>2. Cardinality(f.left) \in Nat
      BY <3>1, Few
    <3> QED BY <3>1, <3>2 DEF MAX_MOVES
  <2> QED BY <1>5, <2>1, <2>2 DEF Seated, Sound, Ready
<1>6. ASSUME NEW i \in DOMAIN stack
      PROVE  /\ stack[i].fn \in {"pv", "scout", "quiesce", "settle"}
             /\ stack[i].depth \in 0 .. MAX_DEPTH - 1 /\ stack[i].counter \in 0 .. MAX_MOVES - 1
             /\ stack[i].fn \in {"pv", "scout"} => stack[i].alpha < stack[i].beta \/ stack[i].left = {}
  <2>1. PICK n \in DOMAIN Game : Seated(stack[i], n)
    BY <1>2, <1>4
  <2> QED BY <1>5, <2>1
<1> QED BY <1>1, <1>3, <1>6 DEF TypeOK

\* A call that is asked for is about its root.
LEMMA AskTyped == ASSUME Typed, Ask PROVE Typed'
<1>1. PICK ask \in Asks :
        /\ stack' = <<Frame(ask.fn, ask.depth, ask.alpha, ask.beta, "PV", TRUE)>>
        /\ board' = <<ask.root>> /\ root_ply' = ask.ply
  BY DEF Ask
<1>2. ret' = None /\ stop' = FALSE /\ table' = table
  BY DEF Ask
<1> DEFINE f == Frame(ask.fn, ask.depth, ask.alpha, ask.beta, "PV", TRUE)
<1>3. Fresh(f)
  <2>1. /\ ask.fn = "pv" \/ (ask.fn = "settle" /\ ask.depth = 0)
        /\ ask.depth \in 0 .. MAX_DEPTH - 2
        /\ ask.alpha \in Int /\ ask.beta \in Int /\ ask.alpha < ask.beta
    BY AsksAssumption
  <2>2. ask.fn \in {"pv", "scout"} \/ (ask.fn \in {"quiesce", "settle"} /\ ask.depth = 0)
    BY <2>1
  <2> QED BY <2>1, <2>2, Begins
<1> HIDE DEF f
<1>4. ask.root \in DOMAIN Game /\ ask.ply \in Nat
  BY AsksAssumption
<1>5. IsSeq(<<>>) /\ Len(<<>>) = 0
  BY EmptySeq DEF IsSeq
<1>6. board' = Append(<<>>, ask.root) /\ stack' = Append(<<>>, f)
  <2>1. \A x : <<x>> = Append(<<>>, x)
    OBVIOUS
  <2> QED BY <1>1, <2>1 DEF f
<1>7. IsSeq(board') /\ Len(board') = 1 /\ board'[1] = ask.root
  <2>1. \A x : IsSeq(Append(<<>>, x)) /\ Len(Append(<<>>, x)) = Len(<<>>) + 1
               /\ Append(<<>>, x)[Len(<<>>) + 1] = x
    BY <1>5, Sequences
  <2>2. 0 + 1 = 1
    OBVIOUS
  <2> QED BY <1>5, <1>6, <2>1, <2>2
<1>8. OnBoard(board')
  BY <1>4, <1>7 DEF OnBoard
<1>9. Placed(stack', board')
  <2> DEFINE h == [i \in 1 .. 0 |-> 1]
  <2>1. h \in [1 .. 0 -> Nat \ {0}]
    OBVIOUS
  <2> HIDE DEF h
  <2>2. Waiting(<<>>, board', h, 1)
    BY <1>5, <2>1 DEF Waiting, Seats
  <2>3. Seated(f, board'[1]) /\ Made(f) = 0
    BY <1>3 DEF Fresh
  <2>4. PICK g : Waiting(Append(<<>>, f), board', g, 1 + Made(f))
    BY <2>2, <2>3, NextSeat
  <2>5. 1 + Made(f) = 1
    BY <2>3
  <2>6. Waiting(stack', board', g, Len(board'))
    BY <1>6, <1>7, <2>4, <2>5
  <2> QED BY <2>6 DEF Placed, Waiting
<1>10. ret'.given \in BOOLEAN /\ ret'.score \in Int /\ stop' \in BOOLEAN /\ root_ply' \in Nat
  <2>1. None.given = FALSE /\ None.score = 0
    BY DEF None
  <2>2. ret'.given = FALSE /\ ret'.score = 0
    BY <1>2, <2>1
  <2>3. stop' \in BOOLEAN
    BY <1>2
  <2>4. ret'.given \in BOOLEAN
    BY <2>2, Zenon
  <2>5. ret'.score \in Int
    BY <2>2
  <2>6. root_ply' \in Nat
    BY <1>1, <1>4
  <2> QED BY <2>3, <2>4, <2>5, <2>6, Zenon
<1>11. InTable(table')
  BY <1>2 DEF Typed, InTable
<1> QED BY <1>8, <1>9, <1>10, <1>11, Zenon DEF Typed

\* The types hold at first.
LEMMA TypedFirst == Init => Typed
<1> SUFFICES ASSUME Init PROVE Typed
  OBVIOUS
<1>1. IsSeq(<<>>) /\ Len(<<>>) = 0
  BY EmptySeq DEF IsSeq
<1>2. OnBoard(board) /\ Placed(stack, board)
  BY <1>1 DEF Init, OnBoard, Placed
<1>3. InTable(table)
  <2>1. TT!Empty.score \in Int
    BY DEF TT!Empty
  <2> HIDE DEF TT!Empty
  <2> QED BY <2>1 DEF Init, InTable
<1>4. stop \in BOOLEAN /\ ret.given \in BOOLEAN /\ ret.score \in Int /\ root_ply \in Nat
  <2>1. None.given = FALSE /\ None.score = 0
    BY DEF None
  <2>2. ret.given = FALSE /\ ret.score = 0
    BY <2>1 DEF Init
  <2>3. stop \in BOOLEAN
    BY DEF Init
  <2>4. ret.given \in BOOLEAN
    BY <2>2, Zenon
  <2>5. ret.score \in Int
    BY <2>2
  <2>6. root_ply \in Nat
    BY DEF Init
  <2> QED BY <2>3, <2>4, <2>5, <2>6, Zenon
<1> QED BY <1>2, <1>3, <1>4, Zenon DEF Typed

\* Asking, stepping and stopping keep them.
LEMMA TypedNext == Typed /\ [Next]_vars => Typed'
<1> SUFFICES ASSUME Typed, [Next]_vars PROVE Typed'
  OBVIOUS
<1>1. CASE Ask
  BY <1>1, AskTyped
<1>2. CASE Step
  BY <1>2, StepTyped
<1>3. CASE SetStop \/ UNCHANGED vars
  <2>1. /\ ret' = ret /\ root_ply' = root_ply /\ table' = table /\ board' = board /\ stack' = stack
        /\ stop' = stop \/ stop' = TRUE
    BY <1>3 DEF SetStop, vars
  <2>2. stop' \in BOOLEAN
    BY <2>1 DEF Typed
  <2> QED BY <2>1, <2>2, Zenon DEF Typed, InTable
<1> QED BY <1>1, <1>2, <1>3 DEF Next

\* Whatever is asked and whichever way it goes, no call searches to a depth outside the
\* tables indexed by it, counts more moves than a list can hold, or goes on with its
\* moves once its window is shut, and the board shows positions of the game.
THEOREM TypesAreKept == Spec => []TypeOK
<1>1. Typed => TypeOK
  BY TypesFollow
<1> QED BY <1>1, TypedFirst, TypedNext, PTL DEF Spec
-----------------------------------------------------------------------------
(***************************************************************************)
(* The lines that the calls give back.  A line is written from its end:    *)
(* its last element is the position that the first move leads to.          *)
(***************************************************************************)
Succ(n, m) == \E i \in DOMAIN Game[n].moves : Game[n].moves[i].to = m
Reached(n, line) == IF line = <<>> THEN n ELSE line[1]

\* The line can be played from n, and is of odd length if it ends with the other side to
\* move.
Leads(n, line) ==
    /\ n \in DOMAIN Game /\ IsSeq(line) /\ Reached(n, line) \in DOMAIN Game
    /\ line # <<>> => Succ(n, line[Len(line)])
    /\ \A k \in 1 .. Len(line) - 1 : Succ(line[k + 1], line[k])
    /\ Game[Reached(n, line)].side = Game[n].side <=> Len(line) % 2 = 0

\* What n is worth standing still at the height h of a search whose root has the ply rp, and
\* that score is what the line from it leads to.
Stands(rp, n, h) ==
    IF Game[n].check /\ Game[n].moves = <<>> THEN -ply_to_mate_score(rp + h)
    ELSE IF Game[n].draw THEN (IF h % 2 = 0 THEN -contempt ELSE contempt)
    ELSE Game[n].eval
Worthy(rp, n, h, line, score) ==
    score = IF Len(line) % 2 = 0 THEN Stands(rp, Reached(n, line), h + Len(line))
            ELSE -Stands(rp, Reached(n, line), h + Len(line))

\* What a call was made for, or asked for: fn, alpha and beta.
Waits(f) == [fn |-> f.fn, alpha |-> -f.beta, beta |-> -f.alpha]
ClaimOf(a, s, i) == IF i = 1 THEN a ELSE Waits(s[i - 1])
Fits(f, c) == c.fn = "settle" => f.fn = "settle" /\ f.alpha_start = c.alpha /\ f.beta = c.beta
Owed(rp, c, n, h, line, score) ==
    c.fn = "settle" /\ c.alpha < score /\ score < c.beta => Worthy(rp, n, h, line, score)

\* What the call f, about the j-th position of b, keeps: a line that can be played, the move
\* that is out, and for board_quiesce a line that brings alpha once alpha has been raised
\* within the window.
Brings(rp, f, n, h) ==
    IF f.at = "enter" THEN f.alpha = f.alpha_start /\ f.line = <<>>
    ELSE f.alpha_start < f.alpha /\ f.alpha < f.beta => Worthy(rp, n, h, f.line, f.alpha)
Trailed(rp, f, b, j) ==
    /\ Leads(b[j], f.line)
    /\ f.at \in {"hashed", "tried", "searched"} =>
          IF f.fn \in Tree
          THEN f.move \in DOMAIN Game[b[j]].moves /\ b[j + 1] = Game[b[j]].moves[f.move].to
          ELSE Succ(b[j], b[j + 1])
    /\ f.fn = "settle" => Brings(rp, f, b[j], j - 1)

\* It holds of every call of the stack s, the i-th of which is about the position h[i] of b
\* and was made for what the one before waits for; the next would be about the n-th.
Path(rp, a, s, b, h, n) ==
    /\ IsSeq(s) /\ h \in [1 .. Len(s) -> Nat \ {0}] /\ n \in Nat \ {0}
    /\ \A i, j \in 1 .. Len(s) : i <= j => h[i] <= h[j]
    /\ \A i \in 1 .. Len(s) - 1 : h[i + 1] = h[i] + Made(s[i])
    /\ s # <<>> => n = h[Len(s)] + Made(s[Len(s)])
    /\ \A i \in 1 .. Len(s) : Trailed(rp, s[i], b, h[i]) /\ Fits(s[i], ClaimOf(a, s, i))
Trodden(rp, a, s, b) == IsSeq(s) /\ (s # <<>> => \E h : Path(rp, a, s, b, h, Len(b)))

\* What has been returned leads on from the position the board shows, and is owed to the
\* call that waits for it.
Brought(rp, a, s, b, r) ==
    r.given => /\ Len(b) >= 1 /\ Leads(b[Len(b)], r.line)
               /\ Owed(rp, ClaimOf(a, s, Len(s) + 1), b[Len(b)], Len(b) - 1, r.line, r.score)
Rooted(b) == Len(b) >= 1 => Game[b[1]].side = "root"
Trail ==
    /\ Trodden(root_ply, asked, stack, board)
    /\ Brought(root_ply, asked, stack, board, ret)
    /\ Rooted(board)

LEMMA StandsInt == ASSUME NEW rp \in Nat, NEW n \in DOMAIN Game, NEW h \in Nat
                   PROVE  Stands(rp, n, h) \in Int
<1>1. -ply_to_mate_score(rp + h) \in Int
  BY DEF ply_to_mate_score, TT!MATING_SCORE, TT!MAX_SCORE
<1>2. Game[n].eval \in Int /\ contempt \in Int /\ -contempt \in Int
  BY PositionsAssumption, TablesAssumption
<1> QED BY <1>1, <1>2 DEF Stands

\* No line leads where one is.
LEMMA NoLine == ASSUME NEW n \in DOMAIN Game PROVE Leads(n, <<>>)
<1>1. IsSeq(<<>>) /\ Len(<<>>) = 0
  BY EmptySeq DEF IsSeq
<1> QED BY <1>1 DEF Leads, Reached

\* The line of a move, and then of what follows it.
LEMMA Lengthened ==
  ASSUME NEW n \in DOMAIN Game, NEW m, Succ(n, m), NEW line, Leads(m, line)
  PROVE  /\ Leads(n, Append(line, m))
         /\ \A rp \in Nat, h \in Nat \ {0} : \A score \in Int :
              Worthy(rp, m, h, line, score) => Worthy(rp, n, h - 1, Append(line, m), -score)
<1> DEFINE k == Len(line)
           t == Append(line, m)
<1>1. /\ k \in Nat /\ (line # <<>> => k > 0) /\ IsSeq(t) /\ Len(t) = k + 1
      /\ \A i \in 1 .. k : t[i] = line[i]
      /\ t[k + 1] = m
  BY Sequences DEF Leads
<1>2. /\ m \in DOMAIN Game /\ Reached(m, line) \in DOMAIN Game
      /\ line # <<>> => Succ(m, line[k])
      /\ \A i \in 1 .. k - 1 : Succ(line[i + 1], line[i])
      /\ Game[Reached(m, line)].side = Game[m].side <=> k % 2 = 0
  BY DEF Leads
<1>3. line = <<>> => k = 0
  BY EmptySeq
<1>4. t # <<>>
  BY <1>1, EmptySeq
<1> HIDE DEF k, t
<1>5. Reached(n, t) = Reached(m, line)
  <2>1. CASE line = <<>>
    BY <1>1, <1>3, <1>4, <2>1 DEF Reached
  <2>2. CASE line # <<>>
    <3>1. 1 \in 1 .. k
      BY <1>1, <2>2
    <3> QED BY <1>1, <1>4, <2>2, <3>1 DEF Reached
  <2> QED BY <2>1, <2>2
<1>6. ASSUME NEW i \in 1 .. k PROVE Succ(t[i + 1], t[i])
  <2>1. CASE i = k
    <3>1. line # <<>>
      BY <1>1, <1>3
    <3> QED BY <1>1, <1>2, <2>1, <3>1
  <2>2. CASE i # k
    <3>1. i \in 1 .. k - 1 /\ i + 1 \in 1 .. k
      BY <1>1, <2>2
    <3> QED BY <1>1, <1>2, <3>1
  <2> QED BY <2>1, <2>2
<1>7. k % 2 \in {0, 1} /\ (k + 1) % 2 = IF k % 2 = 0 THEN 1 ELSE 0
  BY <1>1
<1>8. Game[m].side # Game[n].side
  BY GameAssumption DEF Succ
<1>9. Game[Reached(m, line)].side = Game[n].side <=> (k + 1) % 2 = 0
  <2>1. \A x \in DOMAIN Game : Game[x].side \in {"root", "other"}
    BY PositionsAssumption
  <2> QED BY <1>2, <1>7, <1>8, <2>1
<1>10. Leads(n, t)
  <2>1. k + 1 - 1 = k
    BY <1>1
  <2> QED BY <1>1, <1>2, <1>4, <1>5, <1>6, <1>9, <2>1 DEF Leads
<1>11. ASSUME NEW rp \in Nat, NEW h \in Nat \ {0}, NEW score \in Int, Worthy(rp, m, h, line, score)
       PROVE  Worthy(rp, n, h - 1, t, -score)
  <2> DEFINE x == Stands(rp, Reached(m, line), h + k)
  <2>1. score = IF k % 2 = 0 THEN x ELSE -x
    BY <1>11 DEF Worthy, k
  <2>2. h - 1 + (k + 1) = h + k /\ h + k \in Nat
    BY <1>1
  <2>3. x \in Int
    BY <1>2, <2>2, StandsInt
  <2> HIDE DEF x
  <2>4. -score = IF (k + 1) % 2 = 0 THEN x ELSE -x
    BY <1>7, <2>1, <2>3
  <2> QED BY <1>1, <1>5, <2>2, <2>4 DEF Worthy, x
<1> QED BY <1>10, <1>11 DEF t

\* The claims of the calls below do not change with those above.
LEMMA Claims ==
  ASSUME NEW a, NEW s, NEW t, NEW k \in Nat, \A i \in 1 .. k : t[i] = s[i]
  PROVE  \A i \in 1 .. k + 1 : ClaimOf(a, t, i) = ClaimOf(a, s, i)
<1> SUFFICES ASSUME NEW i \in 1 .. k + 1, i # 1 PROVE t[i - 1] = s[i - 1]
  BY DEF ClaimOf
<1>1. i - 1 \in 1 .. k
  OBVIOUS
<1> QED BY <1>1

\* A call that is made goes on from the end of the path.
LEMMA PathOn ==
  ASSUME NEW rp, NEW a, NEW s, NEW b, NEW h, NEW c, Path(rp, a, s, b, h, c),
         NEW f, Trailed(rp, f, b, c), Fits(f, ClaimOf(a, s, Len(s) + 1))
  PROVE  \E g : Path(rp, a, Append(s, f), b, g, c + Made(f))
<1> DEFINE k == Len(s)
           t == Append(s, f)
           g == [i \in 1 .. k + 1 |-> IF i = k + 1 THEN c ELSE h[i]]
<1>0. /\ IsSeq(s) /\ h \in [1 .. k -> Nat \ {0}] /\ c \in Nat \ {0}
      /\ s # <<>> => c = h[k] + Made(s[k])
      /\ \A i, j \in 1 .. k : i <= j => h[i] <= h[j]
      /\ \A i \in 1 .. k - 1 : h[i + 1] = h[i] + Made(s[i])
      /\ \A i \in 1 .. k : Trailed(rp, s[i], b, h[i]) /\ Fits(s[i], ClaimOf(a, s, i))
  BY DEF Path
<1>1. /\ k \in Nat /\ (s # <<>> => k > 0) /\ IsSeq(t) /\ Len(t) = k + 1
      /\ \A i \in 1 .. k : t[i] = s[i]
      /\ t[k + 1] = f
  BY <1>0, Sequences
<1>2. (s = <<>>) => k = 0
  BY EmptySeq
<1>3. \A i \in 1 .. k + 1 : ClaimOf(a, t, i) = ClaimOf(a, s, i)
  <2> HIDE DEF k, t
  <2> QED BY <1>1, Claims
<1>4. Fits(f, ClaimOf(a, s, k + 1))
  OBVIOUS
<1> HIDE DEF k, t
<1>5. g \in [1 .. k + 1 -> Nat \ {0}] /\ g[k + 1] = c /\ \A i \in 1 .. k : g[i] = h[i]
  BY <1>0, <1>1
<1> HIDE DEF g
<1>6. k > 0 => c = h[k] + Made(s[k]) /\ Made(s[k]) \in {0, 1}
  BY <1>0, <1>2 DEF Made
<1>7. ASSUME NEW i \in 1 .. k + 1, NEW j \in 1 .. k + 1, i <= j PROVE g[i] <= g[j]
  <2>1. CASE j \in 1 .. k
    <3>1. i \in 1 .. k
      BY <1>1, <1>7, <2>1
    <3> QED BY <1>0, <1>5, <1>7, <2>1, <3>1
  <2>2. CASE j = k + 1 /\ i \in 1 .. k
    <3>1. h[i] <= h[k] /\ h[i] \in Nat /\ h[k] \in Nat
      <4>1. k \in 1 .. k /\ i <= k
        BY <1>1, <2>2
      <4> QED BY <1>0, <2>2, <4>1
    <3> QED BY <1>1, <1>5, <1>6, <2>2, <3>1
  <2>3. CASE i = k + 1 /\ j = k + 1
    BY <1>0, <1>5, <2>3
  <2> QED BY <1>1, <1>7, <2>1, <2>2, <2>3
<1>8. ASSUME NEW i \in 1 .. k PROVE g[i + 1] = g[i] + Made(t[i])
  <2>1. CASE i = k
    BY <1>1, <1>5, <1>6, <2>1
  <2>2. CASE i # k
    <3>1. i \in 1 .. k - 1 /\ i + 1 \in 1 .. k
      BY <1>1, <2>2
    <3> QED BY <1>0, <1>1, <1>5, <3>1
  <2> QED BY <2>1, <2>2
<1>9. ASSUME NEW i \in 1 .. k + 1
      PROVE  Trailed(rp, t[i], b, g[i]) /\ Fits(t[i], ClaimOf(a, t, i))
  <2>1. CASE i = k + 1
    BY <1>1, <1>3, <1>4, <1>5, <2>1
  <2>2. CASE i # k + 1
    <3>1. i \in 1 .. k
      BY <1>1, <2>2
    <3> QED BY <1>0, <1>1, <1>3, <1>5, <3>1
  <2> QED BY <2>1, <2>2
<1>10. Made(f) \in {0, 1} /\ c + Made(f) \in Nat \ {0}
  BY <1>0 DEF Made
<1>11. Path(rp, a, t, b, g, c + Made(f))
  <2>1. Len(t) = k + 1 /\ Len(t) - 1 = k
    BY <1>1
  <2> QED BY <1>1, <1>5, <1>7, <1>8, <1>9, <1>10, <2>1 DEF Path
<1> QED BY <1>11 DEF t

\* The path of the calls below the last one, on a board that is the same up to where the
\* last one is.
LEMMA PathBack ==
  ASSUME NEW rp, NEW a, NEW s, NEW b, NEW h, NEW n, Path(rp, a, s, b, h, n), s # <<>>,
         NEW b2, \A i \in 1 .. n - Made(Last(s)) : b2[i] = b[i]
  PROVE  /\ n - Made(Last(s)) \in Nat \ {0} /\ Trailed(rp, Last(s), b, n - Made(Last(s)))
         /\ Fits(Last(s), ClaimOf(a, Front(s), Len(Front(s)) + 1))
         /\ \E g : Path(rp, a, Front(s), b2, g, n - Made(Last(s)))
<1> DEFINE k == Len(s)
           t == Front(s)
           m == n - Made(Last(s))
<1>0. /\ IsSeq(s) /\ h \in [1 .. k -> Nat \ {0}] /\ n \in Nat \ {0}
      /\ n = h[k] + Made(s[k])
      /\ \A i, j \in 1 .. k : i <= j => h[i] <= h[j]
      /\ \A i \in 1 .. k - 1 : h[i + 1] = h[i] + Made(s[i])
      /\ \A i \in 1 .. k : Trailed(rp, s[i], b, h[i]) /\ Fits(s[i], ClaimOf(a, s, i))
  BY DEF Path
<1>1. /\ k \in Nat \ {0} /\ IsSeq(t) /\ Len(t) = k - 1
      /\ \A i \in 1 .. k - 1 : t[i] = s[i]
      /\ Last(s) = s[k]
  BY <1>0, Sequences
<1>2. \A i \in 1 .. k : ClaimOf(a, t, i) = ClaimOf(a, s, i)
  <2>1. k - 1 \in Nat /\ k - 1 + 1 = k
    BY <1>1
  <2>2. \A i \in 1 .. k - 1 + 1 : ClaimOf(a, t, i) = ClaimOf(a, s, i)
    <3> HIDE DEF k, t
    <3> QED BY <1>1, <2>1, Claims
  <2> QED BY <2>1, <2>2
<1>3. \A i \in 1 .. m : b2[i] = b[i]
  OBVIOUS
<1> HIDE DEF k, t
<1>4. m = h[k] /\ m \in Nat \ {0} /\ k \in 1 .. k /\ Len(t) + 1 = k
  <2>1. Made(s[k]) \in {0, 1} /\ h[k] \in Nat \ {0}
    BY <1>0, <1>1 DEF Made
  <2> QED BY <1>0, <1>1, <2>1
<1> HIDE DEF m
<1> DEFINE g == [i \in 1 .. k - 1 |-> h[i]]
<1>5. g \in [1 .. Len(t) -> Nat \ {0}] /\ \A i \in 1 .. k - 1 : g[i] = h[i] /\ i \in 1 .. k
  BY <1>0, <1>1
<1> HIDE DEF g
<1>6. t # <<>> => m = g[Len(t)] + Made(t[Len(t)])
  <2> HAVE t # <<>>
  <2>1. Len(t) > 0
    BY <1>1, Sequences
  <2>2. k - 1 \in 1 .. k - 1 /\ k - 1 + 1 = k
    BY <1>1, <2>1
  <2>3. h[k - 1 + 1] = h[k - 1] + Made(s[k - 1])
    BY <1>0, <2>2
  <2> QED BY <1>1, <1>4, <1>5, <2>2, <2>3
<1>7. ASSUME NEW i \in 1 .. k - 1
      PROVE  Trailed(rp, t[i], b2, g[i]) /\ Fits(t[i], ClaimOf(a, t, i))
  <2>1. i \in 1 .. k /\ i + 1 \in 1 .. k /\ i <= k /\ i + 1 <= k
    BY <1>1
  <2>2. h[i] \in 1 .. m /\ h[i + 1] = h[i] + Made(s[i]) /\ h[i + 1] \in 1 .. m
    BY <1>0, <1>4, <2>1
  <2>3. b2[h[i]] = b[h[i]]
    BY <1>3, <2>2
  <2>4. s[i].at \in {"hashed", "tried", "searched"} => b2[h[i] + 1] = b[h[i] + 1]
    BY <1>3, <2>2 DEF Made, Out
  <2>5. Trailed(rp, s[i], b, h[i])
    BY <1>0, <2>1
  <2>6. Trailed(rp, s[i], b2, h[i])
    BY <2>3, <2>4, <2>5 DEF Trailed
  <2> QED BY <1>0, <1>1, <1>2, <1>5, <2>1, <2>6
<1>8. \A i, j \in 1 .. k - 1 : i <= j => g[i] <= g[j]
  BY <1>0, <1>5
<1>9. ASSUME NEW i \in 1 .. k - 1 - 1 PROVE g[i + 1] = g[i] + Made(t[i])
  <2>1. i \in 1 .. k - 1 /\ i + 1 \in 1 .. k - 1
    BY <1>1
  <2> QED BY <1>0, <1>1, <1>5, <2>1
<1>10. Path(rp, a, t, b2, g, m)
  BY <1>1, <1>4, <1>5, <1>6, <1>7, <1>8, <1>9 DEF Path
<1>11. Trailed(rp, Last(s), b, m) /\ Fits(Last(s), ClaimOf(a, t, k))
  BY <1>0, <1>1, <1>2, <1>4
<1> QED BY <1>4, <1>10, <1>11 DEF m, t

-----------------------------------------------------------------------------
\* What a call that was made for what f was made for, or f itself, owes; and a call that
\* takes the place of e.
Claim(f) == [fn |-> f.fn, alpha |-> f.alpha_start, beta |-> f.beta]
Takes(f, e) == e.fn = "settle" => f.fn = "settle" /\ f.alpha_start = e.alpha_start /\ f.beta = e.beta

\* What a step of the call on top does: it gives back a line, goes on along its own, or calls
\* another.
Seat == Len(board) - Made(Top)
Gives(score, line) ==
    Leads(Home, line) /\ Owed(root_ply, Claim(Top), Home, Seat - 1, line, score)
Keeps(f) == Takes(f, Top) /\ Trailed(root_ply, f, board', Seat) /\ Len(board') = Seat + Made(f)
Opens(g, f) ==
    /\ g.at = "enter" /\ g.line = <<>> /\ g.alpha = g.alpha_start
    /\ Fits(g, Waits(f))
Treads ==
    \/ \E score, line : Return(score, line) /\ Gives(score, line) /\ Len(board') = Seat
    \/ \E f : Go(f) /\ Keeps(f)
    \/ \E f, g : Call(f, g) /\ Keeps(f) /\ Opens(g, f)

\* Such a step leaves every call on its path.
LEMMA TrailOn ==
  ASSUME Typed, Trail, stack # <<>>, OnBoard(board'), \A i \in 1 .. Seat : board'[i] = board[i],
         root_ply' = root_ply, asked' = asked, Treads
  PROVE  Trail'
<1> DEFINE s == Front(stack)
           c == ClaimOf(asked, s, Len(s) + 1)
<1>1. /\ IsSeq(board) /\ Len(board) \in Nat /\ IsSeq(stack) /\ IsSeq(s)
      /\ IsSeq(board') /\ Len(board') \in Nat
  BY Sequences DEF Typed, OnBoard, Placed
<1>2. PICK h : Path(root_ply, asked, stack, board, h, Len(board))
  BY DEF Trail, Trodden
<1>3. /\ Seat \in Nat \ {0} /\ Fits(Top, c)
      /\ \E g : Path(root_ply, asked, s, board', g, Seat)
  <2>1. \A i \in 1 .. Len(board) - Made(Last(stack)) : board'[i] = board[i]
    BY DEF Seat, Top
  <2> QED BY <1>2, <2>1, PathBack DEF Seat, Top
<1>4. PICK g0 : Path(root_ply, asked, s, board', g0, Seat)
  BY <1>3
<1>5. Home = board[Seat] /\ board'[Seat] = Home
  BY <1>3 DEF Home, Seat
<1>6. Rooted(board')
  <2>1. 1 \in 1 .. Seat /\ Len(board) >= 1
    <3>1. Len(board) >= Seat
      <4>1. Made(Top) \in {0, 1}
        BY DEF Made
      <4> QED BY <1>1, <4>1 DEF Seat
    <3> QED BY <1>1, <1>3, <3>1
  <2> QED BY <2>1 DEF Trail, Rooted
<1> HIDE DEF c, s
<1>7. ASSUME NEW score, NEW line, Return(score, line), Gives(score, line), Len(board') = Seat
      PROVE  Trail'
  <2>1. stack' = s /\ ret' = [score |-> score, line |-> line, given |-> TRUE]
    BY <1>7 DEF Return, s
  <2>2. Trodden(root_ply, asked, s, board')
    BY <1>1, <1>4, <1>7 DEF Trodden
  <2>3. Owed(root_ply, c, Home, Seat - 1, line, score)
    BY <1>3, <1>7 DEF Gives, Owed, Fits, Claim
  <2>4. Brought(root_ply, asked, s, board', ret')
    BY <1>3, <1>5, <1>7, <2>1, <2>3 DEF Brought, Gives, c
  <2> QED BY <1>6, <2>1, <2>2, <2>4 DEF Trail
\* The path of a call that goes on.
<1>8. ASSUME NEW f, Keeps(f)
      PROVE  \E g : Path(root_ply, asked, Append(s, f), board', g, Len(board'))
  <2>1. Fits(f, c)
    BY <1>3, <1>8 DEF Keeps, Takes, Fits
  <2> QED BY <1>4, <1>8, <2>1, PathOn DEF Keeps, c
<1>9. ASSUME ret' = None, Trodden(root_ply, asked, stack', board') PROVE Trail'
  <2>1. ~ret'.given
    BY <1>9 DEF None
  <2> QED BY <1>6, <1>9, <2>1 DEF Trail, Brought
<1>10. ASSUME NEW f, Go(f), Keeps(f) PROVE Trail'
  <2>1. stack' = Append(s, f) /\ ret' = None
    BY <1>10 DEF Go, s
  <2>2. Trodden(root_ply, asked, stack', board')
    <3>1. IsSeq(Append(s, f))
      BY <1>1, Sequences
    <3> QED BY <1>8, <1>10, <2>1, <3>1 DEF Trodden
  <2> QED BY <1>9, <2>1, <2>2
<1>11. ASSUME NEW f, NEW g, Call(f, g), Keeps(f), Opens(g, f) PROVE Trail'
  <2> DEFINE t == Append(s, f)
  <2>1. stack' = Append(t, g) /\ ret' = None
    <3>1. s \in Seq(Elements(s) \cup {f, g})
      BY <1>1, SeqMonotonic DEF IsSeq
    <3>2. s \o <<f, g>> = Append(Append(s, f), g)
      BY <3>1
    <3> QED BY <1>11, <3>2 DEF Call, s
  <2>2. IsSeq(t) /\ IsSeq(Append(t, g)) /\ Len(t) = Len(s) + 1 /\ t[Len(s) + 1] = f
    <3>1. IsSeq(t) /\ Len(t) = Len(s) + 1 /\ t[Len(s) + 1] = f
      BY <1>1, Sequences
    <3> HIDE DEF t
    <3> QED BY <3>1, Sequences
  <2>3. Len(s) \in Nat
    BY <1>1, Sequences
  <2>4. PICK g1 : Path(root_ply, asked, t, board', g1, Len(board'))
    BY <1>8, <1>11
  <2> HIDE DEF t
  <2>5. Fits(g, ClaimOf(asked, t, Len(t) + 1))
    <3>1. Len(t) + 1 # 1 /\ Len(t) + 1 - 1 = Len(s) + 1
      BY <2>2, <2>3
    <3>2. ClaimOf(asked, t, Len(t) + 1) = Waits(f)
      BY <2>2, <3>1 DEF ClaimOf
    <3> QED BY <1>11, <3>2 DEF Opens
  <2>6. Made(g) = 0 /\ Len(board') + Made(g) = Len(board')
    <3>1. Made(g) = 0
      BY <1>11 DEF Opens, Made, Out
    <3> QED BY <1>1, <3>1
  <2>7. Trailed(root_ply, g, board', Len(board'))
    <3>1. board'[Len(board')] \in DOMAIN Game
      <4>1. Len(board') \in 1 .. Len(board')
        <5>1. Len(board') \in Nat \ {0}
          BY <2>4 DEF Path
        <5> QED BY <5>1
      <4> QED BY <4>1 DEF OnBoard
    <3>2. Leads(board'[Len(board')], g.line)
      BY <1>11, <3>1, NoLine DEF Opens
    <3> QED BY <1>11, <3>2 DEF Trailed, Opens, Brings
  <2>8. PICK g2 : Path(root_ply, asked, Append(t, g), board', g2, Len(board'))
    BY <2>4, <2>5, <2>6, <2>7, PathOn
  <2>9. Trodden(root_ply, asked, stack', board')
    BY <2>1, <2>2, <2>8 DEF Trodden
  <2> QED BY <1>9, <2>1, <2>9
<1> QED BY <1>7, <1>10, <1>11 DEF Treads

\* The boards a step may leave.
LEMMA Shapes ==
  ASSUME Typed, stack # <<>>
  PROVE  /\ Seat \in 1 .. Len(board) /\ Len(board) \in Nat /\ Len(board) = Seat + Made(Top)
         /\ Home = board[Seat] /\ Last(board) = board[Len(board)] /\ Seat + 0 = Seat
         /\ board' = board =>
              (\A i \in 1 .. Seat : board'[i] = board[i]) /\ Len(board') = Seat + Made(Top)
         /\ \A n : board' = Append(board, n) /\ Made(Top) = 0 =>
              /\ \A i \in 1 .. Seat : board'[i] = board[i]
              /\ Len(board') = Seat + 1 /\ board'[Seat + 1] = n
         /\ board' = Front(board) /\ Made(Top) = 1 =>
              (\A i \in 1 .. Seat : board'[i] = board[i]) /\ Len(board') = Seat
<1>1. /\ IsSeq(board) /\ Len(board) \in Nat /\ Made(Top) \in {0, 1} /\ board # <<>>
      /\ Last(board) = board[Len(board)]
  BY OnTop, Sequences DEF Typed, OnBoard
<1>2. Seat \in 1 .. Len(board)
  BY Placing DEF Seat
<1>3. Len(board) = Seat + Made(Top) /\ Home = board[Seat] /\ Seat + 0 = Seat
  BY <1>1 DEF Seat, Home
<1>4. ASSUME NEW n, board' = Append(board, n), Made(Top) = 0
      PROVE  /\ \A i \in 1 .. Seat : board'[i] = board[i]
             /\ Len(board') = Seat + 1 /\ board'[Seat + 1] = n
  <2>1. /\ Len(board') = Len(board) + 1 /\ board'[Len(board) + 1] = n
        /\ \A i \in 1 .. Len(board) : board'[i] = board[i]
    BY <1>1, <1>4, Sequences
  <2>2. Seat = Len(board)
    BY <1>1, <1>2, <1>3, <1>4
  <2> QED BY <2>1, <2>2
<1>5. ASSUME board' = Front(board), Made(Top) = 1
      PROVE  (\A i \in 1 .. Seat : board'[i] = board[i]) /\ Len(board') = Seat
  <2>1. /\ Len(board') = Len(board) - 1
        /\ \A i \in 1 .. Len(board) - 1 : board'[i] = board[i]
    BY <1>1, <1>5, Sequences
  <2>2. Seat = Len(board) - 1
    BY <1>1, <1>2, <1>3, <1>5
  <2> QED BY <2>1, <2>2
<1> QED BY <1>1, <1>2, <1>3, <1>4, <1>5

\* The call on top and what was brought to it.
LEMMA OnTrail ==
  ASSUME Typed, Trail, stack # <<>>
  PROVE  /\ Leads(Home, Top.line) /\ Trailed(root_ply, Top, board, Seat)
         /\ Top.at \in {"hashed", "tried", "searched"} => Made(Top) = 1 /\ Succ(Home, Last(board))
         /\ Top.at \in {"hashed", "tried", "searched"} /\ Top.fn \in Tree =>
              /\ Top.move \in DOMAIN Game[Home].moves
              /\ Last(board) = Game[Home].moves[Top.move].to /\ Last(board) = made.to
         /\ ret.given => /\ Leads(Last(board), ret.line)
                         /\ Owed(root_ply, Waits(Top), Last(board), Len(board) - 1, ret.line, ret.score)
<1>1. /\ Seat \in 1 .. Len(board) /\ Len(board) \in Nat /\ Len(board) = Seat + Made(Top)
      /\ Home = board[Seat] /\ Last(board) = board[Len(board)]
  BY Shapes
<1>2. IsSeq(stack) /\ Len(stack) \in Nat /\ Len(stack) > 0 /\ Top = stack[Len(stack)]
  BY Sequences DEF Typed, Placed, Top
<1>3. PICK h : Path(root_ply, asked, stack, board, h, Len(board))
  BY DEF Trail, Trodden
<1>4. Trailed(root_ply, Top, board, Seat)
  BY <1>3, PathBack DEF Seat, Top
<1>5. Leads(Home, Top.line)
  BY <1>1, <1>4 DEF Trailed
<1>6. ASSUME Top.at \in {"hashed", "tried", "searched"}
      PROVE  /\ Made(Top) = 1 /\ Succ(Home, Last(board))
             /\ Top.fn \in Tree =>
                  /\ Top.move \in DOMAIN Game[Home].moves
                  /\ Last(board) = Game[Home].moves[Top.move].to /\ Last(board) = made.to
  <2>1. Made(Top) = 1
    BY <1>6 DEF Made, Out
  <2>2. Last(board) = board[Seat + 1]
    BY <1>1, <2>1
  <2>3. Home = parent
    BY <2>1, OnTop
  <2>4. CASE Top.fn \in Tree
    <3>1. Top.move \in DOMAIN Game[Home].moves /\ Last(board) = Game[Home].moves[Top.move].to
      BY <1>1, <1>4, <1>6, <2>2, <2>4 DEF Trailed
    <3> QED BY <2>1, <2>3, <3>1 DEF made, Succ
  <2>5. CASE Top.fn \notin Tree
    BY <1>1, <1>4, <1>6, <2>1, <2>2, <2>5 DEF Trailed
  <2> QED BY <2>4, <2>5
<1>7. ASSUME ret.given
      PROVE  /\ Leads(Last(board), ret.line)
             /\ Owed(root_ply, Waits(Top), Last(board), Len(board) - 1, ret.line, ret.score)
  <2>1. Len(stack) + 1 # 1 /\ Len(stack) + 1 - 1 = Len(stack)
    BY <1>2
  <2>2. ClaimOf(asked, stack, Len(stack) + 1) = Waits(Top)
    BY <1>2, <2>1 DEF ClaimOf
  <2> QED BY <1>1, <1>7, <2>2 DEF Trail, Brought
<1> QED BY <1>4, <1>5, <1>6, <1>7

\* A call that begins, and what setting a node to work or counting a move leaves of it.
LEMMA Beginning ==
  ASSUME NEW fn, NEW d, NEW a, NEW b, NEW t, NEW z
  PROVE  LET g == Frame(fn, d, a, b, t, z)
         IN /\ g.at = "enter" /\ g.line = <<>> /\ g.alpha = g.alpha_start /\ Made(g) = 0
            /\ g.fn = fn /\ g.alpha_start = a /\ g.beta = b
BY DEF Frame, Made, Out

Alike(g, f) == Fields \subseteq DOMAIN g /\ g.fn = f.fn /\ g.line = f.line

LEMMA WorkAlike ==
  ASSUME NEW f, Fields \subseteq DOMAIN f
  PROVE  Alike(Working(f), f) /\ Alike(Counted(f), f)
<1>1. \A answer, low : Alike(Bounded(f, answer, low), f)
  BY DEF Bounded, Fields, Alike
<1>2. \A answer : Alike(Answered(f, answer), f)
  BY <1>1 DEF Answered
<1>3. ASSUME NEW g, Alike(g, f), NEW place
      PROVE  Alike(Untaken(g, place), f)
  BY <1>3 DEF Untaken, Fields, Alike
<1>4. Alike(Working(f), f)
  BY <1>2, <1>3 DEF Working
<1>5. Alike(Counted(f), f)
  BY DEF Counted, Fields, Alike
<1> QED BY <1>4, <1>5

\* A node of the tree owes nothing to a call of board_quiesce: it may go on in any way that
\* keeps a line and the move that is out.
LEMMA TreeKeeps ==
  ASSUME Typed, stack # <<>>, Top.fn \in Tree
  PROVE  /\ \A score, line : Leads(Home, line) => Gives(score, line)
         /\ \A f : /\ f.fn \in Tree \/ (f.fn = "quiesce" /\ f.at = "enter")
                   /\ Leads(Home, f.line) /\ board'[Seat] = Home
                   /\ Len(board') = Seat + Made(f)
                   /\ f.at \in {"hashed", "tried", "searched"} =>
                        /\ f.move \in DOMAIN Game[Home].moves
                        /\ board'[Seat + 1] = Game[Home].moves[f.move].to
                   => Keeps(f)
         /\ \A f : f.fn \in Tree =>
              \A fn, d, a, b, t, z : Opens(Frame(fn, d, a, b, t, z), f)
<1>1. Top.fn # "settle"
  BY DEF Tree
<1>2. \A score, line : Leads(Home, line) => Gives(score, line)
  BY <1>1 DEF Gives, Owed, Claim
<1>3. ASSUME NEW f, f.fn \in Tree \/ (f.fn = "quiesce" /\ f.at = "enter"),
             Leads(Home, f.line), board'[Seat] = Home, Len(board') = Seat + Made(f),
             f.at \in {"hashed", "tried", "searched"} =>
                        /\ f.move \in DOMAIN Game[Home].moves
                        /\ board'[Seat + 1] = Game[Home].moves[f.move].to
      PROVE  Keeps(f)
  <2>1. Trailed(root_ply, f, board', Seat)
    BY <1>3 DEF Trailed, Tree
  <2> QED BY <1>1, <1>3, <2>1 DEF Keeps, Takes
<1>4. ASSUME NEW f, f.fn \in Tree, NEW fn, NEW d, NEW a, NEW b, NEW t, NEW z
      PROVE  Opens(Frame(fn, d, a, b, t, z), f)
  <2>1. Fits(Frame(fn, d, a, b, t, z), Waits(f))
    BY <1>4 DEF Fits, Waits, Tree
  <2> QED BY <2>1, Beginning DEF Opens
<1> QED BY <1>2, <1>3, <1>4

\* The steps of a node of the tree that leave the board alone.
LEMMA TreeLooks ==
  ASSUME Typed, Trail, stack # <<>>, Top.fn \in Tree, board' = board,
         \/ EndAtRoot \/ EndEarly \/ EndInQuiesce \/ EndInTable \/ Work \/ NoNullMove
         \/ Probcut \/ AfterProbcut \/ NoHashMove \/ PruneMove \/ TryAgain
         \/ EndInTablebase \/ Done \/ StopItself
  PROVE  Treads
<1>1. /\ Home \in DOMAIN Game /\ Fields \subseteq DOMAIN Top
      /\ Made(Top) = 0 => Home = Last(board) /\ here = Game[Home]
  BY OnTop
<1>2. /\ Leads(Home, Top.line) /\ Leads(Home, <<>>)
      /\ Top.at \in {"hashed", "tried", "searched"} =>
                        /\ Made(Top) = 1 /\ Top.move \in DOMAIN Game[Home].moves
                        /\ Last(board) = Game[Home].moves[Top.move].to
  BY <1>1, OnTrail, NoLine
<1>3. /\ Home = board[Seat] /\ Len(board') = Seat + Made(Top) /\ Seat + 0 = Seat
      /\ Len(board) = Seat + Made(Top) /\ Last(board) = board[Len(board)]
  BY Shapes
<1>4. ASSUME NEW score, NEW line, Return(score, line), Made(Top) = 0, Leads(Home, line)
      PROVE  Treads
  BY <1>3, <1>4, TreeKeeps DEF Treads
<1>5. ASSUME NEW f, f.fn \in Tree \/ (f.fn = "quiesce" /\ f.at = "enter"), Leads(Home, f.line),
             Made(f) = 0, Made(Top) = 0
      PROVE  Keeps(f)
  <2>1. f.at \notin {"hashed", "tried", "searched"}
    BY <1>5 DEF Made, Out
  <2> QED BY <1>3, <1>5, <2>1, TreeKeeps
<1>6. ASSUME NEW f, Go(f), f.fn \in Tree \/ (f.fn = "quiesce" /\ f.at = "enter"),
             Leads(Home, f.line), Made(f) = 0, Made(Top) = 0
      PROVE  Treads
  BY <1>5, <1>6 DEF Treads
\* The call on top at another place.
<1>7. \A p : /\ [Top EXCEPT !.at = p].fn \in Tree /\ [Top EXCEPT !.at = p].at = p
             /\ [Top EXCEPT !.at = p].line = Top.line /\ [Top EXCEPT !.at = p].move = Top.move
             /\ p \in {"probcut", "probed", "hash", "loop"} => Made([Top EXCEPT !.at = p]) = 0
             /\ p = "searched" => Made([Top EXCEPT !.at = p]) = 1
  <2> DEFINE e == Top
  <2>1. Fields \subseteq DOMAIN e /\ e.fn \in Tree
    BY <1>1
  <2> HIDE DEF e
  <2>2. ASSUME NEW p
        PROVE  /\ [e EXCEPT !.at = p].fn \in Tree /\ [e EXCEPT !.at = p].at = p
               /\ [e EXCEPT !.at = p].line = e.line /\ [e EXCEPT !.at = p].move = e.move
    BY <2>1 DEF Fields
  <2>3. \A p, f : f.at = p => /\ p \in {"probcut", "probed", "hash", "loop"} => Made(f) = 0
                              /\ p = "searched" => Made(f) = 1
    BY DEF Made, Out
  <2> QED BY <2>2, <2>3 DEF e
<1>8. \A place : Enter(place) => Made(Top) = 0
  BY DEF Enter, At, Made, Out
<1>9. \A place \in {"null", "probcut", "hash", "loop"} : At(place) => Made(Top) = 0 /\ Top.at = place
  BY DEF At, Made, Out
<1>10. CASE EndAtRoot
  <2>1. PICK i \in root_moves : Return(root_score, <<here.moves[i].to>>)
    BY <1>10 DEF EndAtRoot
  <2>2. Made(Top) = 0
    BY <1>8, <1>10 DEF EndAtRoot
  <2> DEFINE n == here.moves[i].to
  <2>3. Succ(Home, n) /\ n \in DOMAIN Game
    BY <1>1, <2>1, <2>2, PositionsAssumption DEF root_moves, Succ
  <2>4. Leads(Home, Append(<<>>, n))
    <3>1. Leads(n, <<>>)
      BY <2>3, NoLine
    <3> HIDE DEF n
    <3> QED BY <1>1, <2>3, <3>1, Lengthened
  <2>5. <<n>> = Append(<<>>, n)
    <3> HIDE DEF n
    <3> QED OBVIOUS
  <2> QED BY <1>4, <2>1, <2>2, <2>4, <2>5
<1>11. CASE EndEarly \/ EndInTable \/ EndInTablebase \/ StopItself
  <2>1. Made(Top) = 0
    BY <1>8, <1>11 DEF EndEarly, EndInTable, EndInTablebase, StopItself
  <2>2. \E score : Return(score, <<>>)
    BY <1>11 DEF EndEarly, EndInTable, EndInTablebase, StopItself
  <2> QED BY <1>2, <1>4, <2>1, <2>2
<1>12. CASE EndInQuiesce
  <2> DEFINE f == Frame("quiesce", 0, Top.alpha, Top.beta, "NONE", FALSE)
  <2>1. Made(Top) = 0 /\ Go(f)
    BY <1>8, <1>12 DEF EndInQuiesce
  <2>2. f.fn = "quiesce" /\ f.at = "enter" /\ f.line = <<>> /\ Made(f) = 0
    BY DEF Frame, Made, Out
  <2> HIDE DEF f
  <2>3. Leads(Home, f.line)
    BY <1>2, <2>2
  <2> QED BY <1>6, <2>1, <2>2, <2>3
<1>13. CASE Work
  <2> DEFINE w == Working(Top)
  <2>1. Made(Top) = 0 /\ Start(w)
    BY <1>8, <1>13 DEF Work
  <2>2. Fields \subseteq DOMAIN w /\ w.fn = Top.fn /\ w.line = Top.line
    BY <1>1, WorkAlike DEF Alike
  <2> HIDE DEF w
  <2>3. CASE Futile(w)
    BY <1>2, <1>4, <2>1, <2>3 DEF Start
  <2>4. CASE ~Futile(w)
    <3>1. PICK p \in {"hash", "null"} : Go([w EXCEPT !.at = p])
      BY <2>1, <2>4 DEF Start
    <3> DEFINE f == [w EXCEPT !.at = p]
    <3>2. Go(f) /\ f.fn = w.fn /\ f.line = w.line /\ f.at = p
      BY <2>2, <3>1 DEF Fields
    <3> HIDE DEF f
    <3>3. Made(f) = 0 /\ f.fn \in Tree /\ Leads(Home, f.line)
      BY <1>2, <2>2, <3>2 DEF Made, Out
    <3> QED BY <1>6, <2>1, <3>2, <3>3
  <2> QED BY <2>3, <2>4
<1>14. CASE NoNullMove \/ NoHashMove \/ AfterProbcut
  <2>1. /\ Made(Top) = 0
        /\ \/ Go([Top EXCEPT !.at = "probcut"]) \/ Go([Top EXCEPT !.at = "loop"]) \/ Go([Top EXCEPT !.at = "hash"])
           \/ Return(ret.score, <<>>)
    BY <1>9, <1>14 DEF NoNullMove, NoHashMove, AfterProbcut, Back, Made, Out
  <2>2. CASE Return(ret.score, <<>>)
    BY <1>2, <1>4, <2>1, <2>2
  <2>3. ASSUME NEW p \in {"probcut", "hash", "loop"}, Go([Top EXCEPT !.at = p]) PROVE Treads
    <3> DEFINE f == [Top EXCEPT !.at = p]
    <3>1. f.fn \in Tree /\ Leads(Home, f.line) /\ Made(f) = 0 /\ Go(f)
      BY <1>2, <1>7, <2>3
    <3> HIDE DEF f
    <3> QED BY <1>6, <2>1, <3>1
  <2> QED BY <2>1, <2>2, <2>3
<1>15. CASE Probcut
  <2> DEFINE threshold == Top.beta + probcut_margin
             d == Top.depth - probcut_depth_reduction
             g == Frame("scout", d, threshold - 1, threshold, Top.type, Top.allow_null)
  <2>1. /\ Made(Top) = 0
        /\ Call([Top EXCEPT !.at = "probed"], g) \/ Go([Top EXCEPT !.at = "hash"])
    BY <1>9, <1>15 DEF Probcut
  <2>2. CASE Go([Top EXCEPT !.at = "hash"])
    <3> DEFINE f == [Top EXCEPT !.at = "hash"]
    <3>1. f.fn \in Tree /\ Leads(Home, f.line) /\ Made(f) = 0 /\ Go(f)
      BY <1>2, <1>7, <2>2
    <3> HIDE DEF f
    <3> QED BY <1>6, <2>1, <3>1
  <2>3. CASE Call([Top EXCEPT !.at = "probed"], g)
    <3> DEFINE f == [Top EXCEPT !.at = "probed"]
    <3>1. f.fn \in Tree /\ Leads(Home, f.line) /\ Made(f) = 0 /\ Call(f, g)
      BY <1>2, <1>7, <2>3
    <3> HIDE DEF f, threshold, d
    <3>2. Keeps(f) /\ Opens(g, f)
      BY <1>5, <2>1, <3>1, TreeKeeps
    <3> HIDE DEF g
    <3> QED BY <3>1, <3>2 DEF Treads
  <2> QED BY <2>1, <2>2, <2>3
<1>16. CASE PruneMove
  <2> DEFINE f == Counted(Top)
  <2>1. Made(Top) = 0 /\ Go(f) /\ Top.at = "loop"
    BY <1>9, <1>16 DEF PruneMove
  <2>2. f.fn \in Tree /\ Leads(Home, f.line)
    BY <1>1, <1>2, WorkAlike DEF Alike
  <2>3. f.at = "loop"
    BY <1>1, <2>1, Frames DEF Fields, IsFrame, Unmoved
  <2> HIDE DEF f
  <2>4. Made(f) = 0
    BY <2>3 DEF Made, Out
  <2> QED BY <1>6, <2>1, <2>2, <2>4
<1>17. CASE TryAgain
  <2> DEFINE f == [Top EXCEPT !.at = "searched"]
  <2>1. Top.at = "tried" /\ Made(Top) = 1 /\ Call(f, FullChild(Top))
    BY <1>17 DEF TryAgain, Back, Made, Out
  <2>2. /\ f.fn \in Tree /\ Leads(Home, f.line) /\ Made(f) = 1 /\ f.move = Top.move
    BY <1>2, <1>7
  <2>3. Opens(FullChild(Top), f)
    BY <2>2, TreeKeeps DEF FullChild, PvChild, ScoutChild
  <2> HIDE DEF f
  <2>4. board'[Seat] = Home /\ board'[Seat + 1] = Game[Home].moves[f.move].to
    BY <1>2, <1>3, <2>1, <2>2
  <2>5. f.move \in DOMAIN Game[Home].moves
    BY <1>2, <2>1, <2>2
  <2>6. Keeps(f)
    BY <1>3, <2>1, <2>2, <2>4, <2>5, TreeKeeps
  <2> QED BY <2>1, <2>3, <2>6 DEF Treads
<1>18. CASE Done
  <2>1. Made(Top) = 0 /\ \E score : Return(score, <<>>) \/ Return(score, Top.line)
    BY <1>9, <1>18 DEF Done, LineOf
  <2> QED BY <1>2, <1>4, <2>1
<1> QED BY <1>10, <1>11, <1>12, <1>13, <1>14, <1>15, <1>16, <1>17, <1>18

\* The steps of a node of the tree that make a move or take one back.
LEMMA TreePlays ==
  ASSUME Typed, Trail, stack # <<>>, Top.fn \in Tree,
         NullMove \/ AfterNullMove \/ HashMove \/ AfterHashMove \/ TryMove \/ AfterMove
  PROVE  Treads
<1>1. /\ Home \in DOMAIN Game /\ Fields \subseteq DOMAIN Top /\ Seated(Top, Home)
      /\ Made(Top) = 0 => Home = Last(board) /\ here = Game[Home]
  BY OnTop
<1>2. /\ Leads(Home, Top.line) /\ Leads(Home, <<>>)
      /\ Top.at \in {"hashed", "tried", "searched"} =>
           Succ(Home, Last(board)) /\ Last(board) = made.to
      /\ ret.given => Leads(Last(board), ret.line)
  BY <1>1, OnTrail, NoLine
<1>3. /\ Home = board[Seat] /\ Seat + 0 = Seat /\ Seat \in 1 .. Seat
      /\ \A n : board' = Append(board, n) /\ Made(Top) = 0 =>
              /\ \A i \in 1 .. Seat : board'[i] = board[i]
              /\ Len(board') = Seat + 1 /\ board'[Seat + 1] = n
      /\ board' = Front(board) /\ Made(Top) = 1 =>
              (\A i \in 1 .. Seat : board'[i] = board[i]) /\ Len(board') = Seat
  BY Shapes
<1>4. ASSUME NEW score, NEW line, Made(Top) = 1, Return(score, line), Leads(Home, line), Unmake
      PROVE  Treads
  BY <1>3, <1>4, TreeKeeps DEF Treads, Unmake
<1>5. ASSUME NEW f, Made(Top) = 1, Go(f), f.fn \in Tree, f.at \in {"probcut", "loop"},
             Leads(Home, f.line), Unmake
      PROVE  Treads
  <2>1. Made(f) = 0 /\ f.at \notin {"hashed", "tried", "searched"}
    BY <1>5 DEF Made, Out
  <2>2. board'[Seat] = Home /\ Len(board') = Seat + Made(f)
    BY <1>3, <1>5, <2>1 DEF Unmake
  <2>3. Keeps(f)
    BY <1>5, <2>1, <2>2, TreeKeeps
  <2> QED BY <1>5, <2>3 DEF Treads
<1>6. ASSUME NEW f, NEW g, NEW n, Made(Top) = 0, Call(f, g), board' = Append(board, n),
             f.fn \in Tree, Leads(Home, f.line), Opens(g, f), Made(f) = 1,
             f.at \in {"hashed", "tried", "searched"} =>
                f.move \in DOMAIN Game[Home].moves /\ n = Game[Home].moves[f.move].to
      PROVE  Treads
  <2>1. board'[Seat] = Home /\ Len(board') = Seat + 1 /\ board'[Seat + 1] = n
    BY <1>3, <1>6
  <2>2. Keeps(f)
    BY <1>6, <2>1, TreeKeeps
  <2> QED BY <1>6, <2>2 DEF Treads
<1>7. \A place \in {"null", "hash", "loop"} : At(place) => Made(Top) = 0 /\ Top.at = place
  BY DEF At, Made, Out
<1>8. \A places \in SUBSET {"nulled", "hashed", "tried", "searched"} :
         Back(places) => Made(Top) = 1 /\ Top.at \in places /\ ret.given
  BY DEF Back, Made, Out
<1>9. CASE NullMove
  <2> DEFINE f == [Top EXCEPT !.at = "nulled"]
             g == Frame("scout", Top.depth - 1 - null_move_depth_reduction, -Top.beta, 1 - Top.beta, "CUT", FALSE)
  <2>1. Made(Top) = 0 /\ Call(f, g) /\ board' = Append(board, here.passed)
    BY <1>7, <1>9 DEF NullMove
  <2>2. f.fn \in Tree /\ f.line = Top.line /\ f.at = "nulled"
    <3> DEFINE e == Top
    <3>1. Fields \subseteq DOMAIN e /\ e.fn \in Tree
      BY <1>1
    <3> HIDE DEF e
    <3>2. [e EXCEPT !.at = "nulled"].fn \in Tree /\ [e EXCEPT !.at = "nulled"].line = e.line
          /\ [e EXCEPT !.at = "nulled"].at = "nulled"
      BY <3>1 DEF Fields
    <3> QED BY <3>2 DEF e
  <2>3. Opens(g, f)
    BY <2>2, TreeKeeps
  <2> HIDE DEF f, g
  <2>4. Made(f) = 1 /\ f.at \notin {"hashed", "tried", "searched"} /\ Leads(Home, f.line)
    BY <1>2, <2>2 DEF Made, Out
  <2> QED BY <1>6, <2>1, <2>2, <2>3, <2>4
<1>10. CASE AfterNullMove
  <2> DEFINE f == [Top EXCEPT !.at = "probcut"]
  <2>1. Made(Top) = 1 /\ Unmake /\ (Return(-ret.score, <<>>) \/ Go(f))
    BY <1>8, <1>10 DEF AfterNullMove
  <2>2. f.fn \in Tree /\ f.line = Top.line /\ f.at = "probcut"
    <3> DEFINE e == Top
    <3>1. Fields \subseteq DOMAIN e /\ e.fn \in Tree
      BY <1>1
    <3> HIDE DEF e
    <3>2. [e EXCEPT !.at = "probcut"].fn \in Tree /\ [e EXCEPT !.at = "probcut"].line = e.line
          /\ [e EXCEPT !.at = "probcut"].at = "probcut"
      BY <3>1 DEF Fields
    <3> QED BY <3>2 DEF e
  <2> HIDE DEF f
  <2> QED BY <1>2, <1>4, <1>5, <2>1, <2>2
<1>11. CASE HashMove
  <2> DEFINE f == [Top EXCEPT !.at = "hashed", !.move = Top.hash_move]
             n == here.moves[Top.hash_move].to
  <2>1. /\ Made(Top) = 0 /\ Top.at = "hash" /\ Top.hash_move # 0 /\ Call(f, FullChild(Top))
        /\ board' = Append(board, n)
    BY <1>7, <1>11 DEF HashMove, MakeMove
  <2>2. f.fn \in Tree /\ f.line = Top.line /\ f.at = "hashed" /\ f.move = Top.hash_move
    <3> DEFINE e == Top
               i == Top.hash_move
    <3>1. Fields \subseteq DOMAIN e /\ e.fn \in Tree
      BY <1>1
    <3> HIDE DEF e, i
    <3>2. /\ [e EXCEPT !.at = "hashed", !.move = i].fn \in Tree
          /\ [e EXCEPT !.at = "hashed", !.move = i].line = e.line
          /\ [e EXCEPT !.at = "hashed", !.move = i].at = "hashed"
          /\ [e EXCEPT !.at = "hashed", !.move = i].move = i
      BY <3>1 DEF Fields
    <3> QED BY <3>2 DEF e, i
  <2>3. Opens(FullChild(Top), f)
    BY <2>2, TreeKeeps DEF FullChild, PvChild, ScoutChild
  <2>4. Top.hash_move \in DOMAIN Game[Home].moves /\ n = Game[Home].moves[Top.hash_move].to
    BY <1>1, <2>1 DEF Seated
  <2> HIDE DEF f, n
  <2>5. Made(f) = 1 /\ Leads(Home, f.line)
    BY <1>2, <2>2 DEF Made, Out
  <2> QED BY <1>6, <2>1, <2>2, <2>3, <2>4, <2>5
<1>12. CASE TryMove
  <2> DEFINE c == Counted(Top)
             m == here.moves[c.move]
             d == Clamp(SearchDepth(c, m), c.depth - 1)
  <2>1. /\ Made(Top) = 0 /\ Top.at = "loop" /\ Top.left # {}
        /\ \/ Call([c EXCEPT !.at = "searched"], PvChild(c))
           \/ Call([c EXCEPT !.at = "tried"],
                   Frame("scout", c.depth - 1, -c.alpha - 1, -c.alpha, "CUT", TRUE))
           \/ Call([c EXCEPT !.at = "tried", !.search_depth = d], ScoutChild(c, d))
        /\ board' = Append(board, here.moves[c.move].to)
    BY <1>7, <1>12 DEF TryMove, MakeMove
  <2>2. c.move \in DOMAIN Game[Home].moves
    BY <1>1, <2>1, MoveCounted
  <2>3. Fields \subseteq DOMAIN c /\ c.fn \in Tree /\ Leads(Home, c.line)
    BY <1>1, <1>2, WorkAlike DEF Alike
  <2> HIDE DEF c, d
  <2>4. /\ \A p \in {"tried", "searched"} :
              /\ [c EXCEPT !.at = p].fn \in Tree /\ [c EXCEPT !.at = p].at = p
              /\ [c EXCEPT !.at = p].line = c.line /\ [c EXCEPT !.at = p].move = c.move
        /\ [c EXCEPT !.at = "tried", !.search_depth = d].fn \in Tree
        /\ [c EXCEPT !.at = "tried", !.search_depth = d].at = "tried"
        /\ [c EXCEPT !.at = "tried", !.search_depth = d].line = c.line
        /\ [c EXCEPT !.at = "tried", !.search_depth = d].move = c.move
    BY <2>3 DEF Fields
  <2>5. ASSUME NEW f, f.fn \in Tree, f.at \in {"tried", "searched"}, f.line = c.line, f.move = c.move,
               NEW g, Opens(g, f), Call(f, g)
        PROVE  Treads
    <3>1. Made(f) = 1 /\ Leads(Home, f.line)
      BY <2>3, <2>5 DEF Made, Out
    <3>2. f.move \in DOMAIN Game[Home].moves /\ here.moves[c.move].to = Game[Home].moves[f.move].to
      BY <1>1, <2>1, <2>2, <2>5
    <3> QED BY <1>6, <2>1, <2>5, <3>1, <3>2
  <2>6. CASE Call([c EXCEPT !.at = "searched"], PvChild(c))
    <3>1. Opens(PvChild(c), [c EXCEPT !.at = "searched"])
      BY <2>4, TreeKeeps DEF PvChild
    <3> QED BY <2>4, <2>5, <2>6, <3>1
  <2>7. CASE Call([c EXCEPT !.at = "tried"],
                  Frame("scout", c.depth - 1, -c.alpha - 1, -c.alpha, "CUT", TRUE))
    <3>1. Opens(Frame("scout", c.depth - 1, -c.alpha - 1, -c.alpha, "CUT", TRUE), [c EXCEPT !.at = "tried"])
      BY <2>4, TreeKeeps
    <3> QED BY <2>4, <2>5, <2>7, <3>1
  <2>8. CASE Call([c EXCEPT !.at = "tried", !.search_depth = d], ScoutChild(c, d))
    <3>1. Opens(ScoutChild(c, d), [c EXCEPT !.at = "tried", !.search_depth = d])
      BY <2>4, TreeKeeps DEF ScoutChild
    <3> QED BY <2>4, <2>5, <2>8, <3>1
  <2> QED BY <2>1, <2>6, <2>7, <2>8
\* What a node makes of the line brought to it.
<1>13. ASSUME Top.at \in {"hashed", "tried", "searched"}, ret.given, NEW score
       PROVE  LET f == Raised(Improved(Top, score))
              IN Fields \subseteq DOMAIN f /\ f.at = "loop" /\ f.fn \in Tree /\ Leads(Home, f.line)
  <2> DEFINE e == Top
             l == Append(ret.line, made.to)
             i == Improved(e, score)
             f == Raised(i)
  <2>1. Leads(Home, l)
    <3>1. Succ(Home, made.to) /\ Leads(made.to, ret.line)
      BY <1>2, <1>13
    <3> QED BY <1>1, <3>1, Lengthened
  <2>2. Fields \subseteq DOMAIN e /\ e.fn \in Tree
    BY <1>1
  <2>3. i = [e EXCEPT !.at = "loop", !.best = score, !.best_move = made.name, !.line = l]
    BY DEF Improved
  <2> HIDE DEF e, l, i
  <2>4. Fields \subseteq DOMAIN i /\ i.fn \in Tree /\ i.line = l
    BY <2>2, <2>3 DEF Fields
  <2>5. Fields \subseteq DOMAIN f /\ f.at = "loop" /\ f.fn \in Tree /\ f.line = l
    BY <2>4 DEF Raised, Fields
  <2> HIDE DEF f
  <2>6. Fields \subseteq DOMAIN f /\ f.at = "loop" /\ f.fn \in Tree /\ Leads(Home, f.line)
    BY <2>1, <2>5
  <2> QED BY <2>6 DEF f, i, e
<1>14. CASE AfterHashMove
  <2> DEFINE pv == Top.fn = "pv"
             score == IF pv THEN Max({Top.best, -ret.score}) ELSE -ret.score
             k == IF pv THEN 1 ELSE 0
             r == Raised(Improved(Top, score))
             f == [r EXCEPT !.counter = k]
             best == Min({f.best, f.score_ub})
  <2>1. Top.at = "hashed" /\ Made(Top) = 1 /\ ret.given /\ Unmake
    BY <1>8, <1>14 DEF AfterHashMove
  <2>2. Return(MAX_SCORE, <<>>) \/ Return(best, LineOf(f)) \/ Go(f)
    BY <1>14 DEF AfterHashMove
  <2>3. Fields \subseteq DOMAIN r /\ r.at = "loop" /\ r.fn \in Tree /\ Leads(Home, r.line)
    BY <1>13, <2>1
  <2> HIDE DEF r, k
  <2>4. f.at = "loop" /\ f.fn \in Tree /\ f.line = r.line
    BY <2>3 DEF Fields
  <2> HIDE DEF f, best
  <2>5. Leads(Home, LineOf(f)) /\ Leads(Home, f.line)
    BY <1>2, <2>3, <2>4 DEF LineOf
  <2> QED BY <1>2, <1>4, <1>5, <2>1, <2>2, <2>4, <2>5
<1>15. CASE AfterMove
  <2> DEFINE r == Raised(IF -ret.score > Top.best THEN Improved(Top, -ret.score) ELSE Top)
             f == [r EXCEPT !.left = IF Cut(r) THEN {} ELSE @]
  <2>1. /\ Top.at \in {"tried", "searched"} /\ Made(Top) = 1 /\ ret.given /\ Unmake
        /\ Return(MAX_SCORE, <<>>) \/ Go(f)
    BY <1>8, <1>15 DEF AfterMove, LeaveBoard
  <2>2. Fields \subseteq DOMAIN r /\ r.at = "loop" /\ r.fn \in Tree /\ Leads(Home, r.line)
    <3>1. CASE -ret.score > Top.best
      <4>1. r = Raised(Improved(Top, -ret.score))
        BY <3>1
      <4> HIDE DEF r
      <4> QED BY <1>13, <2>1, <4>1
    <3>2. CASE ~(-ret.score > Top.best)
      <4> DEFINE e == Top
      <4>1. r = Raised(e) /\ Fields \subseteq DOMAIN e /\ e.fn \in Tree /\ Leads(Home, e.line)
        BY <1>1, <1>2, <3>2
      <4> HIDE DEF r, e
      <4> QED BY <4>1 DEF Raised, Fields
    <3> QED BY <3>1, <3>2
  <2> HIDE DEF r
  <2>3. f.at = "loop" /\ f.fn \in Tree /\ f.line = r.line
    BY <2>2 DEF Fields
  <2> HIDE DEF f
  <2>4. Leads(Home, f.line)
    BY <2>2, <2>3
  <2> QED BY <1>2, <1>4, <1>5, <2>1, <2>3, <2>4
<1> QED BY <1>9, <1>10, <1>11, <1>12, <1>14, <1>15

\* What FirstOf gives is the score of an exit that is open, after none that is.
LEMMA FirstOpen ==
  ASSUME NEW exits, DOMAIN exits \subseteq Nat, FirstOf(exits) # <<>>
  PROVE  \E i \in DOMAIN exits : /\ exits[i][1] /\ FirstOf(exits)[1] = exits[i][2]
                                 /\ \A j \in DOMAIN exits : j < i => ~exits[j][1]
<1> DEFINE open == {i \in DOMAIN exits : exits[i][1]}
<1>1. open # {}
  BY DEF FirstOf
<1>2. open \in SUBSET Nat
  OBVIOUS
<1>3. Min(open) \in open /\ \A j \in open : Min(open) <= j
  <2> HIDE DEF open
  <2> QED BY <1>1, <1>2, Extremes
<1>4. FirstOf(exits)[1] = exits[Min(open)][2]
  <2>1. FirstOf(exits) = <<exits[Min(open)][2]>>
    BY <1>1 DEF FirstOf
  <2>2. \A x : <<x>>[1] = x
    OBVIOUS
  <2> QED BY <2>1, <2>2
<1>5. \A j \in DOMAIN exits : j < Min(open) => ~exits[j][1]
  <2> SUFFICES ASSUME NEW j \in DOMAIN exits, j < Min(open), exits[j][1] PROVE FALSE
    OBVIOUS
  <2>1. j \in open
    OBVIOUS
  <2> DEFINE k == Min(open)
  <2>2. k <= j /\ k \in Nat /\ j \in Nat
    BY <1>2, <1>3, <2>1
  <2> HIDE DEF k
  <2>3. ~(j < k)
    BY <2>2
  <2> QED BY <2>3 DEF k
<1> QED BY <1>3, <1>4, <1>5

\* quiesce ends early with what the position is worth standing still, and goes on from that.
LEMMA QuietStands ==
  ASSUME Typed, board # <<>>, NEW f
  PROVE  LET stands == Stands(root_ply, Last(board), Len(board) - 1)
         IN /\ QuiesceScore(f, here) # <<>> => QuiesceScore(f, here)[1] = stands
            /\ QuiesceScore(f, here) = <<>> => here.eval = stands
<1> DEFINE p == here
           stands == Stands(root_ply, Last(board), Len(board) - 1)
           mated == p.check /\ p.moves = <<>>
           exits == << <<mated, terminal>>,
                       <<p.draw, drawn_score>>,
                       <<~p.check /\ p.eval >= f.beta, p.eval>>,
                       <<p.eval + 900 + (IF p.seventh THEN 500 ELSE 0) <= Max({f.alpha, p.eval}), p.eval>>,
                       <<~p.check /\ \A i \in DOMAIN p.moves : ~IsCapture(p.moves[i]), p.eval>> >>
<1>1. QuiesceScore(f, here) = FirstOf(exits)
  BY DEF QuiesceScore
<1>2. DOMAIN exits = 1 .. 5 /\ 1 .. 5 \subseteq Nat
  OBVIOUS
<1>3. /\ exits[1][1] = mated /\ exits[2][1] = p.draw
      /\ exits[1][2] = terminal /\ exits[2][2] = drawn_score /\ \A i \in 3 .. 5 : exits[i][2] = p.eval
  OBVIOUS
<1>4. stands = IF mated THEN terminal ELSE IF p.draw THEN drawn_score ELSE p.eval
  BY DEF Stands, terminal, drawn_score, here, ply, height
<1> HIDE DEF exits, stands, mated, p
<1>5. ASSUME FirstOf(exits) # <<>> PROVE FirstOf(exits)[1] = stands
  <2>1. PICK i \in 1 .. 5 : /\ exits[i][1] /\ FirstOf(exits)[1] = exits[i][2]
                            /\ \A j \in 1 .. 5 : j < i => ~exits[j][1]
    BY <1>2, <1>5, FirstOpen
  <2> QED BY <1>3, <1>4, <2>1
<1>6. ASSUME FirstOf(exits) = <<>> PROVE p.eval = stands
  <2>1. ~exits[1][1] /\ ~exits[2][1]
    BY <1>2, <1>6, FirstExit
  <2> QED BY <1>3, <1>4, <2>1
<1> QED BY <1>1, <1>5, <1>6 DEF stands, p

\* A call of quiesce goes on as f.
Quiet(f, p, alpha, line) ==
    /\ f.fn = Top.fn /\ f.alpha_start = Top.alpha_start /\ f.beta = Top.beta
    /\ f.at = p /\ f.alpha = alpha /\ f.line = line

LEMMA QuietKeeps ==
  ASSUME Typed, stack # <<>>, Top.fn \notin Tree, NEW f, NEW p \in {"loop", "searched"},
         NEW alpha, NEW line, Quiet(f, p, alpha, line), Leads(Home, line),
         board'[Seat] = Home, Len(board') = Seat + (IF p = "loop" THEN 0 ELSE 1),
         p = "searched" => Succ(Home, board'[Seat + 1]),
         Top.fn = "settle" /\ Top.alpha_start < alpha /\ alpha < Top.beta =>
            Worthy(root_ply, Home, Seat - 1, line, alpha)
  PROVE  Keeps(f)
<1>1. Made(f) = IF p = "loop" THEN 0 ELSE 1
  BY DEF Quiet, Made, Out
<1>2. f.fn = "settle" => Brings(root_ply, f, Home, Seat - 1)
  BY DEF Quiet, Brings
<1>3. Trailed(root_ply, f, board', Seat)
  BY <1>2 DEF Quiet, Trailed
<1> QED BY <1>1, <1>3 DEF Keeps, Takes, Quiet

\* The steps of quiesce and of board_quiesce.
LEMMA QuietSteps ==
  ASSUME Typed, Trail, stack # <<>>, Top.fn \notin Tree,
         \/ (QuiesceEnter \/ QuiesceSkip \/ QuiesceDone) /\ board' = board
         \/ QuiesceMove \/ AfterQuiesceMove
  PROVE  Treads
<1>1. /\ Home \in DOMAIN Game /\ Fields \subseteq DOMAIN Top /\ Seated(Top, Home) /\ board # <<>>
      /\ Top.alpha \in Int /\ Top.beta \in Int
      /\ Made(Top) = 0 => Home = Last(board) /\ here = Game[Home]
  BY OnTop
<1>2. /\ Leads(Home, Top.line) /\ Leads(Home, <<>>)
      /\ Top.at = "searched" => Succ(Home, Last(board))
      /\ ret.given => /\ Leads(Last(board), ret.line)
                      /\ Owed(root_ply, Waits(Top), Last(board), Len(board) - 1, ret.line, ret.score)
  BY <1>1, OnTrail, NoLine
<1>3. /\ Home = board[Seat] /\ Seat + 0 = Seat /\ Seat \in 1 .. Seat /\ Seat \in Nat \ {0}
      /\ Len(board) = Seat + Made(Top)
      /\ board' = board => board'[Seat] = Home /\ Len(board') = Seat + Made(Top)
      /\ \A n : board' = Append(board, n) /\ Made(Top) = 0 =>
              /\ \A i \in 1 .. Seat : board'[i] = board[i]
              /\ Len(board') = Seat + 1 /\ board'[Seat + 1] = n
      /\ board' = Front(board) /\ Made(Top) = 1 =>
              (\A i \in 1 .. Seat : board'[i] = board[i]) /\ Len(board') = Seat
  BY Shapes
<1>4. ret.score \in Int /\ root_ply \in Nat /\ here.eval \in Int
  BY <1>1, Scores DEF Typed
<1>5. /\ Top.fn = "settle" /\ Top.at = "enter" => Top.alpha = Top.alpha_start /\ Top.line = <<>>
      /\ Top.fn = "settle" /\ Top.at # "enter" =>
           (Top.alpha_start < Top.alpha /\ Top.alpha < Top.beta
              => Worthy(root_ply, Home, Seat - 1, Top.line, Top.alpha))
  BY <1>3, OnTrail DEF Trailed, Brings
<1>6. \A place \in {"enter", "loop"} : At(place) => Made(Top) = 0 /\ Top.at = place
  BY DEF At, Made, Out
<1>7. ASSUME NEW f, Go(f), NEW alpha, NEW line, Quiet(f, "loop", alpha, line), Leads(Home, line),
             board'[Seat] = Home, Len(board') = Seat,
             Top.fn = "settle" /\ Top.alpha_start < alpha /\ alpha < Top.beta =>
                Worthy(root_ply, Home, Seat - 1, line, alpha)
      PROVE  Treads
  <2>1. Len(board') = Seat + (IF "loop" = "loop" THEN 0 ELSE 1)
    BY <1>3, <1>7
  <2>2. Keeps(f)
    BY <1>7, <2>1, QuietKeeps
  <2> QED BY <1>7, <2>2 DEF Treads
<1>8. CASE QuiesceEnter /\ board' = board
  <2> DEFINE early == QuiesceScore(Top, here)
             stands == Stands(root_ply, Home, Seat - 1)
             l == {i \in DOMAIN here.moves : here.check \/ IsCapture(here.moves[i])}
             e == Top
             alpha == Max({e.alpha, here.eval})
             f == [e EXCEPT !.at = "loop", !.alpha = alpha, !.left = l]
  <2>1. Made(Top) = 0 /\ Top.at = "enter" /\ Len(board') = Seat /\ board'[Seat] = Home
        /\ Home = Last(board) /\ Len(board) - 1 = Seat - 1
    BY <1>1, <1>3, <1>6, <1>8 DEF QuiesceEnter
  <2>2. IF early # <<>> THEN Return(early[1], <<>>) ELSE Go(f)
    BY <1>8 DEF QuiesceEnter, QuiesceStart
  <2>3. /\ early # <<>> => early[1] = stands
        /\ early = <<>> => here.eval = stands
    BY <1>1, <2>1, QuietStands
  <2>4. Worthy(root_ply, Home, Seat - 1, <<>>, stands)
    <3>1. Len(<<>>) = 0 /\ 0 % 2 = 0 /\ Seat - 1 + 0 = Seat - 1
      BY <1>3
    <3> QED BY <3>1 DEF Worthy, Reached
  <2>5. CASE early # <<>>
    <3>1. Gives(early[1], <<>>)
      BY <1>2, <2>3, <2>4, <2>5 DEF Gives, Owed
    <3> QED BY <2>1, <2>2, <2>5, <3>1 DEF Treads
  <2>6. CASE early = <<>>
    <3>1. Go(f)
      BY <2>2, <2>6
    <3>2. alpha = IF e.alpha >= here.eval THEN e.alpha ELSE here.eval
      BY <1>1, <1>4, Extremes
    <3>3. Fields \subseteq DOMAIN e /\ e.alpha \in Int
      BY <1>1
    <3>4. Top.fn = "settle" => /\ e.alpha = e.alpha_start /\ e.line = <<>>
      BY <1>5, <2>1
    <3>5. Leads(Home, e.line)
      BY <1>2
    <3>6. Top.fn = "settle" /\ Top.alpha_start < alpha /\ alpha < Top.beta =>
                Worthy(root_ply, Home, Seat - 1, e.line, alpha)
      <4> HAVE Top.fn = "settle" /\ Top.alpha_start < alpha /\ alpha < Top.beta
      <4>1. e.alpha < alpha
        BY <3>4
      <4>2. alpha = here.eval
        BY <3>2, <3>3, <4>1
      <4> QED BY <2>3, <2>4, <2>6, <3>4, <4>2
    <3> HIDE DEF alpha, l
    <3>7. Quiet(f, "loop", alpha, e.line)
      <4> HIDE DEF e
      <4>1. /\ f.fn = e.fn /\ f.alpha_start = e.alpha_start /\ f.beta = e.beta
            /\ f.at = "loop" /\ f.alpha = alpha /\ f.line = e.line
        BY <3>3 DEF Fields
      <4> HIDE DEF f
      <4> QED BY <4>1 DEF Quiet, e
    <3> HIDE DEF f, e
    <3> QED BY <1>7, <2>1, <3>1, <3>5, <3>6, <3>7
  <2> QED BY <2>5, <2>6
<1>9. CASE QuiesceSkip /\ board' = board
  <2> DEFINE e == Top
             l == Untried(Top)
             f == [e EXCEPT !.left = l]
  <2>1. Made(Top) = 0 /\ Top.at = "loop" /\ Len(board') = Seat /\ board'[Seat] = Home /\ Go(f)
    BY <1>3, <1>6, <1>9 DEF QuiesceSkip
  <2>2. Fields \subseteq DOMAIN e /\ e.at = "loop"
    BY <1>1, <2>1
  <2>3. Leads(Home, e.line)
    BY <1>2
  <2>4. Top.fn = "settle" /\ Top.alpha_start < e.alpha /\ e.alpha < Top.beta =>
                Worthy(root_ply, Home, Seat - 1, e.line, e.alpha)
    BY <1>5, <2>1
  <2> HIDE DEF l
  <2>5. Quiet(f, "loop", e.alpha, e.line)
    <3> HIDE DEF e
    <3>1. /\ f.fn = e.fn /\ f.alpha_start = e.alpha_start /\ f.beta = e.beta
          /\ f.at = "loop" /\ f.alpha = e.alpha /\ f.line = e.line
      BY <2>2 DEF Fields
    <3> HIDE DEF f
    <3> QED BY <3>1 DEF Quiet, e
  <2> HIDE DEF f, e
  <2> QED BY <1>7, <2>1, <2>3, <2>4, <2>5
<1>10. CASE QuiesceDone /\ board' = board
  <2>1. Made(Top) = 0 /\ Top.at = "loop" /\ Len(board') = Seat /\ Return(Top.alpha, Top.line)
    BY <1>3, <1>6, <1>10 DEF QuiesceDone
  <2>2. Gives(Top.alpha, Top.line)
    BY <1>2, <1>5, <2>1 DEF Gives, Owed, Claim
  <2> QED BY <2>1, <2>2 DEF Treads
<1>11. CASE QuiesceMove
  <2> DEFINE e == Top
             l == Untried(Top)
             f == [e EXCEPT !.at = "searched", !.left = l]
             i == Min(Top.left)
             n == here.moves[i].to
             g == Frame(Top.fn, 0, -Top.beta, -Top.alpha, "NONE", FALSE)
  <2>1. /\ Made(Top) = 0 /\ Top.at = "loop" /\ Top.left # {} /\ Call(f, g) /\ board' = Append(board, n)
    BY <1>6, <1>11 DEF QuiesceMove, MakeMove
  <2>2. Succ(Home, n)
    <3>1. Top.left \in SUBSET DOMAIN Game[Home].moves
      BY <1>1 DEF Seated
    <3>2. Top.left \in SUBSET Nat
      BY <1>1, <3>1, Few
    <3>3. i \in DOMAIN Game[Home].moves
      BY <2>1, <3>1, <3>2, Extremes
    <3> QED BY <1>1, <2>1, <3>3 DEF Succ
  <2>3. Fields \subseteq DOMAIN e /\ Leads(Home, e.line)
    BY <1>1, <1>2
  <2>4. Top.fn = "settle" /\ Top.alpha_start < e.alpha /\ e.alpha < Top.beta =>
                Worthy(root_ply, Home, Seat - 1, e.line, e.alpha)
    BY <1>5, <2>1
  <2>5. g.at = "enter" /\ g.line = <<>> /\ g.alpha = g.alpha_start /\ g.fn = Top.fn
        /\ g.alpha_start = -Top.beta /\ g.beta = -Top.alpha
    BY DEF Frame
  <2> HIDE DEF l, n, g
  <2>6. Quiet(f, "searched", e.alpha, e.line)
    <3> HIDE DEF e
    <3>1. /\ f.fn = e.fn /\ f.alpha_start = e.alpha_start /\ f.beta = e.beta
          /\ f.at = "searched" /\ f.alpha = e.alpha /\ f.line = e.line
      BY <2>3 DEF Fields
    <3> HIDE DEF f
    <3> QED BY <3>1 DEF Quiet, e
  <2> HIDE DEF f
  <2>7. Opens(g, f)
    BY <2>5, <2>6 DEF Opens, Fits, Waits, Quiet
  <2>8. board'[Seat] = Home /\ Len(board') = Seat + (IF "searched" = "loop" THEN 0 ELSE 1)
        /\ Succ(Home, board'[Seat + 1])
    BY <1>3, <2>1, <2>2
  <2> HIDE DEF e
  <2>9. Keeps(f)
    BY <2>3, <2>4, <2>6, <2>8, QuietKeeps
  <2> QED BY <2>1, <2>7, <2>9 DEF Treads
<1>12. CASE AfterQuiesceMove
  <2> DEFINE e == Top
             alpha == Max({e.alpha, -ret.score})
             r == Raised(e)
             l == IF Cut(r) THEN {} ELSE r.left
             line == IF Top.fn = "settle" THEN Way(Top) ELSE r.line
             f == [r EXCEPT !.left = l, !.line = line]
  <2>1. Made(Top) = 1 /\ Top.at = "searched" /\ ret.given /\ Go(f) /\ board' = Front(board)
    BY <1>12 DEF AfterQuiesceMove, Back, Made, Out, Unmake
  <2>2. board'[Seat] = Home /\ Len(board') = Seat /\ Len(board) - 1 = Seat
    BY <1>3, <2>1
  <2>3. Fields \subseteq DOMAIN e /\ e.alpha \in Int /\ e.beta \in Int
    BY <1>1
  <2>4. /\ Fields \subseteq DOMAIN r /\ r.fn = e.fn /\ r.alpha_start = e.alpha_start /\ r.beta = e.beta
        /\ r.at = "loop" /\ r.alpha = alpha /\ r.line = e.line
    <3> HIDE DEF e
    <3> QED BY <2>3 DEF Raised, Fields
  <2>5. alpha = IF e.alpha >= -ret.score THEN e.alpha ELSE -ret.score
    BY <1>4, <2>3, Extremes
  <2> DEFINE t == Append(ret.line, Last(board))
  <2>6. /\ Leads(Home, t)
        /\ \A score \in Int : Worthy(root_ply, Last(board), Seat, ret.line, score) =>
             Worthy(root_ply, Home, Seat - 1, t, -score)
    BY <1>1, <1>2, <1>3, <1>4, <2>1, Lengthened
  <2>7. line = IF Top.fn = "settle" /\ -ret.score > e.alpha THEN t ELSE e.line
    BY <2>4 DEF Way
  <2>8. Leads(Home, line)
    BY <1>2, <2>6, <2>7
  <2> HIDE DEF r, l, line, t
  <2>9. Top.fn = "settle" /\ Top.alpha_start < alpha /\ alpha < Top.beta =>
                Worthy(root_ply, Home, Seat - 1, line, alpha)
    <3> HAVE Top.fn = "settle" /\ Top.alpha_start < alpha /\ alpha < Top.beta
    <3>1. CASE -ret.score > e.alpha
      <4>1. alpha = -ret.score /\ line = t
        BY <1>4, <2>3, <2>5, <2>7, <3>1
      <4>2. -Top.beta < ret.score /\ ret.score < -Top.alpha
        BY <1>1, <1>4, <3>1, <4>1
      <4>3. Worthy(root_ply, Last(board), Seat, ret.line, ret.score)
        BY <1>2, <2>1, <2>2, <4>2 DEF Owed, Waits
      <4> QED BY <1>4, <2>6, <4>1, <4>3
    <3>2. CASE ~(-ret.score > e.alpha)
      <4>1. alpha = e.alpha /\ line = e.line
        BY <1>4, <2>3, <2>5, <2>7, <3>2
      <4> QED BY <1>5, <2>1, <4>1
    <3> QED BY <3>1, <3>2
  <2> HIDE DEF alpha
  <2>10. Quiet(f, "loop", alpha, line)
    <3> HIDE DEF e
    <3>1. /\ f.fn = e.fn /\ f.alpha_start = e.alpha_start /\ f.beta = e.beta
          /\ f.at = "loop" /\ f.alpha = alpha /\ f.line = line
      BY <2>4 DEF Fields
    <3> HIDE DEF f
    <3> QED BY <3>1 DEF Quiet, e
  <2> HIDE DEF f
  <2> QED BY <1>7, <2>1, <2>2, <2>8, <2>9, <2>10
<1> QED BY <1>8, <1>9, <1>10, <1>11, <1>12

\* Every step of a call leaves all of them on their paths.
LEMMA StepTrails == ASSUME Typed, Trail, Step PROVE Trail'
<1>0. stack # <<>>
  BY DEF Step, Look, Play, Keep, EndAtRoot, EndEarly, EndInQuiesce, EndInTable, Work,
         NoNullMove, Probcut, AfterProbcut, NoHashMove, PruneMove, TryAgain, QuiesceEnter,
         QuiesceSkip, QuiesceDone, NullMove, AfterNullMove, HashMove, TryMove, AfterMove,
         QuiesceMove, AfterQuiesceMove, EndInTablebase, Done, AfterHashMove, StopItself,
         Enter, At, Back
<1>1. OnBoard(board')
  BY StepTyped DEF Typed
<1>2. root_ply' = root_ply /\ asked' = asked
  BY DEF Step
<1>3. Top.at \notin {"enter", "loop", "searched"} => Top.fn \in Tree
  BY <1>0, OnTop
<1>4. ASSUME Treads, \/ board' = board
                     \/ Made(Top) = 0 /\ \E n : board' = Append(board, n)
                     \/ Made(Top) = 1 /\ board' = Front(board)
      PROVE  Trail'
  <2>1. \A i \in 1 .. Seat : board'[i] = board[i]
    BY <1>0, <1>4, Shapes
  <2> QED BY <1>0, <1>1, <1>2, <1>4, <2>1, TrailOn
<1>5. CASE Look /\ UNCHANGED <<board, stop, table>>
  <2>1. CASE QuiesceEnter \/ QuiesceSkip \/ QuiesceDone
    <3>1. Top.fn \notin Tree
      BY <2>1 DEF QuiesceEnter, QuiesceSkip, QuiesceDone, InQuiesce, InTree, Tree
    <3> QED BY <1>0, <1>4, <1>5, <2>1, <3>1, QuietSteps
  <2>2. CASE ~(QuiesceEnter \/ QuiesceSkip \/ QuiesceDone)
    <3>1. \/ EndAtRoot \/ EndEarly \/ EndInQuiesce \/ EndInTable \/ Work \/ NoNullMove
          \/ Probcut \/ AfterProbcut \/ NoHashMove \/ PruneMove \/ TryAgain
      BY <1>5, <2>2 DEF Look
    <3>2. Top.fn \in Tree
      BY <1>3, <3>1 DEF EndAtRoot, EndEarly, EndInQuiesce, EndInTable, Work, NoNullMove, Probcut,
            AfterProbcut, NoHashMove, PruneMove, TryAgain, Enter, At, Back, InTree, Tree
    <3> QED BY <1>0, <1>4, <1>5, <3>1, <3>2, TreeLooks
  <2> QED BY <2>1, <2>2
<1>6. CASE Play /\ UNCHANGED <<stop, table>>
  <2>1. \/ Made(Top) = 0 /\ \E n : board' = Append(board, n)
        \/ Made(Top) = 1 /\ board' = Front(board)
    BY <1>0, <1>6, PlaysTyped DEF Forth, Taken
  <2>2. CASE QuiesceMove \/ AfterQuiesceMove
    <3>1. Top.fn \notin Tree
      BY <2>2 DEF QuiesceMove, AfterQuiesceMove, InQuiesce, InTree, Tree
    <3> QED BY <1>0, <1>4, <2>1, <2>2, <3>1, QuietSteps
  <2>3. CASE NullMove \/ AfterNullMove \/ HashMove \/ TryMove \/ AfterMove
    <3>1. Top.fn \in Tree
      BY <1>3, <2>3 DEF NullMove, AfterNullMove, HashMove, TryMove, AfterMove, At, Back, InTree, Tree
    <3> QED BY <1>0, <1>4, <2>1, <2>3, <3>1, TreePlays
  <2> QED BY <1>6, <2>2, <2>3 DEF Play
<1>7. CASE Keep /\ UNCHANGED <<board, stop>>
  <2>1. Top.fn \in Tree
    BY <1>7 DEF Keep, EndInTablebase, Done, Enter, InTree, Tree
  <2> QED BY <1>0, <1>4, <1>7, <2>1, TreeLooks DEF Keep
<1>8. CASE AfterHashMove /\ UNCHANGED stop
  <2>1. Top.fn \in Tree /\ Made(Top) = 1 /\ board' = Front(board)
    BY <1>3, <1>8 DEF AfterHashMove, Back, Made, Out, Unmake
  <2> QED BY <1>0, <1>4, <1>8, <2>1, TreePlays
<1>9. CASE StopItself /\ UNCHANGED <<board, table>>
  <2>1. Top.fn \in Tree
    BY <1>9 DEF StopItself, Enter, InTree, Tree
  <2> QED BY <1>0, <1>4, <1>9, <2>1, TreeLooks
<1> QED BY <1>5, <1>6, <1>7, <1>8, <1>9 DEF Step

\* A call that is asked for sets out from its root.
LEMMA AskTrails == ASSUME Typed, Ask PROVE Trail'
<1>1. PICK ask \in Asks :
        /\ stack' = <<Frame(ask.fn, ask.depth, ask.alpha, ask.beta, "PV", TRUE)>>
        /\ board' = <<ask.root>> /\ root_ply' = ask.ply /\ asked' = ask
  BY DEF Ask
<1>2. ret' = None
  BY DEF Ask
<1> DEFINE f == Frame(ask.fn, ask.depth, ask.alpha, ask.beta, "PV", TRUE)
<1>3. /\ f.at = "enter" /\ f.line = <<>> /\ f.alpha = f.alpha_start /\ Made(f) = 0
      /\ f.fn = ask.fn /\ f.alpha_start = ask.alpha /\ f.beta = ask.beta
  BY DEF Frame, Made, Out
<1>4. ask.root \in DOMAIN Game /\ Game[ask.root].side = "root"
  BY AsksAssumption
<1>5. IsSeq(<<>>) /\ Len(<<>>) = 0 /\ \A x : <<x>> = Append(<<>>, x)
  BY EmptySeq DEF IsSeq
<1>6. board' = Append(<<>>, ask.root) /\ stack' = Append(<<>>, f)
  BY <1>1, <1>5
<1> HIDE DEF f
<1>7. Len(board') = 1 /\ board'[1] = ask.root /\ IsSeq(stack')
  <2>1. \A x : IsSeq(Append(<<>>, x)) /\ Len(Append(<<>>, x)) = Len(<<>>) + 1
               /\ Append(<<>>, x)[Len(<<>>) + 1] = x
    BY <1>5, Sequences
  <2>2. 0 + 1 = 1
    OBVIOUS
  <2> QED BY <1>5, <1>6, <2>1, <2>2
<1>8. Trodden(root_ply', asked', stack', board')
  <2> DEFINE h == [i \in 1 .. 0 |-> 1]
  <2>1. h \in [1 .. 0 -> Nat \ {0}]
    OBVIOUS
  <2> HIDE DEF h
  <2>2. Path(ask.ply, ask, <<>>, board', h, 1)
    BY <1>5, <2>1 DEF Path
  <2>3. Trailed(ask.ply, f, board', 1)
    <3>1. Leads(board'[1], f.line)
      BY <1>3, <1>4, <1>7, NoLine
    <3> QED BY <1>3, <3>1 DEF Trailed, Brings
  <2>4. Fits(f, ClaimOf(ask, <<>>, Len(<<>>) + 1))
    <3>1. Len(<<>>) + 1 = 1
      BY <1>5
    <3>2. ClaimOf(ask, <<>>, Len(<<>>) + 1) = ask
      BY <3>1 DEF ClaimOf
    <3> QED BY <1>3, <3>2 DEF Fits
  <2>5. PICK g : Path(ask.ply, ask, Append(<<>>, f), board', g, 1 + Made(f))
    BY <2>2, <2>3, <2>4, PathOn
  <2>6. 1 + Made(f) = Len(board')
    BY <1>3, <1>7
  <2> QED BY <1>1, <1>6, <1>7, <2>5, <2>6 DEF Trodden
<1>9. ~ret'.given
  BY <1>2 DEF None
<1> QED BY <1>4, <1>7, <1>8, <1>9 DEF Trail, Brought, Rooted

\* Nothing has been asked yet, and the stop flag is not on any path.
LEMMA TrailAlways == Spec => [](Typed /\ Trail)
<1>1. Init => Typed /\ Trail
  <2> SUFFICES ASSUME Init PROVE Trail
    BY TypedFirst
  <2>1. IsSeq(<<>>) /\ Len(<<>>) = 0
    BY EmptySeq DEF IsSeq
  <2>2. ~ret.given
    BY DEF Init, None
  <2> QED BY <2>1, <2>2 DEF Init, Trail, Trodden, Brought, Rooted
<1>2. Typed /\ Trail /\ [Next]_vars => Typed' /\ Trail'
  <2> SUFFICES ASSUME Typed, Trail, [Next]_vars PROVE Typed' /\ Trail'
    OBVIOUS
  <2>1. Typed'
    BY TypedNext
  <2>2. CASE Ask
    BY <2>1, <2>2, AskTrails
  <2>3. CASE Step
    BY <2>1, <2>3, StepTrails
  <2>4. CASE SetStop \/ UNCHANGED vars
    <3>1. /\ ret' = ret /\ root_ply' = root_ply /\ board' = board /\ stack' = stack /\ asked' = asked
      BY <2>4 DEF SetStop, vars
    <3> QED BY <2>1, <3>1 DEF Trail, Trodden, Brought, Rooted
  <2> QED BY <2>2, <2>3, <2>4 DEF Next
<1> QED BY <1>1, <1>2, PTL DEF Spec

\* A line that leads on from a position, played from it.
LEMMA PlayedOut ==
  ASSUME NEW n, NEW line, Leads(n, line),
         NEW p, p = <<n>> \o Reverse(line)
  PROVE  CanPlay(p) /\ Len(p) = Len(line) + 1 /\ Last(p) = Reached(n, line)
<1> DEFINE k == Len(line)
           r == Reverse(line)
<1>1. IsSeq(line) /\ k \in Nat /\ (line # <<>> => k > 0) /\ (line = <<>> => k = 0)
  BY Sequences, EmptySeq DEF Leads
<1>2. line # <<>> => Succ(n, line[k])
  BY DEF Leads
<1>3. \A j \in 1 .. k - 1 : Succ(line[j + 1], line[j])
  BY DEF Leads
<1> DEFINE S == Elements(line) \cup {n}
<1>4. \A j \in 1 .. k : line[j] \in S
  BY DEF Elements
<1>5. n \in S
  OBVIOUS
<1>6. r = [i \in 1 .. k |-> line[k - i + 1]]
  BY DEF Reverse
<1> HIDE DEF S, k, r
<1>7. r \in Seq(S) /\ Len(r) = k /\ \A i \in 1 .. k : r[i] = line[k - i + 1]
  <2>1. \A i \in 1 .. k : k - i + 1 \in 1 .. k
    BY <1>1
  <2>2. r \in [1 .. k -> S] /\ DOMAIN r = 1 .. k
    BY <1>4, <1>6, <2>1
  <2>3. r \in Seq(S)
    BY <1>1, <2>2, SeqDef
  <2>4. Len(r) = k
    <3>1. Len(r) \in Nat /\ DOMAIN r = 1 .. Len(r)
      BY <2>3, LenProperties
    <3>2. \A j \in Nat : (1 .. j) = (1 .. k) => j = k
      BY <1>1
    <3> QED BY <2>2, <3>1, <3>2
  <2> QED BY <1>6, <2>3, <2>4
<1>8. Len(p) = k + 1 /\ p[1] = n /\ \A i \in 1 .. k : p[i + 1] = line[k - i + 1]
  <2>1. <<n>> \in Seq(S) /\ Len(<<n>>) = 1 /\ <<n>>[1] = n
    BY <1>5
  <2>2. /\ Len(p) = 1 + k
        /\ \A i \in 1 .. 1 + k : p[i] = IF i <= 1 THEN <<n>>[i] ELSE r[i - 1]
    BY <1>7, <2>1, ConcatProperties DEF r
  <2>3. \A i \in 1 .. k : i + 1 \in 1 .. 1 + k /\ ~(i + 1 <= 1) /\ i + 1 - 1 = i
    BY <1>1
  <2>4. 1 \in 1 .. 1 + k /\ 1 <= 1 /\ 1 + k = k + 1
    BY <1>1
  <2> QED BY <1>7, <2>1, <2>2, <2>3, <2>4
<1>9. ASSUME NEW i \in 1 .. k PROVE Succ(p[i], p[i + 1])
  <2>1. CASE i = 1
    <3>1. 1 \in 1 .. k /\ k - 1 + 1 = k /\ line # <<>>
      BY <1>1, <2>1
    <3> QED BY <1>2, <1>8, <2>1, <3>1
  <2>2. CASE i # 1
    <3> DEFINE j == k - i + 1
    <3>1. j \in 1 .. k - 1 /\ i - 1 \in 1 .. k /\ i - 1 + 1 = i /\ k - (i - 1) + 1 = j + 1
      BY <1>1, <2>2
    <3>2. p[i] = line[j + 1] /\ p[i + 1] = line[j]
      BY <1>8, <3>1
    <3> QED BY <1>3, <3>1, <3>2
  <2> QED BY <2>1, <2>2
<1>10. CanPlay(p)
  <2>1. Len(p) - 1 = k
    BY <1>1, <1>8
  <2> QED BY <1>9, <2>1 DEF CanPlay, Succ
<1>11. Last(p) = Reached(n, line)
  <2>1. Last(p) = p[k + 1]
    BY <1>8 DEF Last
  <2>2. CASE line = <<>>
    BY <1>1, <1>8, <2>1, <2>2 DEF Reached
  <2>3. CASE line # <<>>
    <3>1. k \in 1 .. k /\ k - k + 1 = 1
      BY <1>1, <2>3
    <3> QED BY <1>8, <2>1, <2>3, <3>1 DEF Reached
  <2> QED BY <2>2, <2>3
<1> QED BY <1>8, <1>10, <1>11 DEF k

\* The board is the root's when a call has ended, and what it gave back leads on from there.
LEMMA AtTheRoot ==
  ASSUME Typed, Trail, BoardRestored, Idle, ret.given
  PROVE  /\ Leads(board[1], ret.line) /\ Game[board[1]].side = "root"
         /\ Owed(root_ply, asked, board[1], 0, ret.line, ret.score)
<1>1. Len(board) \in Nat
  BY Sequences DEF Typed, OnBoard
<1>2. Len(board) = 1
  <2>1. Len(board) >= 1
    BY DEF Trail, Brought
  <2>2. Len(board) <= 1
    BY DEF BoardRestored
  <2> DEFINE l == Len(board)
  <2>3. l \in Nat /\ l >= 1 /\ l <= 1
    BY <1>1, <2>1, <2>2
  <2> HIDE DEF l
  <2>4. l = 1
    BY <2>3
  <2> QED BY <2>4 DEF l
<1>3. ClaimOf(asked, stack, Len(stack) + 1) = asked
  <2>1. Len(stack) = 0 /\ 0 + 1 = 1
    BY EmptySeq DEF Idle
  <2> QED BY <2>1 DEF ClaimOf
<1>4. 1 - 1 = 0 /\ 1 >= 1
  OBVIOUS
<1> QED BY <1>2, <1>3, <1>4 DEF Trail, Brought, Rooted

\* What a call of board_quiesce is worth is what the end of its line is worth standing still.
LEMMA Settling ==
  ASSUME Typed, Trail, BoardRestored, Ended("settle"),
         asked.alpha < ret.score, ret.score < asked.beta
  PROVE  Settles(Played(ret.line))
<1> DEFINE line == ret.line
           k == Len(line)
           n == Reached(board[1], line)
           x == Stands(root_ply, n, k)
<1>1. /\ Leads(board[1], line) /\ Game[board[1]].side = "root"
      /\ Worthy(root_ply, board[1], 0, line, ret.score)
  BY AtTheRoot DEF Ended, Owed
<1>2. /\ k \in Nat /\ n \in DOMAIN Game
      /\ Game[n].side = Game[board[1]].side <=> k % 2 = 0
  BY <1>1, Sequences DEF Leads
<1>3. /\ CanPlay(Played(line)) /\ Len(Played(line)) = k + 1 /\ Last(Played(line)) = n
  BY <1>1, PlayedOut DEF Played
<1>4. x \in Int
  BY <1>2, StandsInt DEF Typed
<1>5. ret.score = IF k % 2 = 0 THEN x ELSE -x
  <2>1. 0 + k = k
    BY <1>2
  <2> QED BY <1>1, <2>1 DEF Worthy
<1>6. x = IF Game[n].check /\ Game[n].moves = <<>> THEN -ply_to_mate_score(root_ply + k)
          ELSE IF Game[n].draw THEN DrawnFor(n) ELSE Game[n].eval
  BY <1>1, <1>2 DEF Stands, DrawnFor
<1>7. Standing(n, k) = (IF k % 2 = 0 THEN 1 ELSE -1) * x
  BY <1>6 DEF Standing
<1>8. Len(Played(line)) - 1 = k
  BY <1>2, <1>3
<1> HIDE DEF x, k, n, line
<1>9. ret.score = Standing(n, k)
  <2>1. CASE k % 2 = 0
    BY <1>4, <1>5, <1>7, <2>1
  <2>2. CASE k % 2 # 0
    BY <1>4, <1>5, <1>7, <2>2
  <2> QED BY <2>1, <2>2
<1> DEFINE p == Played(line)
<1>10. CanPlay(p) /\ ret.score = Standing(Last(p), Len(p) - 1)
  BY <1>3, <1>8, <1>9
<1> HIDE DEF p
<1>11. Settles(p)
  BY <1>10 DEF Settles
<1> QED BY <1>11 DEF p, line

\* Whatever a search or board_quiesce gives back, stopped or not, and whatever its window:
\* its line can be played from the root, move after move.
LinesPlay == Idle /\ ret.given => CanPlay(Played(ret.line))

\* So it is from every step to the next.
THEOREM LinesArePlayed == Spec => []LinesPlay
<1>1. Typed /\ Trail /\ BoardRestored => LinesPlay
  <2> SUFFICES ASSUME Typed, Trail, BoardRestored, Idle, ret.given PROVE CanPlay(Played(ret.line))
    BY DEF LinesPlay
  <2>1. Leads(board[1], ret.line)
    BY AtTheRoot
  <2> QED BY <2>1, PlayedOut DEF Played
<1> QED BY <1>1, TrailAlways, BoardIsRestored, PTL

\* The position that board_quiesce gives back can be reached, and a score inside the window
\* it was asked for is what that position is worth standing still: mated, drawn or evaluated.
SettledInside ==
    Ended("settle") /\ asked.alpha < ret.score /\ ret.score < asked.beta => Settles(Played(ret.line))

\* From the lines that the calls of board_quiesce keep.
THEOREM ScoreIsOfItsLine == Spec => []SettledInside
<1>1. Typed /\ Trail /\ BoardRestored => SettledInside
  BY Settling DEF SettledInside
<1> QED BY <1>1, TrailAlways, BoardIsRestored, PTL

-----------------------------------------------------------------------------
(***************************************************************************)
(* The scores.  A node is not mated before its own ply, and does not mate  *)
(* before it, whatever the table holds; TransTable takes this for granted  *)
(* of the scores it is given (Plausible).  And the move of a root that is  *)
(* searched is always known.                                               *)
(***************************************************************************)
\* The board keeps to its arrays, which have a place for every ply below MAX_PLY.
InHistory == root_ply + Len(board) - 1 <= TT!MAX_PLY

\* The score of a mate at the ply p, and the scores a node at p can have.
Lim(p) == TT!MATING_SCORE - p
Held(score, p) == -Lim(p) <= score /\ score <= Lim(p)

\* A node that has no score yet is going to have one: a move is out, or is left.
Pending(f) ==
    CASE f.at \in {"hashed", "tried", "searched"} -> TRUE
      [] f.at = "loop" -> f.counter = 0 /\ f.left # {}
      [] OTHER -> f.hash_move = 0 => f.left # {}

\* What the call f, about the j-th position, keeps: a node of the tree the best score, if it
\* has one, and quiesce its alpha, as long as nothing was stopped.  u says that it was not
\* called by quiesce, whose windows may lie beyond what this call can score.
Ranged(rp, live, f, j, u) ==
    LET p == rp + j - 1
    IN /\ f.fn # "settle"
       /\ f.fn = "pv" => f.at \notin {"null", "nulled", "probcut", "probed"}
       /\ f.fn \in Tree /\ f.at # "enter" =>
             f.score_ub >= -TBWIN /\ IF f.best = MIN_SCORE THEN Pending(f) ELSE Held(f.best, p)
       /\ f.fn = "quiesce" /\ live =>
             (u => f.alpha <= Lim(p)) /\ (f.at # "enter" => -Lim(p) <= f.alpha)

\* A root that is not answered at once: it has moves, depth to search them, and a window
\* that neither mate at its ply is outside of.
Playable(rp, a, n) ==
    /\ a.fn = "pv" /\ (a.depth > 0 \/ Game[n].check) /\ Game[n].moves # <<>>
    /\ rp < TT!MAX_PLY /\ a.alpha < Lim(rp) /\ -Lim(rp) < a.beta
First(rp, a, n, f) ==
    Playable(rp, a, n) =>
        /\ f.fn = "pv"
        /\ f.at = "enter" => f.depth = a.depth /\ f.alpha = a.alpha /\ f.beta = a.beta
        /\ f.at # "enter" /\ f.line = <<>> => f.best = MIN_SCORE

\* It holds of every call of the stack s, the i-th of which is about the position h[i]; the
\* next would be about the n-th.  The first of them is about r, the root.
Under(s, i) == i = 1 \/ s[i - 1].fn \in Tree
Ranks(rp, a, live, r, s, h, n) ==
    /\ IsSeq(s) /\ h \in [1 .. Len(s) -> Nat \ {0}] /\ n \in Nat \ {0}
    /\ IF s = <<>> THEN n = 1 ELSE h[1] = 1 /\ n = h[Len(s)] + Made(s[Len(s)])
    /\ \A i \in 1 .. Len(s) - 1 : h[i + 1] = h[i] + Made(s[i])
    /\ \A i \in 1 .. Len(s) : Ranged(rp, live, s[i], h[i], Under(s, i))
    /\ s # <<>> => First(rp, a, r, s[1])
Ranked(rp, a, live, r, s, n) == \E h : Ranks(rp, a, live, r, s, h, n)

\* What has been returned, of a search that nobody has stopped.
Given(rp, a, live, b, s, r) ==
    r.given /\ live =>
        /\ -Lim(rp + Len(b) - 1) <= r.score
        /\ Under(s, Len(s) + 1) => r.score <= Lim(rp + Len(b) - 1)
        /\ s = <<>> /\ Playable(rp, a, b[1]) => r.line # <<>>
Tabled(t) == \A i \in 0 .. Slots - 1 : Held(t[i].score, 0)
Treeless(s) == \A i \in 1 .. Len(s) : s[i].fn \notin Tree
Scored ==
    /\ Tabled(table)
    /\ asked.fn # "pv" => Treeless(stack)
    /\ asked.fn = "pv" /\ board # <<>> =>
          /\ Ranked(root_ply, asked, ~stop, board[1], stack, Len(board))
          /\ Given(root_ply, asked, ~stop, board, stack, ret)

\* A call that is made goes on from the last of them.
LEMMA RankOn ==
  ASSUME NEW rp, NEW a, NEW live, NEW r, NEW s, NEW c, Ranked(rp, a, live, r, s, c),
         NEW f, Ranged(rp, live, f, c, Under(s, Len(s) + 1)), s = <<>> => First(rp, a, r, f)
  PROVE  Ranked(rp, a, live, r, Append(s, f), c + Made(f))
<1>1. PICK h : Ranks(rp, a, live, r, s, h, c)
  BY DEF Ranked
<1> DEFINE k == Len(s)
           t == Append(s, f)
           g == [i \in 1 .. k + 1 |-> IF i = k + 1 THEN c ELSE h[i]]
<1>2. /\ IsSeq(s) /\ h \in [1 .. k -> Nat \ {0}] /\ c \in Nat \ {0}
      /\ IF s = <<>> THEN c = 1 ELSE h[1] = 1 /\ c = h[k] + Made(s[k])
      /\ \A i \in 1 .. k - 1 : h[i + 1] = h[i] + Made(s[i])
      /\ \A i \in 1 .. k : Ranged(rp, live, s[i], h[i], Under(s, i))
      /\ s # <<>> => First(rp, a, r, s[1])
  BY <1>1 DEF Ranks
<1>3. /\ k \in Nat /\ (s # <<>> => k > 0) /\ (s = <<>> => k = 0) /\ IsSeq(t) /\ Len(t) = k + 1
      /\ \A i \in 1 .. k : t[i] = s[i]
      /\ t[k + 1] = f
  BY <1>2, Sequences, EmptySeq
<1>4. t # <<>>
  <2> HIDE DEF t, k
  <2>1. Len(t) # 0
    BY <1>3
  <2> QED BY <2>1, EmptySeq
<1>5. Ranged(rp, live, f, c, Under(s, k + 1))
  OBVIOUS
<1> HIDE DEF k, t
<1>6. g \in [1 .. k + 1 -> Nat \ {0}] /\ g[k + 1] = c /\ \A i \in 1 .. k : g[i] = h[i]
  BY <1>2, <1>3
<1> HIDE DEF g
<1>7. g[1] = 1 /\ First(rp, a, r, t[1])
  <2>1. CASE s = <<>>
    BY <1>2, <1>3, <1>6, <2>1
  <2>2. CASE s # <<>>
    <3>1. 1 \in 1 .. k
      BY <1>3, <2>2
    <3> QED BY <1>2, <1>3, <1>6, <2>2, <3>1
  <2> QED BY <2>1, <2>2
<1>8. ASSUME NEW i \in 1 .. k PROVE g[i + 1] = g[i] + Made(t[i])
  <2>1. s # <<>>
    BY <1>3
  <2>2. CASE i = k
    BY <1>2, <1>3, <1>6, <2>1, <2>2
  <2>3. CASE i # k
    <3>1. i \in 1 .. k - 1 /\ i + 1 \in 1 .. k
      BY <1>3, <2>3
    <3> QED BY <1>2, <1>3, <1>6, <3>1
  <2> QED BY <2>2, <2>3
<1>9. ASSUME NEW i \in 1 .. k + 1 PROVE Ranged(rp, live, t[i], g[i], Under(t, i))
  <2>1. Under(t, i) = Under(s, i)
    <3>1. CASE i = 1
      BY <3>1 DEF Under
    <3>2. CASE i # 1
      <4>1. i - 1 \in 1 .. k
        BY <1>3, <3>2
      <4> QED BY <1>3, <4>1 DEF Under
    <3> QED BY <3>1, <3>2
  <2>2. CASE i = k + 1
    BY <1>3, <1>5, <1>6, <2>1, <2>2
  <2>3. CASE i # k + 1
    <3>1. i \in 1 .. k
      BY <1>3, <2>3
    <3> QED BY <1>2, <1>3, <1>6, <2>1, <3>1
  <2> QED BY <2>2, <2>3
<1>10. Made(f) \in {0, 1} /\ c + Made(f) \in Nat \ {0}
  BY <1>2 DEF Made
<1>11. Ranks(rp, a, live, r, t, g, c + Made(f))
  <2>1. Len(t) = k + 1 /\ Len(t) - 1 = k
    BY <1>3
  <2>2. c + Made(f) = g[Len(t)] + Made(t[Len(t)])
    BY <1>3, <1>6, <2>1
  <2> QED BY <1>3, <1>4, <1>6, <1>7, <1>8, <1>9, <1>10, <2>1, <2>2 DEF Ranks
<1> QED BY <1>11 DEF t, Ranked

\* The calls below the last one.
LEMMA RankBack ==
  ASSUME NEW rp, NEW a, NEW live, NEW r, NEW s, NEW n, Ranked(rp, a, live, r, s, n), s # <<>>,
         NEW live2, live2 => live
  PROVE  /\ n - Made(Last(s)) \in Nat \ {0} /\ IsSeq(s) /\ IsSeq(Front(s))
         /\ Ranged(rp, live, Last(s), n - Made(Last(s)), Under(s, Len(s)))
         /\ Under(Front(s), Len(Front(s)) + 1) = Under(s, Len(s))
         /\ Front(s) = <<>> <=> Len(s) = 1
         /\ Len(s) = 1 => n - Made(Last(s)) = 1 /\ First(rp, a, r, Last(s))
         /\ Ranked(rp, a, live2, r, Front(s), n - Made(Last(s)))
<1>1. PICK h : Ranks(rp, a, live, r, s, h, n)
  BY DEF Ranked
<1> DEFINE k == Len(s)
           t == Front(s)
           m == n - Made(Last(s))
<1>2. /\ IsSeq(s) /\ h \in [1 .. k -> Nat \ {0}] /\ n \in Nat \ {0}
      /\ h[1] = 1 /\ n = h[k] + Made(s[k])
      /\ \A i \in 1 .. k - 1 : h[i + 1] = h[i] + Made(s[i])
      /\ \A i \in 1 .. k : Ranged(rp, live, s[i], h[i], Under(s, i))
      /\ First(rp, a, r, s[1])
  BY <1>1 DEF Ranks
<1>3. /\ k \in Nat \ {0} /\ IsSeq(t) /\ Len(t) = k - 1
      /\ \A i \in 1 .. k - 1 : t[i] = s[i]
      /\ Last(s) = s[k]
  BY <1>2, Sequences
<1>4. t = <<>> <=> k = 1
  <2> HIDE DEF t, k
  <2> QED BY <1>3, EmptySeq, Sequences
<1> HIDE DEF k, t
<1>5. m = h[k] /\ m \in Nat \ {0} /\ k \in 1 .. k /\ Len(t) + 1 = k
  <2>1. Made(s[k]) \in {0, 1} /\ h[k] \in Nat \ {0}
    BY <1>2, <1>3 DEF Made
  <2> QED BY <1>2, <1>3, <2>1
<1> HIDE DEF m
<1>6. \A i \in 1 .. k : Under(t, i) = Under(s, i)
  <2> SUFFICES ASSUME NEW i \in 1 .. k PROVE Under(t, i) = Under(s, i)
    OBVIOUS
  <2>1. CASE i = 1
    BY <2>1 DEF Under
  <2>2. CASE i # 1
    <3>1. i - 1 \in 1 .. k - 1
      BY <1>3, <2>2
    <3> QED BY <1>3, <3>1 DEF Under
  <2> QED BY <2>1, <2>2
<1> DEFINE g == [i \in 1 .. k - 1 |-> h[i]]
<1>7. g \in [1 .. Len(t) -> Nat \ {0}] /\ \A i \in 1 .. k - 1 : g[i] = h[i] /\ i \in 1 .. k
  BY <1>2, <1>3
<1> HIDE DEF g
<1>8. IF t = <<>> THEN m = 1 ELSE g[1] = 1 /\ m = g[Len(t)] + Made(t[Len(t)])
  <2>1. CASE t = <<>>
    BY <1>2, <1>4, <1>5, <2>1
  <2>2. CASE t # <<>>
    <3>1. 1 \in 1 .. k - 1 /\ k - 1 \in 1 .. k - 1 /\ k - 1 + 1 = k
      BY <1>3, <1>4, <2>2
    <3>2. h[k - 1 + 1] = h[k - 1] + Made(s[k - 1])
      BY <1>2, <3>1
    <3> QED BY <1>2, <1>3, <1>5, <1>7, <2>2, <3>1, <3>2
  <2> QED BY <2>1, <2>2
<1>9. ASSUME NEW i \in 1 .. k - 1 - 1 PROVE g[i + 1] = g[i] + Made(t[i])
  <2>1. i \in 1 .. k - 1 /\ i + 1 \in 1 .. k - 1
    BY <1>3
  <2> QED BY <1>2, <1>3, <1>7, <2>1
<1>10. ASSUME NEW i \in 1 .. k - 1 PROVE Ranged(rp, live2, t[i], g[i], Under(t, i))
  <2>1. Ranged(rp, live, s[i], h[i], Under(s, i)) /\ t[i] = s[i] /\ g[i] = h[i] /\ Under(t, i) = Under(s, i)
    BY <1>2, <1>3, <1>6, <1>7
  <2> QED BY <2>1 DEF Ranged
<1>11. t # <<>> => First(rp, a, r, t[1])
  <2> HAVE t # <<>>
  <2>1. 1 \in 1 .. k - 1
    BY <1>3, <1>4
  <2> QED BY <1>2, <1>3, <2>1
<1>12. Ranks(rp, a, live2, r, t, g, m)
  BY <1>3, <1>5, <1>7, <1>8, <1>9, <1>10, <1>11 DEF Ranks
<1>13. Ranked(rp, a, live2, r, t, m)
  BY <1>12 DEF Ranked
<1>14. Ranged(rp, live, Last(s), m, Under(s, k)) /\ Under(t, k) = Under(s, k)
  BY <1>2, <1>3, <1>5, <1>6
<1>15. k = 1 => m = 1 /\ First(rp, a, r, Last(s))
  BY <1>2, <1>3, <1>5
<1> QED BY <1>2, <1>3, <1>4, <1>5, <1>13, <1>14, <1>15 DEF m, t, k


\* What a step of the call on top does with the scores: it gives one back, goes on, or calls
\* another.  U says that it was not called by quiesce.
U == Under(stack, Len(stack))
Level == root_ply + Seat - 1
Yields(score, line) ==
    ~stop' =>
        /\ -Lim(Level) <= score /\ (U => score <= Lim(Level))
        /\ Len(stack) = 1 /\ Playable(root_ply, asked, board[1]) => line # <<>>
Stays(f) ==
    /\ Ranged(root_ply, ~stop', f, Seat, U) /\ Len(board') = Seat + Made(f)
    /\ Len(stack) = 1 => First(root_ply, asked, board[1], f)
Starts(g, f) ==
    /\ g.at = "enter" /\ g.fn \in {"pv", "scout", "quiesce"} /\ Made(g) = 0
    /\ g.fn = "quiesce" => f.fn \notin Tree
Climbs ==
    \/ \E score, line : Return(score, line) /\ Yields(score, line) /\ Len(board') = Seat
    \/ \E f : Go(f) /\ Stays(f)
    \/ \E f, g : Call(f, g) /\ Stays(f) /\ Starts(g, f)

\* Such a step keeps every call in its range.
LEMMA RankedOn ==
  ASSUME Typed, Scored, stack # <<>>, OnBoard(board'), \A i \in 1 .. Seat : board'[i] = board[i],
         root_ply' = root_ply, asked' = asked, asked.fn = "pv", stop => stop', Climbs
  PROVE  /\ board' # <<>> => /\ Ranked(root_ply, asked, ~stop', board'[1], stack', Len(board'))
                             /\ Given(root_ply, asked, ~stop', board', stack', ret')
<1> DEFINE s == Front(stack)
           live == ~stop'
           n == board[1]
<1>1. /\ board # <<>> /\ IsSeq(board') /\ Len(board') \in Nat /\ Len(board) \in Nat
      /\ Seat \in 1 .. Len(board)
  BY Shapes, OnTop, Sequences DEF OnBoard
<1>2. board'[1] = n
  BY <1>1
<1>3. Ranked(root_ply, asked, ~stop, n, stack, Len(board))
  BY <1>1 DEF Scored
<1>4. /\ Seat \in Nat \ {0} /\ IsSeq(stack) /\ IsSeq(s)
      /\ Under(s, Len(s) + 1) = U
      /\ s = <<>> <=> Len(stack) = 1
      /\ Len(stack) = 1 => Seat = 1
      /\ Ranked(root_ply, asked, live, n, s, Seat)
  <2>1. live => ~stop
    OBVIOUS
  <2> HIDE DEF live, n
  <2> QED BY <1>3, <2>1, RankBack DEF Seat, Top, U
<1> HIDE DEF s, n
<1>5. ASSUME NEW score, NEW line, Return(score, line), Yields(score, line), Len(board') = Seat
      PROVE  /\ Ranked(root_ply, asked, live, board'[1], stack', Len(board'))
             /\ Given(root_ply, asked, live, board', stack', ret')
  <2>1. stack' = s /\ ret' = [score |-> score, line |-> line, given |-> TRUE]
    BY <1>5 DEF Return, s
  <2>2. Given(root_ply, asked, live, board', s, ret')
    BY <1>2, <1>4, <1>5, <2>1 DEF Given, Yields, Level, n
  <2> QED BY <1>2, <1>4, <1>5, <2>1, <2>2
<1>6. ASSUME NEW f, Stays(f)
      PROVE  Ranked(root_ply, asked, live, n, Append(s, f), Len(board'))
  <2>1. Ranged(root_ply, live, f, Seat, Under(s, Len(s) + 1)) /\ Len(board') = Seat + Made(f)
    BY <1>4, <1>6 DEF Stays
  <2>2. s = <<>> => First(root_ply, asked, n, f)
    BY <1>4, <1>6 DEF Stays, n
  <2> HIDE DEF live
  <2>3. Ranked(root_ply, asked, live, n, Append(s, f), Seat + Made(f))
    BY <1>4, <2>1, <2>2, RankOn
  <2> QED BY <2>1, <2>3
<1>7. ASSUME ret' = None PROVE Given(root_ply, asked, live, board', stack', ret')
  BY <1>7 DEF None, Given
<1>8. ASSUME NEW f, Go(f), Stays(f)
      PROVE  /\ Ranked(root_ply, asked, live, board'[1], stack', Len(board'))
             /\ Given(root_ply, asked, live, board', stack', ret')
  <2>1. stack' = Append(s, f) /\ ret' = None
    BY <1>8 DEF Go, s
  <2> QED BY <1>2, <1>6, <1>7, <1>8, <2>1
<1>9. ASSUME NEW f, NEW g, Call(f, g), Stays(f), Starts(g, f)
      PROVE  /\ Ranked(root_ply, asked, live, board'[1], stack', Len(board'))
             /\ Given(root_ply, asked, live, board', stack', ret')
  <2> DEFINE t == Append(s, f)
  <2>1. stack' = Append(t, g) /\ ret' = None
    <3>1. s \in Seq(Elements(s) \cup {f, g})
      BY <1>4, SeqMonotonic DEF IsSeq
    <3>2. s \o <<f, g>> = Append(Append(s, f), g)
      BY <3>1
    <3> QED BY <1>9, <3>2 DEF Call, s
  <2>2. Len(t) = Len(s) + 1 /\ t[Len(s) + 1] = f /\ Len(s) \in Nat /\ t # <<>>
    <3>1. Len(t) = Len(s) + 1 /\ t[Len(s) + 1] = f /\ Len(s) \in Nat
      BY <1>4, Sequences
    <3> HIDE DEF t
    <3>2. Len(t) # 0
      BY <3>1
    <3> QED BY <3>1, <3>2, EmptySeq
  <2>3. Ranked(root_ply, asked, live, n, t, Len(board'))
    BY <1>6, <1>9
  <2> HIDE DEF t, live
  <2>4. Under(t, Len(t) + 1) => f.fn \in Tree
    <3>1. Len(t) + 1 # 1 /\ Len(t) + 1 - 1 = Len(s) + 1
      BY <2>2
    <3> QED BY <2>2, <3>1 DEF Under
  <2>5. Ranged(root_ply, live, g, Len(board'), Under(t, Len(t) + 1))
    BY <1>9, <2>4 DEF Ranged, Starts, Tree
  <2>6. Ranked(root_ply, asked, live, n, Append(t, g), Len(board') + Made(g))
    BY <2>2, <2>3, <2>5, RankOn
  <2>7. Len(board') + Made(g) = Len(board')
    BY <1>1, <1>9 DEF Starts
  <2> QED BY <1>2, <1>7, <2>1, <2>6, <2>7
<1> QED BY <1>5, <1>8, <1>9 DEF Climbs

\* The call on top and what was brought to it.
LEMMA OnRank ==
  ASSUME Typed, Scored, InHistory, stack # <<>>, asked.fn = "pv"
  PROVE  /\ Ranged(root_ply, ~stop, Top, Seat, U) /\ Top.fn # "settle"
         /\ Level \in 0 .. TT!MAX_PLY /\ Level + 1 = root_ply + Seat
         /\ Made(Top) = 0 => ply = Level
         /\ Made(Top) = 1 => ply = Level + 1 /\ ply <= TT!MAX_PLY
         /\ Len(stack) = 1 => Seat = 1 /\ First(root_ply, asked, board[1], Top)
         /\ ret.given /\ ~stop => /\ -Lim(ply) <= ret.score
                                  /\ Top.fn \in Tree => ret.score <= Lim(ply)
<1>1. /\ board # <<>> /\ Len(board) \in Nat /\ Seat \in 1 .. Len(board) /\ Len(board) = Seat + Made(Top)
      /\ Made(Top) \in {0, 1} /\ root_ply \in Nat
  BY Shapes, OnTop DEF Typed
<1>2. /\ Ranked(root_ply, asked, ~stop, board[1], stack, Len(board))
      /\ Given(root_ply, asked, ~stop, board, stack, ret)
  BY <1>1 DEF Scored
<1>3. /\ Ranged(root_ply, ~stop, Top, Seat, U)
      /\ Len(stack) = 1 => Seat = 1 /\ First(root_ply, asked, board[1], Top)
  BY <1>2, RankBack DEF Seat, Top, U
<1>4. Top.fn # "settle"
  BY <1>3 DEF Ranged
<1>5. /\ Level \in 0 .. TT!MAX_PLY /\ Level + 1 = root_ply + Seat
      /\ Made(Top) = 0 => ply = Level
      /\ Made(Top) = 1 => ply = Level + 1 /\ ply <= TT!MAX_PLY
  BY <1>1 DEF Level, ply, height, InHistory, TT!MAX_PLY
<1>6. ASSUME ret.given, ~stop
      PROVE  -Lim(ply) <= ret.score /\ (Top.fn \in Tree => ret.score <= Lim(ply))
  <2>1. root_ply + Len(board) - 1 = ply
    BY <1>1 DEF ply, height
  <2>2. Top.fn \in Tree => Under(stack, Len(stack) + 1)
    <3>1. IsSeq(stack) /\ Len(stack) \in Nat /\ Top = stack[Len(stack)]
      BY Sequences DEF Typed, Placed, Top
    <3>2. Len(stack) + 1 - 1 = Len(stack)
      BY <3>1
    <3> QED BY <3>1, <3>2 DEF Under
  <2> QED BY <1>2, <1>6, <2>1, <2>2 DEF Given
<1> QED BY <1>3, <1>4, <1>5, <1>6

\* The scores a node may end with by itself lie within its range.
LEMMA OwnScores ==
  ASSUME Typed, Scored, InHistory, board # <<>>
  PROVE  /\ ply \in 0 .. TT!MAX_PLY
         /\ Held(here.eval, ply) /\ Held(terminal, ply) /\ Held(drawn_score, ply)
         /\ Held(probe_wdl.score, ply) /\ -TBWIN <= probe_wdl.score /\ probe_wdl.score # MIN_SCORE
         /\ ply < TT!MAX_PLY => Held(hit_eval, ply)
         /\ root_moves # {} => Held(root_score, ply)
<1>1. /\ Last(board) \in DOMAIN Game /\ ply \in Nat /\ here.eval \in Int /\ drawn_score \in Int
  BY Scores
<1>2. ply \in Nat /\ ply <= 512
  <2>1. Len(board) \in Nat /\ Len(board) > 0 /\ root_ply \in Nat
    BY Sequences DEF Typed, OnBoard
  <2> QED BY <2>1 DEF ply, height, InHistory, TT!MAX_PLY
<1>0. TBWIN = 32253 /\ MIN_SCORE = -32767 /\ TT!MATING_SCORE = 32766
  BY DEF TBWIN, MIN_SCORE, MAX_SCORE, TT!MIN_MATE_SCORE, TT!MATING_SCORE, TT!MAX_SCORE, TT!MAX_PLY
<1> DEFINE Within(score) == score \in Int /\ -32253 <= score /\ score <= 32253
<1>3. /\ -32253 <= here.eval /\ here.eval <= 32253 /\ here.dtz \in Nat /\ here.dtz <= 4095
      /\ contempt \in Int /\ 0 <= contempt /\ contempt <= 1000
  <2>1. here.eval \in Int /\ here.dtz \in Int /\ contempt \in Int
    BY <1>1, PositionsAssumption, TablesAssumption DEF here
  <2> QED BY <1>0, <1>1, <2>1, ScoresAssumption DEF here
<1>4. \A score \in Int : -32253 <= score /\ score <= 32253 => Held(score, ply)
  BY <1>0, <1>2 DEF Held, Lim
<1>5. -1000 <= drawn_score /\ drawn_score <= 1000
  BY <1>3 DEF drawn_score
<1>6. Held(here.eval, ply) /\ Held(drawn_score, ply)
  BY <1>1, <1>3, <1>4, <1>5
<1>7. Held(terminal, ply)
  <2>1. Held(-ply_to_mate_score(ply), ply)
    BY <1>2 DEF Held, Lim, ply_to_mate_score, TT!MATING_SCORE, TT!MAX_SCORE
  <2> QED BY <1>6, <2>1 DEF terminal
<1>8. \A w \in DOMAIN WdlBounds : Within(WdlScores[w])
  <2>1. \A w \in DOMAIN WdlBounds :
           w \in {"FAILED", "WIN", "LOSS", "CURSED_WIN", "BLESSED_LOSS", "DRAW"}
    BY DEF WdlBounds
  <2>2. /\ WdlScores["FAILED"] = 0 /\ WdlScores["WIN"] = TBWIN /\ WdlScores["LOSS"] = -TBWIN
        /\ WdlScores["CURSED_WIN"] = drawn_score + 2
        /\ WdlScores["BLESSED_LOSS"] = drawn_score - 2 /\ WdlScores["DRAW"] = drawn_score
    BY DEF WdlScores
  <2> QED BY <1>0, <1>1, <1>5, <2>1, <2>2
<1>9. here.wdl \in DOMAIN WdlBounds /\ "FAILED" \in DOMAIN WdlBounds
  <2>1. "FAILED" \in DOMAIN WdlBounds
    BY DEF WdlBounds
  <2> QED BY <1>1, <2>1, PositionsAssumption DEF here
<1>10. Within(probe_wdl.score)
  BY <1>8, <1>9 DEF probe_wdl, Wdl
<1>11. Held(probe_wdl.score, ply) /\ -TBWIN <= probe_wdl.score /\ probe_wdl.score # MIN_SCORE
  BY <1>0, <1>4, <1>10
<1>12. Held(root_score, ply)
  <2>1. Within(root_score)
    <3>1. CASE here.wdl = "WIN"
      <4>1. root_score = TBWIN - here.dtz
        BY <3>1 DEF root_score
      <4> QED BY <1>0, <1>3, <4>1
    <3>2. CASE here.wdl = "LOSS"
      <4>1. root_score = here.dtz - TBWIN
        BY <3>2 DEF root_score
      <4> QED BY <1>0, <1>3, <4>1
    <3>3. CASE here.wdl # "WIN" /\ here.wdl # "LOSS"
      <4>1. root_score = WdlScores[here.wdl]
        BY <3>3 DEF root_score
      <4> QED BY <1>8, <1>9, <4>1
    <3> QED BY <3>1, <3>2, <3>3
  <2> QED BY <1>4, <2>1
<1>13. ASSUME ply < TT!MAX_PLY PROVE Held(hit_eval, ply)
  <2>1. hash % Slots \in 0 .. Slots - 1
    BY <1>1, GameAssumption, TablesAssumption DEF hash
  <2>2. hit.score \in Int /\ Held(hit.score, 0)
    BY <2>1 DEF hit, TT!Index, Typed, InTable, Scored, Tabled
  <2>3. -32766 <= hit.score /\ hit.score <= 32766 /\ TT!MIN_MATE_SCORE = 32254
    BY <1>0, <2>2 DEF Held, Lim, TT!MIN_MATE_SCORE, TT!MAX_PLY
  <2> QED BY <1>0, <1>2, <2>2, <2>3 DEF Held, Lim, hit_eval, TT!eval_from_tt, TT!is_mating
<1> QED BY <1>2, <1>6, <1>7, <1>11, <1>12, <1>13 DEF TT!MAX_PLY

\* A node of the tree goes on with a best score in its range, or with one to come.
LEMMA NodeStays ==
  ASSUME Typed, Scored, InHistory, stack # <<>>, asked.fn = "pv", Top.fn \in Tree,
         NEW f, f.fn = Top.fn, f.at # "enter",
         f.fn = "pv" => f.at \notin {"null", "nulled", "probcut", "probed"},
         f.score_ub >= -TBWIN, IF f.best = MIN_SCORE THEN Pending(f) ELSE Held(f.best, Level),
         Len(board') = Seat + Made(f),
         Len(stack) = 1 /\ Playable(root_ply, asked, board[1]) /\ f.line = <<>> => f.best = MIN_SCORE
  PROVE  Stays(f)
<1>1. Level = root_ply + Seat - 1 /\ f.fn # "settle" /\ f.fn # "quiesce"
  BY DEF Level, Tree
<1>2. Ranged(root_ply, ~stop', f, Seat, U)
  BY <1>1 DEF Ranged
<1>3. Len(stack) = 1 => First(root_ply, asked, board[1], f)
  BY OnRank DEF First
<1> QED BY <1>2, <1>3 DEF Stays

\* It goes on with the best score it had.
LEMMA SameStays ==
  ASSUME Typed, Scored, InHistory, stack # <<>>, asked.fn = "pv", Top.fn \in Tree, Top.at # "enter",
         NEW f, f.fn = Top.fn, f.best = Top.best, f.score_ub = Top.score_ub, f.line = Top.line,
         f.at # "enter", f.fn = "pv" => f.at \notin {"null", "nulled", "probcut", "probed"},
         Top.best = MIN_SCORE /\ Pending(Top) => Pending(f), Len(board') = Seat + Made(f)
  PROVE  Stays(f)
<1>1. /\ Top.score_ub >= -TBWIN
      /\ IF Top.best = MIN_SCORE THEN Pending(Top) ELSE Held(Top.best, root_ply + Seat - 1)
  BY OnRank DEF Ranged
<1>2. Len(stack) = 1 /\ Playable(root_ply, asked, board[1]) /\ Top.line = <<>> => Top.best = MIN_SCORE
  BY OnRank DEF First
<1> QED BY <1>1, <1>2, NodeStays DEF Level

\* What a node of the tree brings.
LEMMA NodeYields ==
  ASSUME NEW score, NEW line, ~stop' => Held(score, Level),
         Len(stack) = 1 /\ Playable(root_ply, asked, board[1]) => line # <<>>
  PROVE  Yields(score, line)
BY DEF Yields, Held

\* A head that ends early is in its range; one that does not has a move, and an alpha below
\* the mate it may give.  A root that is searched does not.
LEMMA EarlyScores ==
  ASSUME Typed, Scored, InHistory, stack # <<>>, asked.fn = "pv", Top.fn \in Tree, Top.at = "enter"
  PROVE  /\ ply = Level /\ board # <<>>
         /\ EarlyScore(Top) # <<>> => Held(EarlyScore(Top)[1], ply)
         /\ EarlyScore(Top) = <<>> =>
              /\ here.moves # <<>> /\ Top.alpha < Lim(ply) /\ ply < TT!MAX_PLY
         /\ Len(stack) = 1 /\ Playable(root_ply, asked, board[1]) =>
              /\ EarlyScore(Top) = <<>> /\ Extended(Top) # 0 /\ Top.fn = "pv" /\ is_root
<1> DEFINE f == Top
           mate == ply_to_mate_score(ply)
           exits == << <<here.moves = <<>>, terminal>>,
                       <<here.draw /\ ~(f.fn = "pv" /\ is_root), drawn_score>>,
                       <<mate <= f.alpha, mate>>, <<-mate >= f.beta, -mate>>,
                       <<ply >= TT!MAX_PLY, here.eval>> >>
<1>1. EarlyScore(f) = FirstOf(exits)
  BY DEF EarlyScore
<1>2. /\ board # <<>> /\ f.alpha \in Int /\ f.beta \in Int /\ Made(f) = 0
      /\ ply = Level /\ Last(board) = board[Len(board)] /\ Len(board) = Seat + Made(f)
      /\ Seat \in 1 .. Len(board) /\ Len(board) \in Nat
  <2>1. Made(f) = 0
    BY DEF Made, Out
  <2> QED BY <2>1, OnTop, OnRank, Shapes
<1>3. ply \in Nat /\ ply <= 512 /\ TT!MAX_PLY = 512 /\ mate = Lim(ply) /\ mate \in Int
  <2>1. ply \in 0 .. TT!MAX_PLY
    BY <1>2, OwnScores
  <2> QED BY <2>1 DEF TT!MAX_PLY, ply_to_mate_score, Lim, TT!MATING_SCORE, TT!MAX_SCORE
<1>4. Held(mate, ply) /\ Held(-mate, ply)
  BY <1>3 DEF Held, Lim, TT!MATING_SCORE, TT!MAX_SCORE
<1>5. Held(terminal, ply) /\ Held(drawn_score, ply) /\ Held(here.eval, ply)
  BY <1>2, OwnScores
<1> HIDE DEF mate, f
<1>6. DOMAIN exits = 1 .. 5
  OBVIOUS
<1>7. /\ exits[1][1] <=> here.moves = <<>>
      /\ exits[2][1] <=> here.draw /\ ~(f.fn = "pv" /\ is_root)
      /\ exits[3][1] <=> mate <= f.alpha
      /\ exits[4][1] <=> -mate >= f.beta
      /\ exits[5][1] <=> ply >= TT!MAX_PLY
  OBVIOUS
<1>8. /\ exits[1][2] = terminal /\ exits[2][2] = drawn_score /\ exits[3][2] = mate
      /\ exits[4][2] = -mate /\ exits[5][2] = here.eval
  OBVIOUS
<1> HIDE DEF exits
<1>9. DOMAIN exits \subseteq Nat
  BY <1>6
<1>10. /\ FirstOf(exits) = <<>> => \A i \in 1 .. 5 : ~exits[i][1]
       /\ FirstOf(exits) # <<>> => \E i \in 1 .. 5 : exits[i][1] /\ FirstOf(exits)[1] = exits[i][2]
  BY <1>6, <1>9, FirstExit
<1>11. \A i \in 1 .. 5 : Held(exits[i][2], ply)
  BY <1>4, <1>5, <1>8
<1>12. FirstOf(exits) # <<>> => Held(FirstOf(exits)[1], ply)
  BY <1>10, <1>11
<1>13. FirstOf(exits) = <<>> => here.moves # <<>> /\ f.alpha < Lim(ply) /\ ply < TT!MAX_PLY
  <2> HAVE FirstOf(exits) = <<>>
  <2>1. ~exits[1][1] /\ ~exits[3][1] /\ ~exits[5][1]
    BY <1>10
  <2>2. here.moves # <<>> /\ ~(mate <= f.alpha) /\ ~(ply >= TT!MAX_PLY)
    BY <1>7, <2>1, Zenon
  <2> QED BY <1>2, <1>3, <2>2
<1>14. ASSUME Len(stack) = 1, Playable(root_ply, asked, board[1])
       PROVE  FirstOf(exits) = <<>> /\ Extended(f) # 0 /\ f.fn = "pv" /\ is_root
  <2>1. /\ Seat = 1 /\ f.fn = "pv" /\ f.depth = asked.depth /\ f.alpha = asked.alpha /\ f.beta = asked.beta
    BY <1>14, OnRank DEF First, f
  <2>2. Len(board) = 1 /\ is_root /\ ply = root_ply /\ Last(board) = board[1]
    <3>1. Len(board) = 1
      BY <1>2, <2>1
    <3>2. height = 0 /\ root_ply \in Nat
      BY <3>1 DEF height, Typed
    <3>3. Last(board) = board[1]
      BY <1>2, <3>1
    <3>4. root_ply + height = root_ply
      BY <3>2
    <3> QED BY <3>1, <3>2, <3>3, <3>4, Zenon DEF is_root, ply
  <2>3. ~exits[1][1] /\ ~exits[2][1] /\ ~exits[3][1] /\ ~exits[4][1] /\ ~exits[5][1]
    <3>1. /\ here.moves # <<>> /\ root_ply < TT!MAX_PLY
          /\ asked.alpha < Lim(root_ply) /\ -Lim(root_ply) < asked.beta
      BY <1>14, <2>2 DEF Playable, here
    <3>2. ply < TT!MAX_PLY /\ f.alpha < mate /\ -mate < f.beta
      BY <1>3, <2>1, <2>2, <3>1
    <3>3. ~(ply >= TT!MAX_PLY) /\ ~(mate <= f.alpha) /\ ~(-mate >= f.beta)
      BY <1>2, <1>3, <3>2
    <3> QED BY <1>7, <2>1, <2>2, <3>1, <3>3, Zenon
  <2>4. \A i \in 1 .. 5 : ~exits[i][1]
    BY <2>3
  <2>5. Extended(f) # 0
    <3>1. f.depth \in 0 .. MAX_DEPTH - 2
      <4>1. Seated(f, Home)
        BY OnTop DEF f
      <4>2. f.at = "enter" /\ f.fn \in Tree
        BY DEF f
      <4> QED BY <4>1, <4>2 DEF Seated, Sound, Ready, Tree
    <3>2. f.depth > 0 \/ here.check
      BY <1>14, <2>1, <2>2 DEF Playable, here
    <3> QED BY <3>1, <3>2 DEF Extended
  <2> QED BY <1>10, <2>1, <2>2, <2>4, <2>5
<1> QED BY <1>1, <1>2, <1>12, <1>13, <1>14 DEF f

\* The calls a node of the tree makes are of the tree, and have nothing out.
Unborn(g) == g.at = "enter" /\ g.fn \in {"pv", "scout"} /\ Made(g) = 0

LEMMA Newborn ==
  /\ \A fn \in {"pv", "scout"} : \A d, a, b, t, z : Unborn(Frame(fn, d, a, b, t, z))
  /\ \A f : Unborn(PvChild(f)) /\ Unborn(FullChild(f))
  /\ \A f, d : Unborn(ScoutChild(f, d))
<1>1. ASSUME NEW fn \in {"pv", "scout"}, NEW d, NEW a, NEW b, NEW t, NEW z
      PROVE  Unborn(Frame(fn, d, a, b, t, z))
  BY Beginning DEF Unborn
<1>2. ASSUME NEW f PROVE Unborn(PvChild(f))
  BY <1>1 DEF PvChild
<1>3. ASSUME NEW f, NEW d PROVE Unborn(ScoutChild(f, d))
  BY <1>1 DEF ScoutChild
<1>4. ASSUME NEW f PROVE Unborn(FullChild(f))
  <2>1. FullChild(f) = PvChild(f) \/ FullChild(f) = ScoutChild(f, f.depth - 1)
    BY DEF FullChild
  <2> QED BY <1>2, <1>3, <2>1
<1> QED BY <1>1, <1>2, <1>3, <1>4

\* A node begins its work with no score, or with a lower bound of the tablebase.
LEMMA WorkBest ==
  ASSUME Typed, board # <<>>, NEW f, Fields \subseteq DOMAIN f
  PROVE  LET w == Working(f)
         IN /\ Fields \subseteq DOMAIN w /\ w.fn = f.fn /\ w.line = f.line /\ w.beta = f.beta /\ w.counter = f.counter
            /\ w.hash_move = HashPlace /\ w.left = DOMAIN here.moves \ {HashPlace}
            /\ w.best = MIN_SCORE \/ (w.best = probe_wdl.score /\ ~(f.fn = "pv" /\ is_root))
            /\ w.score_ub \in {MAX_SCORE, probe_wdl.score}
<1> DEFINE answer == IF f.fn = "pv" /\ is_root THEN NoAnswer ELSE probe_wdl
           low == IF answer.bound = "LOWER" THEN answer.score ELSE MIN_SCORE
           place == HashPlace
           g == Bounded(f, answer, low)
<1>1. NoAnswer.bound = "NONE"
  BY DEF NoAnswer
<1>2. low = MIN_SCORE \/ (low = probe_wdl.score /\ ~(f.fn = "pv" /\ is_root))
  BY <1>1
<1>3. answer.bound = "UPPER" => answer.score = probe_wdl.score
  BY <1>1
<1>4. /\ Fields \subseteq DOMAIN g /\ g.fn = f.fn /\ g.line = f.line /\ g.beta = f.beta /\ g.best = low
      /\ g.score_ub = (IF answer.bound = "UPPER" THEN answer.score ELSE MAX_SCORE)
      /\ g.counter = f.counter
  <2> HIDE DEF answer, low
  <2> QED BY DEF Bounded, Fields
<1>5. Working(f) = Untaken(g, place)
  BY DEF Working, Answered
<1> HIDE DEF g, place, low, answer
<1> DEFINE w == Untaken(g, place)
<1>6. /\ Fields \subseteq DOMAIN w /\ w.fn = g.fn /\ w.line = g.line /\ w.beta = g.beta /\ w.best = low
      /\ w.score_ub = g.score_ub /\ w.counter = g.counter
      /\ w.hash_move = place /\ w.left = DOMAIN here.moves \ {place}
  BY <1>4 DEF Untaken, Fields
<1> HIDE DEF w
<1>7. /\ Fields \subseteq DOMAIN w /\ w.fn = f.fn /\ w.line = f.line /\ w.beta = f.beta /\ w.counter = f.counter
      /\ w.hash_move = HashPlace /\ w.left = DOMAIN here.moves \ {HashPlace}
      /\ w.best = MIN_SCORE \/ (w.best = probe_wdl.score /\ ~(f.fn = "pv" /\ is_root))
      /\ w.score_ub \in {MAX_SCORE, probe_wdl.score}
  BY <1>2, <1>3, <1>4, <1>6 DEF place
<1> QED BY <1>5, <1>7 DEF w

\* The margin of a node that is given up lies above zero, so its score is in its range.
LEMMA FutileHeld ==
  ASSUME Typed, Scored, InHistory, stack # <<>>, asked.fn = "pv", Top.fn \in Tree, Top.at = "enter",
         Stage(Top) = "work", Futile(Working(Top))
  PROVE  Held(here.eval - reverse_futility_margins[Working(Top).depth], ply)
<1> DEFINE f == Top
           w == Working(f)
           margin == reverse_futility_margins[w.depth]
<1>1. board # <<>> /\ f.beta \in Int /\ Seated(f, Last(board)) /\ Fields \subseteq DOMAIN f
  <2>1. Made(Top) = 0
    BY DEF Made, Out
  <2> QED BY <2>1, OnTop
<1>2. here.eval \in Int /\ ply \in Nat /\ Held(here.eval, ply)
  BY <1>1, Scores, OwnScores
<1>3. ~(-ply_to_mate_score(ply) >= f.beta)
  <2>1. EarlyScore(f) = <<>>
    BY DEF Stage
  <2> QED BY <1>1, <2>1, Heads
<1>4. w.beta = f.beta
  BY <1>1, WorkBest
<1>5. w.depth \in 1 .. MAX_DEPTH - 1
  BY <1>1, SetToWork
<1>6. w.depth <= 3 /\ here.eval - margin >= w.beta
  BY DEF Futile, rfp_max_depth
<1>7. margin \in Int /\ margin >= 0
  <2> DEFINE d == w.depth
  <2>1. d \in Int /\ 1 <= d /\ d <= 3
    <3> HIDE DEF w
    <3> QED BY <1>5, <1>6
  <2> HIDE DEF d
  <2>2. d = 1 \/ d = 2 \/ d = 3
    BY <2>1
  <2>3. /\ reverse_futility_margins[1] = 325 /\ reverse_futility_margins[2] = 550
        /\ reverse_futility_margins[3] = 800
    BY DEF reverse_futility_margins
  <2>4. reverse_futility_margins[d] \in Int /\ reverse_futility_margins[d] >= 0
    BY <2>2, <2>3
  <2> QED BY <2>4 DEF d
<1> HIDE DEF margin, w, f
<1>8. -Lim(ply) < f.beta /\ Lim(ply) \in Int
  BY <1>1, <1>2, <1>3 DEF ply_to_mate_score, Lim, TT!MATING_SCORE, TT!MAX_SCORE
<1>9. Held(here.eval - margin, ply)
  BY <1>1, <1>2, <1>4, <1>6, <1>7, <1>8 DEF Held
<1> QED BY <1>9 DEF margin, w, f

\* The upper bound of the tablebase takes no score out of its range.
LEMMA Capped ==
  ASSUME Typed, Scored, InHistory, stack # <<>>, asked.fn = "pv",
         NEW score \in Int, NEW top \in Int, Held(score, Level), top >= -TBWIN
  PROVE  Min({score, top}) \in Int /\ Held(Min({score, top}), Level)
<1>1. Min({score, top}) = IF score <= top THEN score ELSE top
  BY Extremes
<1>2. Level \in 0 .. TT!MAX_PLY /\ TT!MAX_PLY = 512
  BY OnRank DEF TT!MAX_PLY
<1>3. TBWIN = 32253 /\ TT!MATING_SCORE = 32766
  BY DEF TBWIN, TT!MIN_MATE_SCORE, TT!MATING_SCORE, TT!MAX_SCORE, TT!MAX_PLY
<1> QED BY <1>1, <1>2, <1>3 DEF Held, Lim

\* The steps of a node of the tree that leave the board alone keep the scores in range.
LEMMA TreeLooksHeld ==
  ASSUME Typed, Scored, InHistory, stack # <<>>, asked.fn = "pv", Top.fn \in Tree,
         board' = board, stop => stop',
         \/ EndAtRoot \/ EndEarly \/ EndInQuiesce \/ EndInTable \/ Work \/ NoNullMove
         \/ Probcut \/ AfterProbcut \/ NoHashMove \/ PruneMove \/ TryAgain
         \/ EndInTablebase \/ Done \/ (StopItself /\ stop')
  PROVE  Climbs
<1> DEFINE Played1 == Len(stack) = 1 /\ Playable(root_ply, asked, board[1])
<1>1. /\ Home \in DOMAIN Game /\ Fields \subseteq DOMAIN Top /\ Seated(Top, Home) /\ board # <<>>
      /\ Made(Top) = 0 => Home = Last(board) /\ here = Game[Home]
  BY OnTop
<1>2. /\ Len(board') = Seat + Made(Top) /\ Seat + 0 = Seat
      /\ Made(Top) = 0 => ply = Level
      /\ ret.given /\ ~stop => -Lim(ply) <= ret.score /\ ret.score <= Lim(ply)
  BY Shapes, OnRank
<1>3. /\ Top.fn = "pv" => Top.at \notin {"null", "nulled", "probcut", "probed"}
      /\ Top.at # "enter" => /\ Top.score_ub >= -TBWIN
                             /\ IF Top.best = MIN_SCORE THEN Pending(Top) ELSE Held(Top.best, Level)
      /\ Played1 => Top.fn = "pv" /\ (Top.at # "enter" /\ Top.line = <<>> => Top.best = MIN_SCORE)
  BY OnRank DEF Ranged, First, Level
<1>4. ASSUME NEW score, NEW line, Return(score, line), Made(Top) = 0, ~stop' => Held(score, Level),
             Played1 => line # <<>>
      PROVE  Climbs
  BY <1>2, <1>4, NodeYields DEF Climbs
\* The call on top at another place.
<1>5. ASSUME NEW p, NEW f, f = [Top EXCEPT !.at = p], p # "enter", Top.at # "enter",
             Made(f) = Made(Top), Top.fn = "pv" => p \notin {"null", "nulled", "probcut", "probed"},
             Top.best = MIN_SCORE /\ Pending(Top) => Pending(f)
      PROVE  Stays(f)
  <2>1. /\ f.fn = Top.fn /\ f.best = Top.best /\ f.score_ub = Top.score_ub /\ f.line = Top.line /\ f.at = p
    <3> DEFINE e == Top
    <3>1. Fields \subseteq DOMAIN e /\ f = [e EXCEPT !.at = p]
      BY <1>1, <1>5
    <3> HIDE DEF e
    <3>2. f.fn = e.fn /\ f.best = e.best /\ f.score_ub = e.score_ub /\ f.line = e.line /\ f.at = p
      BY <3>1 DEF Fields
    <3> QED BY <3>2 DEF e
  <2> QED BY <1>2, <1>5, <2>1, SameStays
<1>6. \A place : Enter(place) => Made(Top) = 0 /\ Top.at = "enter" /\ Stage(Top) = place
  BY DEF Enter, At, Made, Out
<1>7. \A place \in {"null", "probcut", "hash", "loop"} : At(place) => Made(Top) = 0 /\ Top.at = place
  BY DEF At, Made, Out
<1>8. Top.at = "enter" =>
         /\ ply = Level
         /\ EarlyScore(Top) # <<>> => Held(EarlyScore(Top)[1], ply)
         /\ EarlyScore(Top) = <<>> =>
              /\ here.moves # <<>> /\ Top.alpha < Lim(ply) /\ ply < TT!MAX_PLY
         /\ Played1 => EarlyScore(Top) = <<>> /\ Extended(Top) # 0 /\ Top.fn = "pv" /\ is_root
  BY EarlyScores
<1>9. /\ root_moves # {} => Held(root_score, ply)
      /\ ply < TT!MAX_PLY => Held(hit_eval, ply)
      /\ Held(probe_wdl.score, ply) /\ -TBWIN <= probe_wdl.score /\ probe_wdl.score # MIN_SCORE
      /\ ply \in 0 .. TT!MAX_PLY
  BY <1>1, OwnScores
<1>10. CASE EndAtRoot
  <2>1. PICK i \in root_moves : Return(root_score, <<here.moves[i].to>>)
    BY <1>10 DEF EndAtRoot
  <2>2. Made(Top) = 0 /\ <<here.moves[i].to>> # <<>>
    BY <1>6, <1>10 DEF EndAtRoot
  <2> QED BY <1>2, <1>4, <1>9, <2>1, <2>2
<1>11. CASE EndEarly
  <2>1. /\ Made(Top) = 0 /\ Top.at = "enter" /\ Return(EarlyScore(Top)[1], <<>>)
        /\ EarlyScore(Top) # <<>>
    BY <1>6, <1>11 DEF EndEarly, Stage
  <2> QED BY <1>4, <1>8, <2>1
<1>12. CASE EndInTable
  <2>1. Made(Top) = 0 /\ Top.at = "enter" /\ Return(hit_eval, <<>>) /\ Top.fn = "scout" /\ EarlyScore(Top) = <<>>
    BY <1>6, <1>12 DEF EndInTable, Stage
  <2> QED BY <1>3, <1>4, <1>8, <1>9, <2>1
<1>13. CASE EndInTablebase
  <2>1. Made(Top) = 0 /\ Top.at = "enter" /\ Return(probe_wdl.score, <<>>) /\ ~(Top.fn = "pv" /\ is_root)
    BY <1>6, <1>13 DEF EndInTablebase, Stage
  <2> QED BY <1>4, <1>8, <1>9, <2>1
<1>14. CASE StopItself /\ stop'
  <2>1. Return(MAX_SCORE, <<>>) /\ Made(Top) = 0
    BY <1>6, <1>14 DEF StopItself
  <2>2. Yields(MAX_SCORE, <<>>)
    BY <1>14 DEF Yields
  <2> QED BY <1>2, <2>1, <2>2 DEF Climbs
<1>15. CASE EndInQuiesce
  <2> DEFINE f == Frame("quiesce", 0, Top.alpha, Top.beta, "NONE", FALSE)
  <2>0. Enter("leaf") /\ Go(f) /\ Stage(Top) = "leaf"
    BY <1>6, <1>15 DEF EndInQuiesce
  <2>1. Made(Top) = 0 /\ Top.at = "enter" /\ Go(f) /\ EarlyScore(Top) = <<>> /\ Extended(Top) = 0
    BY <1>6, <2>0 DEF Stage
  <2>2. f.fn = "quiesce" /\ f.at = "enter" /\ f.alpha = Top.alpha /\ Made(f) = 0
    BY DEF Frame, Made, Out
  <2> HIDE DEF f
  <2>3. Top.alpha <= Lim(Level)
    <3>1. Top.alpha \in Int /\ Lim(ply) \in Int
      BY <1>9, OnTop DEF Lim, TT!MATING_SCORE, TT!MAX_SCORE
    <3> QED BY <1>8, <2>1, <3>1
  <2>4. Ranged(root_ply, ~stop', f, Seat, U)
    BY <2>2, <2>3 DEF Ranged, Level, Tree
  <2>5. ~Played1
    BY <1>8, <2>1
  <2>6. Len(stack) = 1 => First(root_ply, asked, board[1], f)
    BY <2>5 DEF First
  <2>7. Len(board') = Seat + Made(f)
    BY <1>2, <2>1, <2>2
  <2> QED BY <2>1, <2>4, <2>6, <2>7 DEF Climbs, Stays
<1>16. CASE Work
  <2> DEFINE w == Working(Top)
  <2>1. /\ Made(Top) = 0 /\ Top.at = "enter" /\ Start(w) /\ Stage(Top) = "work" /\ EarlyScore(Top) = <<>>
    BY <1>6, <1>16 DEF Work, Stage
  <2>2. /\ Fields \subseteq DOMAIN w /\ w.fn = Top.fn /\ w.line = Top.line /\ w.counter = Top.counter
        /\ w.hash_move = HashPlace /\ w.left = DOMAIN here.moves \ {HashPlace}
        /\ w.best = MIN_SCORE \/ (w.best = probe_wdl.score /\ ~(Top.fn = "pv" /\ is_root))
        /\ w.score_ub \in {MAX_SCORE, probe_wdl.score}
    BY <1>1, WorkBest
  <2>3. CASE Futile(w)
    <3>1. Return(here.eval - reverse_futility_margins[w.depth], <<>>)
      BY <2>1, <2>3 DEF Start
    <3>2. Held(here.eval - reverse_futility_margins[w.depth], Level)
      BY <1>8, <2>1, <2>3, FutileHeld
    <3>3. Top.fn = "scout"
      BY <2>2, <2>3 DEF Futile
    <3> QED BY <1>3, <1>4, <2>1, <3>1, <3>2, <3>3
  <2>4. CASE ~Futile(w)
    <3> HIDE DEF w
    <3> DEFINE p == IF w.fn = "pv" THEN "hash" ELSE "null"
               f == [w EXCEPT !.at = p]
    <3>1. /\ Go(f) /\ f.fn = w.fn /\ f.line = w.line /\ f.at = p /\ f.best = w.best
          /\ f.score_ub = w.score_ub /\ f.hash_move = w.hash_move /\ f.left = w.left
      BY <2>1, <2>2, <2>4 DEF Fields, Start
    <3>2. p \in {"hash", "null"} /\ (w.fn = "pv" => p = "hash")
      OBVIOUS
    <3> HIDE DEF f, p
    <3>3. Made(f) = 0
      BY <3>1, <3>2 DEF Made, Out
    <3>4. Pending(f)
      <4>1. 1 \in DOMAIN here.moves
        BY <1>1, <1>8, <2>1, MovesAssumption
      <4>2. f.hash_move = 0 => 1 \in f.left
        BY <2>2, <3>1, <4>1
      <4> QED BY <3>1, <3>2, <4>2 DEF Pending
    <3>5. f.score_ub >= -TBWIN
      <4>1. MAX_SCORE >= -TBWIN
        BY DEF MAX_SCORE, TBWIN, TT!MIN_MATE_SCORE, TT!MATING_SCORE, TT!MAX_SCORE, TT!MAX_PLY
      <4>2. TBWIN \in Int /\ probe_wdl.score \in Int
        BY <1>1, Scores DEF TBWIN, TT!MIN_MATE_SCORE, TT!MATING_SCORE, TT!MAX_SCORE, TT!MAX_PLY
      <4>3. probe_wdl.score >= -TBWIN
        BY <1>9, <4>2
      <4> QED BY <2>2, <3>1, <4>1, <4>3
    <3>6. IF f.best = MIN_SCORE THEN Pending(f) ELSE Held(f.best, Level)
      BY <1>8, <1>9, <2>1, <2>2, <3>1, <3>4
    <3>7. Played1 /\ f.line = <<>> => f.best = MIN_SCORE
      BY <1>8, <2>1, <2>2, <3>1
    <3>8. Stays(f)
      BY <1>2, <2>1, <2>2, <3>1, <3>2, <3>3, <3>5, <3>6, <3>7, NodeStays
    <3> QED BY <3>1, <3>8 DEF Climbs
  <2> QED BY <2>3, <2>4
<1>17. CASE NoNullMove \/ NoHashMove \/ AfterProbcut
  <2>0. \A f, p : f.at = p => /\ p \in {"probcut", "probed", "hash", "loop"} => Made(f) = 0
    BY DEF Made, Out
  <2>1. /\ Made(Top) = 0 /\ Top.at \in {"null", "probed", "hash"}
        /\ Top.at = "hash" => Top.hash_move = 0
        /\ \/ Go([Top EXCEPT !.at = "probcut"]) /\ Top.at = "null"
           \/ Go([Top EXCEPT !.at = "loop"]) /\ Top.at = "hash"
           \/ Go([Top EXCEPT !.at = "hash"]) /\ Top.at = "probed"
           \/ Return(ret.score, <<>>) /\ ret.given /\ Top.at = "probed"
    BY <1>7, <1>17 DEF NoNullMove, NoHashMove, AfterProbcut, Back, Made, Out
  <2>2. CASE Return(ret.score, <<>>) /\ ret.given /\ Top.at = "probed"
    <3>1. ~stop' => Held(ret.score, Level)
      BY <1>2, <2>1, <2>2 DEF Held
    <3> QED BY <1>3, <1>4, <2>1, <2>2, <3>1
  <2>3. ASSUME NEW p \in {"probcut", "hash", "loop"}, Go([Top EXCEPT !.at = p]),
               p = "loop" => Top.at = "hash", p = "probcut" => Top.at = "null"
        PROVE  Climbs
    <3> DEFINE e == Top
               f == [e EXCEPT !.at = p]
    <3>1. Fields \subseteq DOMAIN e
      BY <1>1
    <3>2. f.at = p /\ f.left = e.left /\ f.hash_move = e.hash_move /\ f.counter = e.counter
      <4> HIDE DEF e
      <4> QED BY <3>1 DEF Fields
    <3>3. Go(f) /\ f = [Top EXCEPT !.at = p] /\ Made(f) = 0
      BY <2>0, <2>3, <3>2
    <3> HIDE DEF f
    <3>4. Pending(Top) => Pending(f)
      <4>1. CASE p = "loop"
        <5>1. Top.counter = 0
          BY <1>1, <2>3, <4>1 DEF Seated, Begun
        <5> QED BY <2>1, <2>3, <3>2, <4>1, <5>1 DEF Pending
      <4>2. CASE p # "loop"
        BY <2>1, <2>3, <3>2, <4>2 DEF Pending
      <4> QED BY <4>1, <4>2
    <3>5. Top.fn = "pv" => p \notin {"null", "nulled", "probcut", "probed"}
      BY <1>3, <2>3
    <3>6. p # "enter" /\ Top.at # "enter"
      BY <2>1
    <3>7. Stays(f)
      BY <1>5, <2>1, <3>3, <3>4, <3>5, <3>6
    <3> QED BY <3>3, <3>7 DEF Climbs
  <2>4. CASE Go([Top EXCEPT !.at = "probcut"]) /\ Top.at = "null"
    BY <2>3, <2>4
  <2>5. CASE Go([Top EXCEPT !.at = "loop"]) /\ Top.at = "hash"
    BY <2>3, <2>5
  <2>6. CASE Go([Top EXCEPT !.at = "hash"]) /\ Top.at = "probed"
    BY <2>3, <2>6
  <2> QED BY <2>1, <2>2, <2>4, <2>5, <2>6
<1>18. CASE Probcut
  <2> DEFINE threshold == Top.beta + probcut_margin
             d == Top.depth - probcut_depth_reduction
             g == Frame("scout", d, threshold - 1, threshold, Top.type, Top.allow_null)
             e == Top
             f == [e EXCEPT !.at = "probed"]
  <2>1. Made(Top) = 0 /\ Top.at = "probcut" /\ (Call(f, g) \/ Go([Top EXCEPT !.at = "hash"]))
    BY <1>7, <1>18 DEF Probcut
  <2>2. Fields \subseteq DOMAIN e
    BY <1>1
  <2>3. f.at = "probed" /\ f.left = e.left /\ f.hash_move = e.hash_move
    <3> HIDE DEF e
    <3> QED BY <2>2 DEF Fields
  <2>4. f = [Top EXCEPT !.at = "probed"] /\ Made(f) = 0
    BY <2>3 DEF Made, Out
  <2>5. g.at = "enter" /\ g.fn = "scout" /\ Made(g) = 0
    BY Beginning
  <2> HIDE DEF f, g
  <2>6. Stays(f)
    <3>1. Pending(Top) => Pending(f)
      BY <2>1, <2>3 DEF Pending
    <3>2. Top.fn # "pv"
      BY <1>3, <2>1
    <3> QED BY <1>5, <2>1, <2>4, <3>1, <3>2
  <2>7. Starts(g, f)
    BY <2>5 DEF Starts
  <2>8. CASE Call(f, g)
    BY <2>6, <2>7, <2>8 DEF Climbs
  <2>9. CASE Go([Top EXCEPT !.at = "hash"])
    <3> DEFINE h == [e EXCEPT !.at = "hash"]
    <3>1. h.at = "hash" /\ h.left = e.left /\ h.hash_move = e.hash_move
      <4> HIDE DEF e
      <4> QED BY <2>2 DEF Fields
    <3>2. Go(h) /\ h = [Top EXCEPT !.at = "hash"] /\ Made(h) = 0
      BY <2>9, <3>1 DEF Made, Out
    <3> HIDE DEF h
    <3>3. Pending(Top) => Pending(h)
      BY <2>1, <3>1 DEF Pending
    <3>4. Stays(h)
      BY <1>5, <2>1, <3>2, <3>3
    <3> QED BY <3>2, <3>4 DEF Climbs
  <2> QED BY <2>1, <2>8, <2>9
<1>19. CASE PruneMove
  <2> DEFINE e == Top
             f == Counted(e)
  <2>1. Made(Top) = 0 /\ Go(f) /\ Top.at = "loop" /\ Pruned(f, here.moves[f.move]) /\ Top.left # {}
    BY <1>7, <1>19 DEF PruneMove
  <2>2. Fields \subseteq DOMAIN e
    BY <1>1
  <2>3. /\ f.fn = e.fn /\ f.at = e.at /\ f.best = e.best /\ f.score_ub = e.score_ub /\ f.line = e.line
        /\ f.counter = e.counter + 1
    <3> HIDE DEF e
    <3> QED BY <2>2 DEF Counted, Fields
  <2> HIDE DEF f
  <2>4. f.fn = "scout" /\ f.counter > 1
    <3>1. f.counter \in Nat
      BY <1>1, <2>3 DEF Seated
    <3> QED BY <2>1, <3>1 DEF Pruned
  <2>5. Top.counter # 0
    BY <2>3, <2>4
  <2>6. ~Pending(Top)
    BY <2>1, <2>5 DEF Pending
  <2>7. Made(f) = 0
    BY <2>1, <2>3 DEF Made, Out
  <2>8. Stays(f)
    BY <1>2, <2>1, <2>3, <2>4, <2>6, <2>7, SameStays
  <2> QED BY <2>1, <2>8 DEF Climbs
<1>20. CASE TryAgain
  <2> DEFINE f == [Top EXCEPT !.at = "searched"]
             g == FullChild(Top)
  <2>1. Top.at = "tried" /\ Made(Top) = 1 /\ Call(f, g)
    BY <1>20 DEF TryAgain, Back, Made, Out
  <2>2. f.at = "searched"
    <3> DEFINE e == Top
    <3>1. Fields \subseteq DOMAIN e
      BY <1>1
    <3> HIDE DEF e
    <3>2. [e EXCEPT !.at = "searched"].at = "searched"
      BY <3>1 DEF Fields
    <3> QED BY <3>2 DEF e
  <2>3. g.at = "enter" /\ g.fn \in {"pv", "scout"} /\ Made(g) = 0
    BY Newborn DEF Unborn
  <2>4. f = [Top EXCEPT !.at = "searched"]
    OBVIOUS
  <2> HIDE DEF f, g
  <2>5. Made(f) = 1 /\ Pending(f)
    BY <2>2 DEF Made, Out, Pending
  <2>6. Stays(f)
    BY <1>5, <2>1, <2>4, <2>5
  <2>7. Starts(g, f)
    BY <2>3 DEF Starts
  <2> QED BY <2>1, <2>6, <2>7 DEF Climbs
<1>21. CASE Done
  <2> DEFINE best == Min({Top.best, Top.score_ub})
  <2>1. Made(Top) = 0 /\ Top.at = "loop" /\ Top.left = {}
    BY <1>7, <1>21 DEF Done
  <2>2. Top.best # MIN_SCORE /\ Held(Top.best, Level)
    BY <1>3, <2>1 DEF Pending
  <2>3. \/ Top.fn = "pv" /\ Top.line = <<>> /\ Return(Top.best, <<>>)
        \/ ~(Top.fn = "pv" /\ Top.line = <<>>) /\ Return(best, LineOf(Top))
    BY <1>21 DEF Done
  <2>4. Played1 => Top.line # <<>> /\ Top.fn = "pv"
    BY <1>3, <2>1, <2>2
  <2>5. Held(best, Level)
    <3>1. Top.best \in Int /\ Top.score_ub \in Int
      BY OnTop
    <3>2. Top.score_ub >= -TBWIN
      BY <1>3, <2>1
    <3> QED BY <2>2, <3>1, <3>2, Capped
  <2> HIDE DEF best
  <2> QED BY <1>4, <2>1, <2>2, <2>3, <2>4, <2>5 DEF LineOf
<1> QED BY <1>10, <1>11, <1>12, <1>13, <1>14, <1>15, <1>16, <1>17, <1>18, <1>19, <1>20, <1>21

\* What a move brought lies in the range of the node it was made from.
LEMMA BroughtHeld ==
  ASSUME Typed, Scored, InHistory, stack # <<>>, asked.fn = "pv", Top.fn \in Tree, Made(Top) = 1,
         ret.given, ~stop
  PROVE  /\ Held(-ret.score, Level) /\ -ret.score > MIN_SCORE /\ -ret.score \in Int
         /\ \A best \in Int : best = MIN_SCORE \/ Held(best, Level) =>
              Held(Max({best, -ret.score}), Level) /\ Max({best, -ret.score}) # MIN_SCORE
<1>1. /\ Level \in Int /\ 0 <= Level /\ ply = Level + 1 /\ ply <= 512
      /\ -Lim(ply) <= ret.score /\ ret.score <= Lim(ply) /\ ret.score \in Int
  <2>1. TT!MAX_PLY = 512
    BY DEF TT!MAX_PLY
  <2>2. /\ Level \in 0 .. TT!MAX_PLY /\ ply = Level + 1 /\ ply <= TT!MAX_PLY
        /\ -Lim(ply) <= ret.score /\ ret.score <= Lim(ply)
    BY OnRank
  <2> QED BY <2>1, <2>2 DEF Typed
<1>2. MIN_SCORE = -32767 /\ TT!MATING_SCORE = 32766
  BY DEF MIN_SCORE, MAX_SCORE, TT!MATING_SCORE, TT!MAX_SCORE
<1>3. Held(-ret.score, Level) /\ -ret.score > MIN_SCORE /\ -ret.score \in Int
  BY <1>1, <1>2 DEF Held, Lim
<1>4. ASSUME NEW best \in Int, best = MIN_SCORE \/ Held(best, Level)
      PROVE  Held(Max({best, -ret.score}), Level) /\ Max({best, -ret.score}) # MIN_SCORE
  <2>1. Max({best, -ret.score}) = IF best >= -ret.score THEN best ELSE -ret.score
    BY <1>3, Extremes
  <2>2. CASE best >= -ret.score
    <3>1. best # MIN_SCORE
      BY <1>2, <1>3, <2>2
    <3> QED BY <1>4, <2>1, <2>2, <3>1
  <2>3. CASE ~(best >= -ret.score)
    <3>1. -ret.score # MIN_SCORE
      BY <1>2, <1>3
    <3> QED BY <1>3, <2>1, <2>3, <3>1
  <2> QED BY <2>2, <2>3
<1> QED BY <1>3, <1>4

\* A node that knows what a move brought has a line.
LEMMA ImprovedLine ==
  ASSUME Typed, Trail, stack # <<>>, ret.given, NEW score
  PROVE  LET f == Raised(Improved(Top, score))
         IN /\ Fields \subseteq DOMAIN f /\ f.fn = Top.fn /\ f.at = "loop" /\ f.best = score
            /\ f.score_ub = Top.score_ub /\ f.line # <<>>
<1> DEFINE e == Top
           l == Append(ret.line, made.to)
           i == Improved(e, score)
           f == Raised(i)
<1>1. Fields \subseteq DOMAIN e
  BY OnTop
<1>2. l # <<>>
  <2>1. IsSeq(ret.line)
    BY OnTrail DEF Leads
  <2>2. Len(l) = Len(ret.line) + 1 /\ Len(ret.line) \in Nat
    BY <2>1, Sequences
  <2> HIDE DEF l
  <2>3. Len(l) # 0
    BY <2>2
  <2> QED BY <2>3, EmptySeq
<1>3. i = [e EXCEPT !.at = "loop", !.best = score, !.best_move = made.name, !.line = l]
  BY DEF Improved
<1> HIDE DEF e, l, i
<1>4. Fields \subseteq DOMAIN i /\ i.fn = e.fn /\ i.line = l /\ i.best = score /\ i.score_ub = e.score_ub
  BY <1>1, <1>3 DEF Fields
<1>5. /\ Fields \subseteq DOMAIN f /\ f.at = "loop" /\ f.fn = e.fn /\ f.line = l /\ f.best = score
      /\ f.score_ub = e.score_ub
  BY <1>4 DEF Raised, Fields
<1> HIDE DEF f
<1>6. /\ Fields \subseteq DOMAIN f /\ f.fn = e.fn /\ f.at = "loop" /\ f.best = score
      /\ f.score_ub = e.score_ub /\ f.line # <<>>
  BY <1>2, <1>5
<1> QED BY <1>6 DEF f, i, e

\* What the hash move brought, and what is made of it if nothing was stopped.
HashFrame ==
    LET pv == Top.fn = "pv"
        score == IF pv THEN Max({Top.best, -ret.score}) ELSE -ret.score
    IN [Raised(Improved(Top, score)) EXCEPT !.counter = IF pv THEN 1 ELSE 0]

LEMMA HashHeld ==
  ASSUME Typed, Trail, Scored, InHistory, stack # <<>>, asked.fn = "pv", AfterHashMove
  PROVE  LET f == HashFrame
             best == Min({f.best, f.score_ub})
         IN /\ f.at = "loop" /\ f.fn = Top.fn /\ f.line # <<>> /\ f.score_ub = Top.score_ub
            /\ ~stop => /\ f.best # MIN_SCORE /\ Held(f.best, Level)
                        /\ best \in Int /\ Held(best, Level)
<1> DEFINE score == IF Top.fn = "pv" THEN Max({Top.best, -ret.score}) ELSE -ret.score
           k == IF Top.fn = "pv" THEN 1 ELSE 0
           r == Raised(Improved(Top, score))
           f == [r EXCEPT !.counter = k]
           best == Min({f.best, f.score_ub})
<1>1. Top.at = "hashed" /\ Made(Top) = 1 /\ ret.given /\ Top.fn \in Tree
  <2>1. Top.at = "hashed" /\ Made(Top) = 1 /\ ret.given
    BY DEF AfterHashMove, Back, Made, Out
  <2> QED BY <2>1, OnTop
<1>2. /\ Top.best \in Int /\ Top.score_ub \in Int
      /\ Top.score_ub >= -TBWIN
      /\ IF Top.best = MIN_SCORE THEN Pending(Top) ELSE Held(Top.best, Level)
  BY <1>1, OnTop, OnRank DEF Ranged, Level
<1>3. /\ Fields \subseteq DOMAIN r /\ r.fn = Top.fn /\ r.at = "loop" /\ r.best = score
      /\ r.score_ub = Top.score_ub /\ r.line # <<>>
  BY <1>1, ImprovedLine
<1>4. ~stop => Held(score, Level) /\ score # MIN_SCORE /\ score \in Int
  <2> HAVE ~stop
  <2>1. /\ Held(-ret.score, Level) /\ -ret.score > MIN_SCORE /\ -ret.score \in Int
        /\ Top.best = MIN_SCORE \/ Held(Top.best, Level) =>
            Held(Max({Top.best, -ret.score}), Level) /\ Max({Top.best, -ret.score}) # MIN_SCORE
    BY <1>1, <1>2, BroughtHeld
  <2>2. Top.best = MIN_SCORE \/ Held(Top.best, Level)
    BY <1>2
  <2>3. Max({Top.best, -ret.score}) \in Int
    BY <1>2, <2>1, Extremes
  <2>4. MIN_SCORE \in Int
    BY DEF MIN_SCORE, MAX_SCORE, TT!MAX_SCORE
  <2> QED BY <2>1, <2>2, <2>3, <2>4
<1>5. HashFrame = f
  BY DEF HashFrame
<1> HIDE DEF r, k, score
<1>6. /\ f.at = "loop" /\ f.fn = Top.fn /\ f.line # <<>> /\ f.best = score /\ f.score_ub = Top.score_ub
  BY <1>3 DEF Fields
<1> HIDE DEF f
<1>7. ~stop => best \in Int /\ Held(best, Level)
  BY <1>2, <1>4, <1>6, Capped
<1> HIDE DEF best
<1>8. ~stop => f.best # MIN_SCORE /\ Held(f.best, Level)
  BY <1>4, <1>6
<1>9. /\ f.at = "loop" /\ f.fn = Top.fn /\ f.line # <<>> /\ f.score_ub = Top.score_ub
      /\ ~stop => f.best # MIN_SCORE /\ Held(f.best, Level) /\ best \in Int /\ Held(best, Level)
  BY <1>6, <1>7, <1>8
<1> QED BY <1>5, <1>9 DEF best

\* The steps of a node of the tree that make a move or take one back keep the scores in range.
LEMMA TreePlaysHeld ==
  ASSUME Typed, Trail, Scored, InHistory, stack # <<>>, asked.fn = "pv", Top.fn \in Tree, stop' = stop,
         NullMove \/ AfterNullMove \/ HashMove \/ AfterHashMove \/ TryMove \/ AfterMove
  PROVE  Climbs
<1> DEFINE Played1 == Len(stack) = 1 /\ Playable(root_ply, asked, board[1])
<1>1. /\ Home \in DOMAIN Game /\ Fields \subseteq DOMAIN Top /\ Seated(Top, Home)
      /\ Top.best \in Int /\ Top.score_ub \in Int
  BY OnTop
<1>2. /\ \A n : board' = Append(board, n) /\ Made(Top) = 0 => Len(board') = Seat + 1
      /\ board' = Front(board) /\ Made(Top) = 1 => Len(board') = Seat
      /\ Seat + 0 = Seat
  BY Shapes
<1>3. /\ Top.fn = "pv" => Top.at \notin {"null", "nulled", "probcut", "probed"}
      /\ Top.at # "enter" => /\ Top.score_ub >= -TBWIN
                             /\ IF Top.best = MIN_SCORE THEN Pending(Top) ELSE Held(Top.best, Level)
      /\ Played1 => Top.fn = "pv" /\ (Top.at # "enter" /\ Top.line = <<>> => Top.best = MIN_SCORE)
  BY OnRank DEF Ranged, First, Level
<1>4. ASSUME NEW score, NEW line, Made(Top) = 1, Return(score, line), Yields(score, line), Unmake
      PROVE  Climbs
  BY <1>2, <1>4 DEF Climbs, Unmake
<1>5. ASSUME NEW f, Made(Top) = 1, Go(f), f.at = "loop", f.fn = Top.fn, f.score_ub = Top.score_ub,
             Top.at # "enter", f.best # MIN_SCORE, Held(f.best, Level), Played1 => f.line # <<>>, Unmake
      PROVE  Climbs
  <2>1. Made(f) = 0
    BY <1>5 DEF Made, Out
  <2>2. Len(board') = Seat + Made(f)
    BY <1>2, <1>5, <2>1 DEF Unmake
  <2>3. Stays(f)
    BY <1>3, <1>5, <2>2, NodeStays
  <2> QED BY <1>5, <2>3 DEF Climbs
<1>6. ASSUME NEW f, NEW g, NEW n, Made(Top) = 0, Call(f, g), board' = Append(board, n), Unborn(g),
             f.at \in {"hashed", "tried", "searched"} \/ (f.at = "nulled" /\ Top.at = "null"),
             Top.at # "enter", f.fn = Top.fn, f.best = Top.best, f.score_ub = Top.score_ub,
             f.line = Top.line, Top.best = MIN_SCORE /\ Pending(Top) => Pending(f)
      PROVE  Climbs
  <2>1. Made(f) = 1 /\ f.at # "enter"
    BY <1>6 DEF Made, Out
  <2>2. Len(board') = Seat + Made(f)
    BY <1>2, <1>6, <2>1
  <2>3. f.fn = "pv" => f.at \notin {"null", "nulled", "probcut", "probed"}
    BY <1>3, <1>6
  <2>4. Stays(f)
    BY <1>6, <2>1, <2>2, <2>3, SameStays
  <2>5. Starts(g, f)
    BY <1>6 DEF Starts, Unborn
  <2> QED BY <1>6, <2>4, <2>5 DEF Climbs
<1>7. \A place \in {"null", "hash", "loop"} : At(place) => Made(Top) = 0 /\ Top.at = place
  BY DEF At, Made, Out
<1>8. \A places \in SUBSET {"nulled", "hashed", "tried", "searched"} :
         Back(places) => Made(Top) = 1 /\ Top.at \in places /\ ret.given
  BY DEF Back, Made, Out
<1>9. \A f : f.at \in {"hashed", "tried", "searched"} => Pending(f)
  BY DEF Pending
<1>10. CASE NullMove
  <2> DEFINE e == Top
             f == [e EXCEPT !.at = "nulled"]
             g == Frame("scout", Top.depth - 1 - null_move_depth_reduction, -Top.beta, 1 - Top.beta, "CUT", FALSE)
  <2>1. Made(Top) = 0 /\ Top.at = "null" /\ Call(f, g) /\ board' = Append(board, here.passed)
    BY <1>7, <1>10 DEF NullMove
  <2>2. Unborn(g)
    BY Newborn
  <2>3. Fields \subseteq DOMAIN e
    BY <1>1
  <2>4. /\ f.at = "nulled" /\ f.fn = e.fn /\ f.best = e.best /\ f.score_ub = e.score_ub
        /\ f.line = e.line /\ f.left = e.left /\ f.hash_move = e.hash_move
    <3> HIDE DEF e
    <3> QED BY <2>3 DEF Fields
  <2> HIDE DEF f, g
  <2>5. Pending(Top) => Pending(f)
    BY <2>1, <2>4 DEF Pending
  <2> QED BY <1>6, <2>1, <2>2, <2>4, <2>5
<1>11. CASE AfterNullMove
  <2> DEFINE e == Top
             f == [e EXCEPT !.at = "probcut"]
  <2>1. /\ Made(Top) = 1 /\ Top.at = "nulled" /\ ret.given /\ Unmake
        /\ Return(-ret.score, <<>>) \/ Go(f)
    BY <1>8, <1>11 DEF AfterNullMove
  <2>2. CASE Return(-ret.score, <<>>)
    <3>1. ~stop' => Held(-ret.score, Level)
      BY <2>1, BroughtHeld
    <3>2. Yields(-ret.score, <<>>)
      BY <1>3, <2>1, <3>1, NodeYields
    <3> QED BY <1>4, <2>1, <2>2, <3>2
  <2>3. CASE Go(f)
    <3>1. Fields \subseteq DOMAIN e
      BY <1>1
    <3>2. /\ f.at = "probcut" /\ f.fn = e.fn /\ f.best = e.best /\ f.score_ub = e.score_ub
          /\ f.line = e.line /\ f.left = e.left /\ f.hash_move = e.hash_move
      <4> HIDE DEF e
      <4> QED BY <3>1 DEF Fields
    <3> HIDE DEF f
    <3>3. Made(f) = 0 /\ (Pending(Top) => Pending(f)) /\ Top.fn # "pv"
      BY <1>3, <2>1, <3>2 DEF Made, Out, Pending
    <3>4. Len(board') = Seat + Made(f)
      BY <1>2, <2>1, <3>3 DEF Unmake
    <3>5. Stays(f)
      BY <2>1, <3>2, <3>3, <3>4, SameStays
    <3> QED BY <2>3, <3>5 DEF Climbs
  <2> QED BY <2>1, <2>2, <2>3
<1>12. CASE HashMove
  <2> DEFINE e == Top
             k == Top.hash_move
             f == [e EXCEPT !.at = "hashed", !.move = k]
             n == here.moves[k].to
  <2>1. /\ Made(Top) = 0 /\ Top.at = "hash" /\ Call(f, FullChild(Top)) /\ board' = Append(board, n)
    BY <1>7, <1>12 DEF HashMove, MakeMove
  <2>2. Fields \subseteq DOMAIN e
    BY <1>1
  <2>3. /\ f.at = "hashed" /\ f.fn = e.fn /\ f.best = e.best /\ f.score_ub = e.score_ub /\ f.line = e.line
    <3> HIDE DEF e, k
    <3> QED BY <2>2 DEF Fields
  <2> HIDE DEF f, n
  <2> QED BY <1>6, <1>9, <2>1, <2>3, Newborn
<1>13. CASE TryMove
  <2> DEFINE e == Top
             c == Counted(e)
             m == here.moves[c.move]
             d == Clamp(SearchDepth(c, m), c.depth - 1)
             q == Frame("scout", c.depth - 1, -c.alpha - 1, -c.alpha, "CUT", TRUE)
  <2>1. /\ Made(Top) = 0 /\ Top.at = "loop"
        /\ \/ Call([c EXCEPT !.at = "searched"], PvChild(c))
           \/ Call([c EXCEPT !.at = "tried"], q)
           \/ Call([c EXCEPT !.at = "tried", !.search_depth = d], ScoutChild(c, d))
        /\ board' = Append(board, here.moves[c.move].to)
    BY <1>7, <1>13 DEF TryMove, MakeMove
  <2>2. Fields \subseteq DOMAIN e
    BY <1>1
  <2>3. /\ Fields \subseteq DOMAIN c /\ c.fn = e.fn /\ c.best = e.best /\ c.score_ub = e.score_ub
        /\ c.line = e.line
    <3> HIDE DEF e
    <3> QED BY <2>2 DEF Counted, Fields
  <2>4. Unborn(q) /\ Unborn(PvChild(c)) /\ Unborn(ScoutChild(c, d))
    <3> HIDE DEF c, d
    <3> QED BY Newborn
  <2> HIDE DEF c, d, q
  <2>5. ASSUME NEW f, NEW g, Unborn(g), Call(f, g), f.at \in {"tried", "searched"}, f.fn = c.fn,
               f.best = c.best, f.score_ub = c.score_ub, f.line = c.line
        PROVE  Climbs
    BY <1>6, <1>9, <2>1, <2>3, <2>5
  <2>6. \A p \in {"tried", "searched"} :
           LET f == [c EXCEPT !.at = p]
           IN f.at = p /\ f.fn = c.fn /\ f.best = c.best /\ f.score_ub = c.score_ub /\ f.line = c.line
    BY <2>3 DEF Fields
  <2>7. LET f == [c EXCEPT !.at = "tried", !.search_depth = d]
        IN f.at = "tried" /\ f.fn = c.fn /\ f.best = c.best /\ f.score_ub = c.score_ub /\ f.line = c.line
    BY <2>3 DEF Fields
  <2>8. CASE Call([c EXCEPT !.at = "searched"], PvChild(c))
    BY <2>4, <2>5, <2>6, <2>8
  <2>9. CASE Call([c EXCEPT !.at = "tried"], q)
    BY <2>4, <2>5, <2>6, <2>9
  <2>10. CASE Call([c EXCEPT !.at = "tried", !.search_depth = d], ScoutChild(c, d))
    BY <2>4, <2>5, <2>7, <2>10
  <2> QED BY <2>1, <2>8, <2>9, <2>10
<1>14. CASE AfterHashMove
  <2> DEFINE f == HashFrame
             best == Min({f.best, f.score_ub})
  <2>1. Top.at = "hashed" /\ Made(Top) = 1 /\ Unmake
    BY <1>8, <1>14 DEF AfterHashMove
  <2>2. \/ stop /\ Return(MAX_SCORE, <<>>)
        \/ ~stop /\ (Return(best, LineOf(f)) \/ Go(f))
    BY <1>14 DEF AfterHashMove, HashFrame
  <2>3. /\ f.at = "loop" /\ f.fn = Top.fn /\ f.line # <<>> /\ f.score_ub = Top.score_ub
        /\ ~stop => f.best # MIN_SCORE /\ Held(f.best, Level) /\ Held(best, Level)
    BY <1>14, HashHeld
  <2> HIDE DEF f, best
  <2>4. CASE stop /\ Return(MAX_SCORE, <<>>)
    <3>1. Yields(MAX_SCORE, <<>>)
      BY <2>4 DEF Yields
    <3> QED BY <1>4, <2>1, <2>4, <3>1
  <2>5. CASE ~stop /\ Return(best, LineOf(f))
    <3>1. Played1 => LineOf(f) # <<>>
      BY <1>3, <2>3 DEF LineOf
    <3>2. Yields(best, LineOf(f))
      BY <2>3, <2>5, <3>1, NodeYields
    <3> QED BY <1>4, <2>1, <2>5, <3>2
  <2>6. CASE ~stop /\ Go(f)
    BY <1>5, <2>1, <2>3, <2>6
  <2> QED BY <2>2, <2>4, <2>5, <2>6
<1>15. CASE AfterMove
  <2> DEFINE better == -ret.score > Top.best
             r == Raised(IF better THEN Improved(Top, -ret.score) ELSE Top)
             f == [r EXCEPT !.left = IF Cut(r) THEN {} ELSE @]
  <2>1. /\ Top.at \in {"tried", "searched"} /\ Made(Top) = 1 /\ ret.given /\ Unmake
        /\ (stop /\ Return(MAX_SCORE, <<>>)) \/ (~stop /\ Go(f))
    BY <1>8, <1>15 DEF AfterMove, LeaveBoard, Stopped
  <2>2. CASE stop /\ Return(MAX_SCORE, <<>>)
    <3>1. Yields(MAX_SCORE, <<>>)
      BY <2>2 DEF Yields
    <3> QED BY <1>4, <2>1, <2>2, <3>1
  <2>3. CASE ~stop /\ Go(f)
    <3>1. Held(-ret.score, Level) /\ -ret.score > MIN_SCORE /\ -ret.score \in Int /\ MIN_SCORE \in Int
      BY <2>1, <2>3, BroughtHeld DEF MIN_SCORE, MAX_SCORE, TT!MAX_SCORE
    <3>2. /\ Fields \subseteq DOMAIN r /\ r.fn = Top.fn /\ r.at = "loop" /\ r.score_ub = Top.score_ub
          /\ r.best # MIN_SCORE /\ Held(r.best, Level) /\ (Played1 => r.line # <<>>)
      <4>1. CASE better
        <5>1. r = Raised(Improved(Top, -ret.score))
          BY <4>1
        <5> HIDE DEF r
        <5>2. /\ Fields \subseteq DOMAIN r /\ r.fn = Top.fn /\ r.at = "loop" /\ r.best = -ret.score
              /\ r.score_ub = Top.score_ub /\ r.line # <<>>
          BY <2>1, <5>1, ImprovedLine
        <5> QED BY <3>1, <5>2
      <4>2. CASE ~better
        <5> DEFINE e == Top
        <5>1. r = Raised(e) /\ Fields \subseteq DOMAIN e
          BY <1>1, <4>2
        <5>2. Top.best # MIN_SCORE
          BY <1>1, <3>1, <4>2
        <5>3. Held(Top.best, Level) /\ (Played1 => Top.line # <<>>)
          BY <1>3, <2>1, <5>2
        <5> HIDE DEF r, e
        <5>4. /\ Fields \subseteq DOMAIN r /\ r.fn = e.fn /\ r.at = "loop" /\ r.best = e.best
              /\ r.score_ub = e.score_ub /\ r.line = e.line
          BY <5>1 DEF Raised, Fields
        <5> QED BY <5>2, <5>3, <5>4 DEF e
      <4> QED BY <4>1, <4>2
    <3> HIDE DEF r, better
    <3>3. /\ f.at = "loop" /\ f.fn = r.fn /\ f.line = r.line /\ f.best = r.best /\ f.score_ub = r.score_ub
      BY <3>2 DEF Fields
    <3> HIDE DEF f
    <3> QED BY <1>5, <2>1, <2>3, <3>2, <3>3
  <2> QED BY <2>1, <2>2, <2>3
<1> QED BY <1>10, <1>11, <1>12, <1>13, <1>14, <1>15

\* quiesce ends early in its range.
LEMMA QuietScoresHeld ==
  ASSUME Typed, Scored, InHistory, board # <<>>, NEW f, QuiesceScore(f, here) # <<>>
  PROVE  Held(QuiesceScore(f, here)[1], ply)
<1> DEFINE p == here
           exits == << <<p.check /\ p.moves = <<>>, terminal>>,
                       <<p.draw, drawn_score>>,
                       <<~p.check /\ p.eval >= f.beta, p.eval>>,
                       <<p.eval + 900 + (IF p.seventh THEN 500 ELSE 0) <= Max({f.alpha, p.eval}), p.eval>>,
                       <<~p.check /\ \A i \in DOMAIN p.moves : ~IsCapture(p.moves[i]), p.eval>> >>
<1>1. QuiesceScore(f, here) = FirstOf(exits)
  BY DEF QuiesceScore
<1>2. DOMAIN exits = 1 .. 5
  OBVIOUS
<1>3. exits[1][2] = terminal /\ exits[2][2] = drawn_score /\ \A i \in 3 .. 5 : exits[i][2] = p.eval
  OBVIOUS
<1> HIDE DEF exits, p
<1>4. \A i \in 1 .. 5 : Held(exits[i][2], ply)
  BY <1>3, OwnScores DEF p
<1>5. DOMAIN exits \subseteq Nat
  BY <1>2
<1>6. \E i \in 1 .. 5 : FirstOf(exits)[1] = exits[i][2]
  BY <1>1, <1>2, <1>5, FirstExit
<1> QED BY <1>1, <1>4, <1>6

\* The steps of quiesce keep its alpha in range, from the score it stands on.
LEMMA QuietStepsHeld ==
  ASSUME Typed, Scored, InHistory, stack # <<>>, asked.fn = "pv", Top.fn \notin Tree, stop' = stop,
         \/ (QuiesceEnter \/ QuiesceSkip \/ QuiesceDone) /\ board' = board
         \/ QuiesceMove \/ AfterQuiesceMove
  PROVE  Climbs
<1>1. /\ Home \in DOMAIN Game /\ Fields \subseteq DOMAIN Top /\ board # <<>>
      /\ Top.alpha \in Int /\ Top.beta \in Int
  BY OnTop
<1>2. /\ \A n : board' = Append(board, n) /\ Made(Top) = 0 => Len(board') = Seat + 1
      /\ board' = Front(board) /\ Made(Top) = 1 => Len(board') = Seat
      /\ board' = board => Len(board') = Seat + Made(Top)
      /\ Seat + 0 = Seat
  BY Shapes
<1>3. /\ Made(Top) = 0 => ply = Level
      /\ Made(Top) = 1 => ply = Level + 1
      /\ Level \in Nat /\ Level <= 512
      /\ ret.given /\ ~stop => -Lim(ply) <= ret.score
      /\ ret.score \in Int
  <2>1. Level \in 0 .. TT!MAX_PLY /\ TT!MAX_PLY = 512
    BY OnRank DEF TT!MAX_PLY
  <2> QED BY <2>1, OnRank DEF Typed
<1>4. Top.fn = "quiesce"
  <2>1. Seated(Top, Home)
    BY OnTop
  <2>2. Top.fn \in {"pv", "scout", "quiesce", "settle"}
    BY <2>1 DEF Seated, Sound
  <2> QED BY <2>2, OnRank DEF Tree
<1>5. ~stop => /\ U => Top.alpha <= Lim(Level)
               /\ Top.at # "enter" => -Lim(Level) <= Top.alpha
  BY <1>4, OnRank DEF Ranged, Level
<1>6. ~(Len(stack) = 1 /\ Playable(root_ply, asked, board[1]))
  BY <1>4, OnRank DEF First
<1>7. /\ here.eval \in Int /\ Held(here.eval, ply)
      /\ Lim(Level) \in Int /\ Lim(ply) \in Int /\ Level \in Int
      /\ QuiesceScore(Top, here) # <<>> => Held(QuiesceScore(Top, here)[1], ply)
  <2>1. ply \in Nat
    BY <1>1, Scores
  <2> QED BY <1>1, <1>3, <2>1, Scores, OwnScores, QuietScoresHeld DEF Lim, TT!MATING_SCORE, TT!MAX_SCORE
\* It goes on with an alpha in its range.
<1>8. ASSUME NEW f, f.fn = Top.fn, f.at # "enter", Len(board') = Seat + Made(f),
             ~stop => (U => f.alpha <= Lim(Level)) /\ -Lim(Level) <= f.alpha
      PROVE  Stays(f)
  <2>1. Ranged(root_ply, ~stop', f, Seat, U)
    BY <1>4, <1>8 DEF Ranged, Level, Tree
  <2>2. Len(stack) = 1 => First(root_ply, asked, board[1], f)
    BY <1>6 DEF First
  <2> QED BY <1>8, <2>1, <2>2 DEF Stays
<1>9. ASSUME NEW score, NEW line, Return(score, line), Len(board') = Seat,
             ~stop => (U => score <= Lim(Level)) /\ -Lim(Level) <= score
      PROVE  Climbs
  <2>1. Yields(score, line)
    BY <1>6, <1>9 DEF Yields
  <2> QED BY <1>9, <2>1 DEF Climbs
<1>10. \A place \in {"enter", "loop"} : At(place) => Made(Top) = 0 /\ Top.at = place
  BY DEF At, Made, Out
<1>11. CASE QuiesceEnter /\ board' = board
  <2> DEFINE early == QuiesceScore(Top, here)
             l == {i \in DOMAIN here.moves : here.check \/ IsCapture(here.moves[i])}
             e == Top
             alpha == Max({e.alpha, here.eval})
             f == [e EXCEPT !.at = "loop", !.alpha = alpha, !.left = l]
  <2>1. Made(Top) = 0 /\ Len(board') = Seat /\ ply = Level
    BY <1>2, <1>3, <1>10, <1>11 DEF QuiesceEnter
  <2>2. IF early # <<>> THEN Return(early[1], <<>>) ELSE Go(f)
    BY <1>11 DEF QuiesceEnter, QuiesceStart
  <2>3. CASE early # <<>>
    <3>1. -Lim(Level) <= early[1] /\ early[1] <= Lim(Level)
      BY <1>7, <2>1, <2>3 DEF Held
    <3> QED BY <1>9, <2>1, <2>2, <2>3, <3>1
  <2>4. CASE early = <<>>
    <3>1. alpha = IF e.alpha >= here.eval THEN e.alpha ELSE here.eval
      BY <1>1, <1>7, Extremes
    <3>2. Fields \subseteq DOMAIN e
      BY <1>1
    <3>3. ~stop => (U => alpha <= Lim(Level)) /\ -Lim(Level) <= alpha
      <4>1. -Lim(Level) <= here.eval /\ here.eval <= Lim(Level)
        BY <1>7, <2>1 DEF Held
      <4> HIDE DEF alpha
      <4> QED BY <1>1, <1>5, <1>7, <3>1, <4>1
    <3> HIDE DEF alpha, l
    <3>4. f.fn = e.fn /\ f.at = "loop" /\ f.alpha = alpha
      <4> HIDE DEF e
      <4> QED BY <3>2 DEF Fields
    <3>5. Go(f)
      BY <2>2, <2>4 DEF alpha, l
    <3> HIDE DEF f
    <3>6. Made(f) = 0
      BY <3>4 DEF Made, Out
    <3>7. Len(board') = Seat + Made(f)
      BY <1>2, <2>1, <3>6
    <3>8. Stays(f)
      BY <1>8, <3>3, <3>4, <3>7
    <3> QED BY <3>5, <3>8 DEF Climbs
  <2> QED BY <2>3, <2>4
<1>12. CASE QuiesceSkip /\ board' = board
  <2> DEFINE e == Top
             l == Untried(Top)
             f == [e EXCEPT !.left = l]
  <2>1. Made(Top) = 0 /\ Top.at = "loop" /\ Len(board') = Seat /\ Go(f)
    BY <1>2, <1>10, <1>12 DEF QuiesceSkip
  <2>2. Fields \subseteq DOMAIN e
    BY <1>1
  <2>3. f.fn = e.fn /\ f.at = e.at /\ f.alpha = e.alpha
    <3> HIDE DEF e, l
    <3> QED BY <2>2 DEF Fields
  <2> HIDE DEF f
  <2>4. Made(f) = 0
    BY <2>1, <2>3 DEF Made, Out
  <2>5. Len(board') = Seat + Made(f)
    BY <1>2, <2>1, <2>4
  <2>6. Stays(f)
    BY <1>5, <1>8, <2>1, <2>3, <2>5
  <2> QED BY <2>1, <2>6 DEF Climbs
<1>13. CASE QuiesceDone /\ board' = board
  <2>1. Made(Top) = 0 /\ Top.at = "loop" /\ Len(board') = Seat /\ Return(Top.alpha, Top.line)
    BY <1>2, <1>10, <1>13 DEF QuiesceDone
  <2> QED BY <1>5, <1>9, <2>1
<1>14. CASE QuiesceMove
  <2> DEFINE e == Top
             l == Untried(Top)
             f == [e EXCEPT !.at = "searched", !.left = l]
             n == here.moves[Min(Top.left)].to
             g == Frame(Top.fn, 0, -Top.beta, -Top.alpha, "NONE", FALSE)
  <2>1. /\ Made(Top) = 0 /\ Top.at = "loop" /\ Call(f, g) /\ board' = Append(board, n)
    BY <1>10, <1>14 DEF QuiesceMove, MakeMove
  <2>2. Fields \subseteq DOMAIN e
    BY <1>1
  <2>3. f.fn = e.fn /\ f.at = "searched" /\ f.alpha = e.alpha
    <3> HIDE DEF e, l
    <3> QED BY <2>2 DEF Fields
  <2>4. g.at = "enter" /\ g.fn = Top.fn /\ Made(g) = 0
    BY DEF Frame, Made, Out
  <2> HIDE DEF f, g, n
  <2>5. Made(f) = 1
    BY <2>3 DEF Made, Out
  <2>6. Len(board') = Seat + Made(f)
    BY <1>2, <2>1, <2>5
  <2>7. Stays(f)
    BY <1>5, <1>8, <2>1, <2>3, <2>6
  <2>8. Starts(g, f)
    BY <1>4, <2>3, <2>4 DEF Starts, Tree
  <2> QED BY <2>1, <2>7, <2>8 DEF Climbs
<1>15. CASE AfterQuiesceMove
  <2> DEFINE e == Top
             alpha == Max({e.alpha, -ret.score})
             r == Raised(e)
             l == IF Cut(r) THEN {} ELSE r.left
             line == IF Top.fn = "settle" THEN Way(Top) ELSE r.line
             f == [r EXCEPT !.left = l, !.line = line]
  <2>1. Made(Top) = 1 /\ Top.at = "searched" /\ ret.given /\ Go(f) /\ board' = Front(board)
    BY <1>15 DEF AfterQuiesceMove, Back, Made, Out, Unmake
  <2>2. Fields \subseteq DOMAIN e /\ e.alpha \in Int
    BY <1>1
  <2>3. Fields \subseteq DOMAIN r /\ r.fn = e.fn /\ r.at = "loop" /\ r.alpha = alpha
    <3> HIDE DEF e
    <3> QED BY <2>2 DEF Raised, Fields
  <2>4. alpha = IF e.alpha >= -ret.score THEN e.alpha ELSE -ret.score
    BY <1>3, <2>2, Extremes
  <2> HIDE DEF r, l, line
  <2>5. f.fn = e.fn /\ f.at = "loop" /\ f.alpha = alpha
    BY <2>3 DEF Fields
  <2> HIDE DEF f, alpha
  <2>6. ~stop => (U => alpha <= Lim(Level)) /\ -Lim(Level) <= alpha
    <3> HAVE ~stop
    <3>1. -ret.score <= Lim(ply) /\ Lim(ply) <= Lim(Level)
      BY <1>3, <1>7, <2>1 DEF Lim, TT!MATING_SCORE, TT!MAX_SCORE
    <3>2. -Lim(Level) <= e.alpha /\ (U => e.alpha <= Lim(Level))
      BY <1>5, <2>1
    <3> QED BY <1>3, <1>7, <2>2, <2>4, <3>1, <3>2
  <2>7. Made(f) = 0
    BY <2>5 DEF Made, Out
  <2>8. Len(board') = Seat + Made(f)
    BY <1>2, <2>1, <2>7
  <2>9. Stays(f)
    BY <1>8, <2>5, <2>6, <2>8
  <2> QED BY <2>1, <2>9 DEF Climbs
<1> QED BY <1>11, <1>12, <1>13, <1>14, <1>15


\* What a step writes to the table: nothing, or a score that a node may have at the ply of
\* the position the board shows when it is over.
Written == root_ply + Len(board') - 1
Writes ==
    \/ table' = table
    \/ /\ Written \in Nat /\ Written <= TT!MAX_PLY
       /\ \E score \in Int, n \in DOMAIN Game : \E bound, depth, name :
             Held(score, Written) /\ StoreAt(n, Written, score, bound, depth, name)

\* Only a search has nodes of the tree.
LEMMA OnlySearches ==
  ASSUME Typed, Scored, stack # <<>>, Top.fn \in Tree
  PROVE  asked.fn = "pv"
<1> SUFFICES ASSUME asked.fn # "pv" PROVE FALSE
  OBVIOUS
<1>1. IsSeq(stack) /\ Len(stack) \in 1 .. Len(stack) /\ Top = stack[Len(stack)]
  BY Sequences DEF Typed, Placed, Top
<1>2. Treeless(stack)
  BY DEF Scored
<1> QED BY <1>1, <1>2 DEF Treeless

\* The call on top stands within the arrays.
LEMMA Levels ==
  ASSUME Typed, Scored, InHistory, stack # <<>>, asked.fn = "pv"
  PROVE  Level \in Nat /\ Level <= TT!MAX_PLY
<1>1. Level \in 0 .. TT!MAX_PLY /\ TT!MAX_PLY = 512
  BY OnRank DEF TT!MAX_PLY
<1> QED BY <1>1

\* A score that is written is read as it was meant, and lies in the range of every score.
LEMMA WrittenHeld ==
  ASSUME InTable(table), Tabled(table), NEW p \in Nat, p <= TT!MAX_PLY,
         NEW score \in Int, Held(score, p), NEW n \in DOMAIN Game, NEW bound, NEW depth, NEW name,
         StoreAt(n, p, score, bound, depth, name)
  PROVE  /\ Tabled(table') /\ TT!Plausible(score, p)
         /\ \A i \in DOMAIN table : table'[i] # table[i] => table'[i].score = TT!eval_to_tt(score, p)
<1> DEFINE elem == TT!Element(Hash[n], score, bound, depth, name, p)
           k == TT!Index(Hash[n])
<1>1. TT!MATING_SCORE = 32766 /\ TT!MAX_PLY = 512 /\ TT!MIN_MATE_SCORE = 32254
  BY DEF TT!MATING_SCORE, TT!MAX_SCORE, TT!MAX_PLY, TT!MIN_MATE_SCORE
<1>2. elem.score = TT!eval_to_tt(score, p)
  BY DEF TT!Element
<1>3. Held(TT!eval_to_tt(score, p), 0) /\ TT!Plausible(score, p)
  BY <1>1 DEF Held, Lim, TT!eval_to_tt, TT!is_mating, TT!Plausible
<1>4. table' = [table EXCEPT ![k] = elem] \/ table' = table
  BY DEF StoreAt
<1> HIDE DEF elem, k
<1>5. \A i \in 0 .. Slots - 1 : table'[i] = table[i] \/ table'[i] = elem
  BY <1>4 DEF InTable
<1>6. Tabled(table')
  BY <1>2, <1>3, <1>5 DEF Tabled
<1>7. \A i \in DOMAIN table : table'[i] # table[i] => table'[i].score = TT!eval_to_tt(score, p)
  BY <1>2, <1>5 DEF InTable
<1> QED BY <1>3, <1>6, <1>7

\* Every step of a search writes such a score, or none.
LEMMA StepWrites ==
  ASSUME Typed, Trail, Scored, InHistory, Step
  PROVE  Writes
<1>1. CASE table' = table
  BY <1>1 DEF Writes
<1>2. CASE Keep /\ UNCHANGED <<board, stop>>
  <2>1. stack # <<>> /\ Top.fn \in Tree /\ Made(Top) = 0
    BY <1>2 DEF Keep, EndInTablebase, Done, Enter, At, InTree, Tree, Made, Out
  <2>2. asked.fn = "pv"
    BY <2>1, OnlySearches
  <2>3. /\ ply = Level /\ board # <<>> /\ Last(board) \in DOMAIN Game
        /\ Len(board') = Seat /\ Level = Written /\ Level \in Nat /\ Level <= TT!MAX_PLY
    <3>1. Len(board') = Seat + Made(Top) /\ Seat + 0 = Seat
      BY <1>2, <2>1, Shapes
    <3>2. ply = Level /\ board # <<>> /\ Last(board) \in DOMAIN Game
      BY <2>1, <2>2, OnRank, OnTop
    <3>3. Level \in Nat /\ Level <= TT!MAX_PLY
      BY <2>1, <2>2, Levels
    <3> QED BY <2>1, <3>1, <3>2, <3>3 DEF Level, Written
  <2>4. ASSUME NEW score \in Int, NEW bound, NEW depth, NEW name, Held(score, Level),
               Store(score, bound, depth, name)
        PROVE  Writes
    BY <2>3, <2>4 DEF Writes, Store
  <2>5. CASE EndInTablebase
    <3>1. Store(probe_wdl.score, probe_wdl.bound, MAX_DEPTH, TT!NoMove)
      BY <2>5 DEF EndInTablebase
    <3>2. probe_wdl.score \in Int /\ Held(probe_wdl.score, Level)
      BY <2>3, Scores, OwnScores
    <3> QED BY <2>4, <3>1, <3>2
  <2>6. CASE Done
    <3> DEFINE best == Min({Top.best, Top.score_ub})
    <3>1. \/ table' = table
          \/ Store(best, BoundOf(best, Top), Top.depth, Top.best_move)
      BY <2>6 DEF Done
    <3>2. Top.at = "loop" /\ Top.left = {}
      BY <2>6 DEF Done, At
    <3>3. /\ Top.best \in Int /\ Top.score_ub \in Int /\ Top.score_ub >= -TBWIN
          /\ Held(Top.best, Level)
      BY <2>1, <2>2, <3>2, OnTop, OnRank DEF Ranged, Pending, Level
    <3>4. best \in Int /\ Held(best, Level)
      BY <2>1, <2>2, <3>3, Capped
    <3> HIDE DEF best
    <3> QED BY <1>1, <2>4, <3>1, <3>4
  <2> QED BY <1>2, <2>5, <2>6 DEF Keep
<1>3. CASE AfterHashMove
  <2> DEFINE f == HashFrame
             best == Min({f.best, f.score_ub})
  <2>1. stack # <<>> /\ Top.at = "hashed" /\ Made(Top) = 1 /\ Unmake
    BY <1>3 DEF AfterHashMove, Back, Made, Out
  <2>2. Top.fn \in Tree /\ parent \in DOMAIN Game
    BY <2>1, OnTop
  <2>3. asked.fn = "pv"
    BY <2>1, <2>2, OnlySearches
  <2>4. ply = Level + 1 /\ Level \in Int /\ Len(board') = Seat
    <3>1. Len(board') = Seat
      BY <2>1, Shapes DEF Unmake
    <3> QED BY <2>1, <2>3, <3>1, OnRank
  <2>5. ply - 1 = Level /\ Level = Written /\ Level \in Nat /\ Level <= TT!MAX_PLY
    BY <2>1, <2>3, <2>4, Levels DEF Level, Written
  <2>6. \/ table' = table
        \/ ~stop /\ StoreAt(parent, ply - 1, best, "LOWER", f.depth, f.best_move)
    BY <1>3 DEF AfterHashMove, HashFrame
  <2>7. ~stop => best \in Int /\ Held(best, Level)
    BY <1>3, <2>1, <2>3, HashHeld
  <2> HIDE DEF f, best
  <2>8. CASE ~stop /\ StoreAt(parent, ply - 1, best, "LOWER", f.depth, f.best_move)
    BY <2>2, <2>5, <2>7, <2>8 DEF Writes
  <2> QED BY <1>1, <2>6, <2>8
<1> QED BY <1>1, <1>2, <1>3 DEF Step

\* So the table stays in its range.
LEMMA StepTabled ==
  ASSUME Typed, Trail, Scored, InHistory, Step
  PROVE  /\ Tabled(table')
         /\ \A i \in DOMAIN table : table'[i] # table[i] =>
              \E score \in Int : TT!Plausible(score, Written) /\ table'[i].score = TT!eval_to_tt(score, Written)
<1>1. InTable(table) /\ Tabled(table)
  BY DEF Typed, Scored
<1>2. CASE table' = table
  BY <1>1, <1>2
<1>3. CASE table' # table
  <2>1. Written \in Nat /\ Written <= TT!MAX_PLY
    BY <1>3, StepWrites DEF Writes
  <2>2. PICK score \in Int, n \in DOMAIN Game :
               \E bound, depth, name :
                  Held(score, Written) /\ StoreAt(n, Written, score, bound, depth, name)
    BY <1>3, StepWrites DEF Writes
  <2>3. PICK bound, depth, name : Held(score, Written) /\ StoreAt(n, Written, score, bound, depth, name)
    BY <2>2
  <2>4. /\ Tabled(table') /\ TT!Plausible(score, Written)
        /\ \A i \in DOMAIN table : table'[i] # table[i] => table'[i].score = TT!eval_to_tt(score, Written)
    BY <1>1, <2>1, <2>3, WrittenHeld
  <2> QED BY <2>4
<1> QED BY <1>2, <1>3


\* board_quiesce calls nothing but itself.
LEMMA StaysTreeless ==
  ASSUME Typed, Treeless(stack), stack # <<>>, Step
  PROVE  Treeless(stack')
<1> DEFINE s == Front(stack)
<1>1. /\ IsSeq(stack) /\ Len(stack) \in Nat /\ Len(stack) > 0 /\ Top = stack[Len(stack)]
      /\ IsSeq(s) /\ Len(s) = Len(stack) - 1 /\ \A i \in 1 .. Len(s) : s[i] = stack[i]
  BY Sequences DEF Typed, Placed, Top
<1>2. Top.fn \notin Tree /\ Treeless(s)
  <2> HIDE DEF s
  <2>1. Len(stack) \in 1 .. Len(stack) /\ \A i \in 1 .. Len(s) : i \in 1 .. Len(stack)
    BY <1>1
  <2> QED BY <1>1, <2>1 DEF Treeless
<1> DEFINE Same == \/ \E score, line : Return(score, line)
                   \/ \E f : Go(f) /\ f.fn = Top.fn
                   \/ \E f, g : Call(f, g) /\ f.fn = Top.fn /\ g.fn = Top.fn
<1>3. Same
  <2>1. Fields \subseteq DOMAIN Top
    BY OnTop
  <2>2. Top.at \in {"enter", "loop", "searched"}
    BY <1>2, OnTop
  <2>3. QuiesceEnter \/ QuiesceSkip \/ QuiesceMove \/ AfterQuiesceMove \/ QuiesceDone
    BY <1>2, <2>2
       DEF Step, Look, Play, Keep, EndAtRoot, EndEarly, EndInQuiesce, EndInTable, Work,
           NoNullMove, Probcut, AfterProbcut, NoHashMove, PruneMove, TryAgain,
           NullMove, AfterNullMove, HashMove, TryMove, AfterMove,
           EndInTablebase, Done, AfterHashMove, StopItself, Enter, At, Back, InTree, Tree
  <2> DEFINE e == Top
             l == {i \in DOMAIN here.moves : here.check \/ IsCapture(here.moves[i])}
             a == Max({e.alpha, here.eval})
             u == Untried(Top)
             c == IF Cut(Raised(e)) THEN {} ELSE Raised(e).left
             w == IF Top.fn = "settle" THEN Way(Top) ELSE Raised(e).line
             g == Frame(Top.fn, 0, -Top.beta, -Top.alpha, "NONE", FALSE)
  <2>4. /\ [e EXCEPT !.at = "loop", !.alpha = a, !.left = l].fn = e.fn
        /\ [e EXCEPT !.left = u].fn = e.fn
        /\ [e EXCEPT !.at = "searched", !.left = u].fn = e.fn
        /\ [Raised(e) EXCEPT !.left = c, !.line = w].fn = e.fn
    <3> HIDE DEF e, a, l, u, c, w
    <3> QED BY <2>1 DEF Raised, Fields, e
  <2>5. g.fn = Top.fn
    BY DEF Frame
  <2>6. CASE QuiesceEnter
    <3>1. (\E score : Return(score, <<>>)) \/ Go([e EXCEPT !.at = "loop", !.alpha = a, !.left = l])
      BY <2>6 DEF QuiesceEnter, QuiesceStart
    <3> HIDE DEF e, a, l
    <3> QED BY <2>4, <3>1 DEF e
  <2>7. CASE QuiesceSkip
    BY <2>4, <2>7 DEF QuiesceSkip
  <2>8. CASE QuiesceMove
    BY <2>4, <2>5, <2>8 DEF QuiesceMove
  <2>9. CASE AfterQuiesceMove
    <3>1. Go([Raised(e) EXCEPT !.left = c, !.line = w])
      BY <2>9 DEF AfterQuiesceMove
    <3> HIDE DEF e, c, w
    <3> QED BY <2>4, <3>1 DEF e
  <2>10. CASE QuiesceDone
    BY <2>10 DEF QuiesceDone
  <2> QED BY <2>3, <2>6, <2>7, <2>8, <2>9, <2>10
<1>4. ASSUME NEW t, IsSeq(t), Treeless(t), NEW f, f.fn = Top.fn
      PROVE  IsSeq(Append(t, f)) /\ Treeless(Append(t, f))
  <2>1. /\ IsSeq(Append(t, f)) /\ Len(Append(t, f)) = Len(t) + 1 /\ Append(t, f)[Len(t) + 1] = f
        /\ Len(t) \in Nat /\ \A i \in 1 .. Len(t) : Append(t, f)[i] = t[i]
    BY <1>4, Sequences
  <2>2. ASSUME NEW i \in 1 .. Len(Append(t, f)) PROVE Append(t, f)[i].fn \notin Tree
    <3>1. i \in 1 .. Len(t) \/ i = Len(t) + 1
      BY <2>1
    <3> QED BY <1>2, <1>4, <2>1, <3>1 DEF Treeless
  <2> QED BY <2>1, <2>2 DEF Treeless
<1>5. CASE \E score, line : Return(score, line)
  BY <1>2, <1>5 DEF Return
<1>6. CASE \E f : Go(f) /\ f.fn = Top.fn
  BY <1>1, <1>2, <1>4, <1>6 DEF Go
<1>7. CASE \E f, g : Call(f, g) /\ f.fn = Top.fn /\ g.fn = Top.fn
  <2>1. PICK f, g : Call(f, g) /\ f.fn = Top.fn /\ g.fn = Top.fn
    BY <1>7
  <2>2. stack' = Append(Append(s, f), g)
    <3>1. s \in Seq(Elements(s) \cup {f, g})
      BY <1>1, SeqMonotonic DEF IsSeq
    <3>2. s \o <<f, g>> = Append(Append(s, f), g)
      BY <3>1
    <3> QED BY <2>1, <3>2 DEF Call
  <2> HIDE DEF s
  <2>3. IsSeq(Append(s, f)) /\ Treeless(Append(s, f))
    BY <1>1, <1>2, <1>4, <2>1
  <2> QED BY <1>4, <2>1, <2>2, <2>3
<1> QED BY <1>3, <1>5, <1>6, <1>7

\* Every step of a search keeps the scores in their ranges.
LEMMA StepClimbs ==
  ASSUME Typed, Trail, Scored, InHistory, stack # <<>>, asked.fn = "pv", Step
  PROVE  Climbs /\ (stop => stop') /\ \A i \in 1 .. Seat : board'[i] = board[i]
<1>1. Top.at \notin {"enter", "loop", "searched"} => Top.fn \in Tree
  BY OnTop
<1>2. /\ board' = board => \A i \in 1 .. Seat : board'[i] = board[i]
      /\ Made(Top) = 0 /\ (\E n : board' = Append(board, n)) => \A i \in 1 .. Seat : board'[i] = board[i]
      /\ Made(Top) = 1 /\ board' = Front(board) => \A i \in 1 .. Seat : board'[i] = board[i]
  BY Shapes
<1>3. CASE Look /\ UNCHANGED <<board, stop, table>>
  <2>1. CASE QuiesceEnter \/ QuiesceSkip \/ QuiesceDone
    <3>1. Top.fn \notin Tree
      BY <2>1 DEF QuiesceEnter, QuiesceSkip, QuiesceDone, InQuiesce, InTree, Tree
    <3> QED BY <1>2, <1>3, <2>1, <3>1, QuietStepsHeld
  <2>2. CASE ~(QuiesceEnter \/ QuiesceSkip \/ QuiesceDone)
    <3>1. \/ EndAtRoot \/ EndEarly \/ EndInQuiesce \/ EndInTable \/ Work \/ NoNullMove
          \/ Probcut \/ AfterProbcut \/ NoHashMove \/ PruneMove \/ TryAgain
      BY <1>3, <2>2 DEF Look
    <3>2. Top.fn \in Tree
      BY <1>1, <3>1 DEF EndAtRoot, EndEarly, EndInQuiesce, EndInTable, Work, NoNullMove, Probcut,
            AfterProbcut, NoHashMove, PruneMove, TryAgain, Enter, At, Back, InTree, Tree
    <3>3. board' = board /\ stop' = stop
      BY <1>3
    <3> QED BY <1>2, <3>1, <3>2, <3>3, TreeLooksHeld
  <2> QED BY <2>1, <2>2
<1>4. CASE Play /\ UNCHANGED <<stop, table>>
  <2>1. \/ Made(Top) = 0 /\ \E n : board' = Append(board, n)
        \/ Made(Top) = 1 /\ board' = Front(board)
    BY <1>4, PlaysTyped DEF Forth, Taken
  <2>2. CASE QuiesceMove \/ AfterQuiesceMove
    <3>1. Top.fn \notin Tree
      BY <2>2 DEF QuiesceMove, AfterQuiesceMove, InQuiesce, InTree, Tree
    <3> QED BY <1>2, <1>4, <2>1, <2>2, <3>1, QuietStepsHeld
  <2>3. CASE NullMove \/ AfterNullMove \/ HashMove \/ TryMove \/ AfterMove
    <3>1. Top.fn \in Tree
      BY <1>1, <2>3 DEF NullMove, AfterNullMove, HashMove, TryMove, AfterMove, At, Back, InTree, Tree
    <3> QED BY <1>2, <1>4, <2>1, <2>3, <3>1, TreePlaysHeld
  <2> QED BY <1>4, <2>2, <2>3 DEF Play
<1>5. CASE Keep /\ UNCHANGED <<board, stop>>
  <2>1. Top.fn \in Tree
    BY <1>5 DEF Keep, EndInTablebase, Done, Enter, InTree, Tree
  <2>2. (EndInTablebase \/ Done) /\ board' = board /\ stop' = stop
    BY <1>5 DEF Keep
  <2> QED BY <1>2, <2>1, <2>2, TreeLooksHeld
<1>6. CASE AfterHashMove /\ UNCHANGED stop
  <2>1. Top.fn \in Tree /\ Made(Top) = 1 /\ board' = Front(board)
    BY <1>1, <1>6 DEF AfterHashMove, Back, Made, Out, Unmake
  <2> QED BY <1>2, <1>6, <2>1, TreePlaysHeld
<1>7. CASE StopItself /\ UNCHANGED <<board, table>>
  <2>1. Top.fn \in Tree /\ stop'
    BY <1>7 DEF StopItself, Enter, InTree, Tree
  <2> QED BY <1>2, <1>7, <2>1, TreeLooksHeld
<1> QED BY <1>3, <1>4, <1>5, <1>6, <1>7 DEF Step

\* So every step keeps the scores of all calls, what is returned and what is stored.
LEMMA StepScored == ASSUME Typed, Trail, Scored, InHistory, Step PROVE Scored'
<1>0. stack # <<>>
  BY DEF Step, Look, Play, Keep, EndAtRoot, EndEarly, EndInQuiesce, EndInTable, Work,
         NoNullMove, Probcut, AfterProbcut, NoHashMove, PruneMove, TryAgain, QuiesceEnter,
         QuiesceSkip, QuiesceDone, NullMove, AfterNullMove, HashMove, TryMove, AfterMove,
         QuiesceMove, AfterQuiesceMove, EndInTablebase, Done, AfterHashMove, StopItself,
         Enter, At, Back
<1>1. OnBoard(board')
  BY StepTyped DEF Typed
<1>2. root_ply' = root_ply /\ asked' = asked
  BY DEF Step
<1>3. Tabled(table')
  BY StepTabled
<1>4. asked.fn # "pv" => Treeless(stack')
  BY <1>0, StaysTreeless DEF Scored
<1>5. asked.fn = "pv" /\ board' # <<>> =>
         /\ Ranked(root_ply, asked, ~stop', board'[1], stack', Len(board'))
         /\ Given(root_ply, asked, ~stop', board', stack', ret')
  BY <1>0, <1>1, <1>2, StepClimbs, RankedOn
<1> QED BY <1>2, <1>3, <1>4, <1>5 DEF Scored


\* A call that is asked for has no score yet.
LEMMA AskScored == ASSUME Typed, Scored, Ask PROVE Scored'
<1>1. PICK ask \in Asks :
        /\ stack' = <<Frame(ask.fn, ask.depth, ask.alpha, ask.beta, "PV", TRUE)>>
        /\ board' = <<ask.root>> /\ root_ply' = ask.ply /\ asked' = ask
  BY DEF Ask
<1>2. ret' = None /\ table' = table
  BY DEF Ask
<1> DEFINE f == Frame(ask.fn, ask.depth, ask.alpha, ask.beta, "PV", TRUE)
<1>3. /\ f.at = "enter" /\ Made(f) = 0 /\ f.fn = ask.fn /\ f.depth = ask.depth
      /\ f.alpha = ask.alpha /\ f.beta = ask.beta
  BY DEF Frame, Made, Out
<1>4. ask.fn = "pv" \/ ask.fn = "settle"
  BY AsksAssumption
<1>5. IsSeq(<<>>) /\ Len(<<>>) = 0 /\ \A x : <<x>> = Append(<<>>, x)
  BY EmptySeq DEF IsSeq
<1>6. board' = Append(<<>>, ask.root) /\ stack' = Append(<<>>, f)
  BY <1>1, <1>5
<1> HIDE DEF f
<1>7. Len(board') = 1 /\ board'[1] = ask.root /\ Len(stack') = 1 /\ stack'[1] = f
  <2>1. \A x : IsSeq(Append(<<>>, x)) /\ Len(Append(<<>>, x)) = Len(<<>>) + 1
               /\ Append(<<>>, x)[Len(<<>>) + 1] = x
    BY <1>5, Sequences
  <2>2. 0 + 1 = 1
    OBVIOUS
  <2> QED BY <1>5, <1>6, <2>1, <2>2
<1>8. ask.fn # "pv" => Treeless(stack')
  <2> HAVE ask.fn # "pv"
  <2>1. \A i \in 1 .. Len(stack') : stack'[i] = f
    BY <1>7
  <2> QED BY <1>3, <1>4, <2>1 DEF Treeless, Tree
<1>9. ask.fn = "pv" => Ranked(ask.ply, ask, ~stop', ask.root, stack', 1)
  <2> HAVE ask.fn = "pv"
  <2> DEFINE h == [i \in 1 .. 0 |-> 1]
             live == ~stop'
  <2>1. h \in [1 .. 0 -> Nat \ {0}]
    OBVIOUS
  <2> HIDE DEF h, live
  <2>2. Ranks(ask.ply, ask, live, ask.root, <<>>, h, 1)
    BY <1>5, <2>1 DEF Ranks
  <2>3. Ranged(ask.ply, live, f, 1, Under(<<>>, Len(<<>>) + 1)) /\ First(ask.ply, ask, ask.root, f)
    BY <1>3 DEF Ranged, First
  <2>4. Ranked(ask.ply, ask, live, ask.root, Append(<<>>, f), 1 + Made(f))
    BY <2>2, <2>3, RankOn DEF Ranked
  <2>5. 1 + Made(f) = 1
    BY <1>3
  <2> QED BY <1>6, <2>4, <2>5 DEF live
<1>10. Given(ask.ply, ask, ~stop', board', stack', ret')
  BY <1>2 DEF None, Given
<1>11. Tabled(table')
  BY <1>2 DEF Scored
<1> QED BY <1>1, <1>7, <1>8, <1>9, <1>10, <1>11 DEF Scored

\* Raising the flag asks less of every call.
LEMMA StopScored == ASSUME Scored, SetStop PROVE Scored'
<1>1. /\ stop' = TRUE /\ stack' = stack /\ ret' = ret /\ board' = board /\ root_ply' = root_ply
      /\ table' = table /\ asked' = asked
  BY DEF SetStop
<1>2. ASSUME NEW rp, NEW a, NEW r, NEW s, NEW n, Ranked(rp, a, ~stop, r, s, n)
      PROVE  Ranked(rp, a, FALSE, r, s, n)
  <2>1. PICK h : Ranks(rp, a, ~stop, r, s, h, n)
    BY <1>2 DEF Ranked
  <2>2. \A i \in 1 .. Len(s) : Ranged(rp, FALSE, s[i], h[i], Under(s, i))
    BY <2>1 DEF Ranks, Ranged
  <2>3. Ranks(rp, a, FALSE, r, s, h, n)
    BY <2>1, <2>2 DEF Ranks
  <2> QED BY <2>3 DEF Ranked
<1>3. \A rp, a, b, s, r : Given(rp, a, FALSE, b, s, r)
  BY DEF Given
<1>4. ~stop' <=> FALSE
  BY <1>1
<1>5. asked.fn = "pv" /\ board # <<>> => Ranked(root_ply, asked, FALSE, board[1], stack, Len(board))
  BY <1>2 DEF Scored
<1>6. Tabled(table) /\ (asked.fn # "pv" => Treeless(stack))
  BY DEF Scored
<1> QED BY <1>1, <1>3, <1>4, <1>5, <1>6 DEF Scored

\* The table is empty at first.
LEMMA ScoredFirst == Init => Scored
<1> SUFFICES ASSUME Init PROVE Scored
  OBVIOUS
<1>1. TT!Empty.score = 0
  BY DEF TT!Empty
<1>2. Held(0, 0)
  BY DEF Held, Lim, TT!MATING_SCORE, TT!MAX_SCORE
<1> HIDE DEF TT!Empty
<1>3. \A i \in 0 .. Slots - 1 : table[i].score = 0
  BY <1>1 DEF Init
<1>4. Tabled(table)
  BY <1>2, <1>3 DEF Tabled
<1>5. asked.fn = "pv" /\ board = <<>>
  BY DEF Init
<1> QED BY <1>4, <1>5 DEF Scored

\* As long as the board keeps to its arrays, so do the scores.
LEMMA ScoredAlways == Spec /\ []InHistory => [](Typed /\ Trail /\ Scored)
<1>1. Typed /\ Trail /\ Scored /\ InHistory /\ [Next]_vars => Scored'
  <2> SUFFICES ASSUME Typed, Trail, Scored, InHistory, [Next]_vars PROVE Scored'
    OBVIOUS
  <2>1. CASE Ask
    BY <2>1, AskScored
  <2>2. CASE Step
    BY <2>2, StepScored
  <2>3. CASE SetStop
    BY <2>3, StopScored
  <2>4. CASE UNCHANGED vars
    <3>1. /\ stop' = stop /\ stack' = stack /\ ret' = ret /\ board' = board /\ root_ply' = root_ply
          /\ table' = table /\ asked' = asked
      BY <2>4 DEF vars
    <3> QED BY <3>1 DEF Scored
  <2> QED BY <2>1, <2>2, <2>3, <2>4 DEF Next
<1> QED BY <1>1, ScoredFirst, TrailAlways, PTL DEF Spec

\* What a call has given back, at its end.
LEMMA GivenAtTheEnd ==
  ASSUME Typed, Trail, Scored, BoardRestored, Ended("pv")
  PROVE  /\ Held(ret.score, root_ply)
         /\ Playable(root_ply, asked, board[1]) => ret.line # <<>>
<1>1. Len(board) \in Nat /\ board # <<>> /\ Len(board) <= 1 /\ Len(board) >= 1
  <2>1. Len(board) \in Nat /\ Len(board) <= 1 /\ Len(board) >= 1
    BY Sequences DEF Typed, OnBoard, Trail, Brought, BoardRestored, Ended
  <2>2. Len(board) # 0
    BY <2>1
  <2> QED BY <2>1, <2>2, EmptySeq
<1>2. Given(root_ply, asked, ~stop, board, stack, ret)
  BY <1>1 DEF Scored, Ended
<1>3. root_ply + Len(board) - 1 = root_ply
  BY <1>1 DEF Typed
<1>4. stack = <<>> /\ Len(stack) + 1 = 1
  BY EmptySeq DEF Ended, Idle
<1>5. Under(stack, Len(stack) + 1)
  BY <1>4 DEF Under
<1> QED BY <1>2, <1>3, <1>4, <1>5 DEF Given, Ended, Held

\* The score that pv_search gives back (search.cpp), whatever its depth and its window, whatever
\* the table held and however the tree was pruned, is one a node of the root's ply may have:
\* no mate is nearer than the root.
ScoreHeld == Ended("pv") => TT!Plausible(ret.score, root_ply)

\* From the ranges that the calls keep, on a board within its arrays.
THEOREM ScoresArePlausible == Spec /\ []InHistory => []ScoreHeld
<1>1. Typed /\ Trail /\ Scored /\ BoardRestored => ScoreHeld
  <2> SUFFICES ASSUME Typed, Trail, Scored, BoardRestored, Ended("pv")
               PROVE  TT!Plausible(ret.score, root_ply)
    BY DEF ScoreHeld
  <2>1. Held(ret.score, root_ply)
    BY GivenAtTheEnd
  <2> QED BY <2>1 DEF Held, Lim, TT!Plausible, Typed, TT!MATING_SCORE, TT!MAX_SCORE
<1> QED BY <1>1, ScoredAlways, BoardIsRestored, PTL

\* What is stored (TranspositionTable::store, as search.cpp calls it) is a score that a node may
\* have at the ply it is stored for, so that it is read as it was meant: the condition under
\* which the table is proved to keep the distance of a mate.
StoresHeld ==
    \A i \in DOMAIN table :
        table'[i] # table[i] =>
            \E score \in Int : TT!Plausible(score, Written) /\ table'[i].score = TT!eval_to_tt(score, Written)

\* From the same ranges, at each step that stores.
THEOREM StoresArePlausible == Spec /\ []InHistory => [][StoresHeld]_vars
<1>1. Typed /\ Trail /\ Scored /\ InHistory /\ [Next]_vars => [StoresHeld]_vars
  <2> SUFFICES ASSUME Typed, Trail, Scored, InHistory, Next PROVE StoresHeld
    OBVIOUS
  <2>1. CASE Ask \/ SetStop
    BY <2>1 DEF Ask, SetStop, StoresHeld
  <2>2. CASE Step
    BY <2>2, StepTabled DEF StoresHeld
  <2> QED BY <2>1, <2>2 DEF Next
<1> QED BY <1>1, ScoredAlways, PTL DEF Spec

\* A search of a root that has moves, some depth and a window that is not beyond every mate,
\* and that nobody has stopped, names a move: search.cpp takes principle.back() of what
\* pv_search leaves without a look.
MoveNamed == Ended("pv") /\ Playable(root_ply, asked, board[1]) => ret.line # <<>>

\* From what the first call keeps: no best score without a line.
THEOREM MovesAreNamed == Spec /\ []InHistory => []MoveNamed
<1>1. Typed /\ Trail /\ Scored /\ BoardRestored => MoveNamed
  BY GivenAtTheEnd DEF MoveNamed
<1> QED BY <1>1, ScoredAlways, BoardIsRestored, PTL
=============================================================================
