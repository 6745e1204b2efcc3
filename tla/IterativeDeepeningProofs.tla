----------------------- MODULE IterativeDeepeningProofs -----------------------
(***************************************************************************)
(* The score a search returns, for every set of scores a position can      *)
(* have, every depth and every clock.  What makes it exact is that the     *)
(* loop over the windows never runs out of windows with the score still    *)
(* outside: the first window tells on which side of the old score the new  *)
(* one lies, only the bound on that side moves from then on, and in the    *)
(* last window it has moved beyond every score (Window below).             *)
(***************************************************************************)
EXTENDS IterativeDeepening, TLAPS

DepthInRange == pc \in {"search", "bounds", "report"} => depth \in 2 .. MaxDepth

ScoreInside == -MATING_SCORE < score /\ score < MATING_SCORE

BelowScore ==
    /\ value[depth] <= score - 30 /\ beta = score + 30
    /\ (aw = n_aw => alpha = -MATING_SCORE)
AboveScore ==
    /\ value[depth] >= score + 30 /\ alpha = score - 30
    /\ (aw = n_aw => beta = MATING_SCORE)

Window ==
    pc \in {"search", "bounds"} =>
        /\ aw \in 0 .. n_aw
        /\ alpha < beta
        /\ \/ aw = 0 /\ alpha = score - 30 /\ beta = score + 30
           \/ aw > 0 /\ BelowScore
           \/ aw > 0 /\ AboveScore

Returned ==
    (pc = "bounds" /\ ~stop) =>
        new_score \in Returns(value[depth], alpha, beta) /\ temp_line.depth = depth

Settled ==
    (pc = "report" /\ ~stop) => new_score = value[depth] /\ temp_line.depth = depth

\* The forced stop is allowed once there is a line.
Kept == allow_cutoff => principle # NoLine

IInv == /\ TypeOK /\ DepthInRange /\ ScoreInside /\ Window
        /\ Returned /\ Settled /\ ScoreIsExact /\ Kept

USE DEF MAX_PLY, MAX_SCORE, MATING_SCORE, n_aw

LEMMA ValuesInside ==
    \A v \in Values : v \in Int /\ -MATING_SCORE < v /\ v < MATING_SCORE
BY ValuesAssumption

\* What pv_search returns tells on which side of its bounds the value lies.
LEMMA ReturnsTells ==
    ASSUME NEW v \in Int, NEW a \in Int, NEW b \in Int, a < b,
           NEW r \in Returns(v, a, b)
    PROVE  /\ r \in Int
           /\ r <= a => v <= a
           /\ r >= b => v >= b
           /\ (a < r /\ r < b) => r = v
<1>1. Values \subseteq Int
    BY ValuesInside
<1>2. CASE v <= a
    BY <1>1, <1>2 DEF Returns
<1>3. CASE v >= b
    BY <1>1, <1>3 DEF Returns
<1>4. CASE ~(v <= a) /\ ~(v >= b)
    BY <1>4 DEF Returns
<1> QED
    BY <1>2, <1>3, <1>4

\* How far the windows reach, and that the last reaches beyond every score.
LEMMA Offsets ==
    /\ aspration_windows[0] = 30 /\ aspration_windows[1] = 80
    /\ aspration_windows[2] = 200 /\ aspration_windows[3] = 500
    /\ \A k \in 0 .. 4 : /\ NextOffset(k) \in Nat /\ NextOffset(k) > 0
                         /\ k >= 3 => NextOffset(k) = 32766
<1>1. /\ aspration_windows[0] = 30 /\ aspration_windows[1] = 80
      /\ aspration_windows[2] = 200 /\ aspration_windows[3] = 500
    BY DEF aspration_windows
<1> QED
    BY <1>1 DEF NextOffset

LEMMA IterateKeeps == IInv /\ Iterate => IInv'
<1> SUFFICES ASSUME IInv, Iterate PROVE IInv'
    OBVIOUS
<1> USE DEF IInv
<1>1. TypeOK'
    <2>1. CASE depth <= MaxDepth
        <3>1. {alpha', beta'} \subseteq Int /\ aw' = 0 /\ pc' = "search"
            BY <2>1, Offsets DEF Iterate, TypeOK
        <3> QED
            BY <3>1 DEF Iterate, TypeOK
    <2>2. CASE ~(depth <= MaxDepth)
        BY <2>2 DEF Iterate, TypeOK
    <2> QED
        BY <2>1, <2>2
<1>2. DepthInRange' /\ ScoreInside'
    BY DEF Iterate, DepthInRange, ScoreInside, TypeOK
<1>3. Window'
    BY Offsets DEF Iterate, Window, TypeOK
<1>4. Returned' /\ Settled' /\ ScoreIsExact' /\ Kept'
    BY DEF Iterate, Returned, Settled, ScoreIsExact, Kept
<1> QED
    BY <1>1, <1>2, <1>3, <1>4

LEMMA PvSearchKeeps == IInv /\ PvSearch => IInv'
<1> SUFFICES ASSUME IInv, PvSearch PROVE IInv'
    OBVIOUS
<1> USE DEF IInv
<1>1. /\ pc = "search" /\ pc' = "bounds"
      /\ UNCHANGED <<value, depth, aw, alpha, beta, score, principle, allow_cutoff,
                     soft_cutoff, last_best_move>>
    BY DEF PvSearch
<1>2. depth \in 2 .. MaxDepth /\ value[depth] \in Int /\ alpha \in Int /\ beta \in Int
      /\ alpha < beta
    <2>1. depth \in 2 .. MaxDepth /\ alpha \in Int /\ beta \in Int /\ alpha < beta
        BY <1>1 DEF DepthInRange, Window, TypeOK
    <2>2. value[depth] \in Values
        BY <2>1 DEF TypeOK
    <2> QED
        BY <2>1, <2>2, ValuesInside
<1> DEFINE Finished ==
            /\ new_score' \in Returns(value[depth], alpha, beta)
            /\ \E move \in RootMoves : temp_line' = [depth |-> depth, move |-> move]
            /\ UNCHANGED stop
           Abandoned == new_score' = MAX_SCORE /\ temp_line' = NoLine /\ stop' = TRUE
<1>3. PICK t \in Times : millis' = t
    BY DEF PvSearch
<1>4. Finished \/ Abandoned
    BY DEF PvSearch
<1>5. t \in Nat
    BY TimeAssumption
<1>6. DepthInRange' /\ ScoreInside' /\ Window' /\ Settled' /\ ScoreIsExact' /\ Kept'
    BY <1>1 DEF DepthInRange, ScoreInside, Window, BelowScore, AboveScore, Settled,
                ScoreIsExact, Kept
<1>7. CASE Finished
    <2>1. new_score' \in Int
        BY <1>2, <1>7, ReturnsTells
    <2>2. PICK move \in RootMoves : temp_line' = [depth |-> depth, move |-> move]
        BY <1>7
    <2>3. temp_line' \in [depth : Nat, move : RootMoves \cup {NoMove}]
          /\ temp_line'.depth = depth
        BY <2>2 DEF TypeOK
    <2>4. TypeOK'
        BY <1>1, <1>3, <1>5, <1>7, <2>1, <2>3 DEF TypeOK
    <2>5. Returned'
        BY <1>1, <1>7, <2>3 DEF Returned
    <2> QED
        BY <1>6, <2>4, <2>5
<1>8. CASE Abandoned
    <2>1. TypeOK'
        BY <1>1, <1>3, <1>5, <1>8 DEF TypeOK, NoLine
    <2>2. Returned'
        BY <1>8 DEF Returned
    <2> QED
        BY <1>6, <2>1, <2>2
<1> HIDE DEF Finished, Abandoned
<1> QED
    BY <1>7, <1>8, <1>4

\* A window that fails is followed by one that fails on the same side or not at
\* all, and the last one does not fail.
LEMMA CheckBoundsKeeps == IInv /\ CheckBounds => IInv'
<1> SUFFICES ASSUME IInv, CheckBounds PROVE IInv'
    OBVIOUS
<1> USE DEF IInv
<1>1. /\ pc = "bounds"
      /\ UNCHANGED <<value, depth, new_score, temp_line, score, principle,
                     allow_cutoff, soft_cutoff, last_best_move, stop, millis>>
    BY DEF CheckBounds
<1> DEFINE v == value[depth]
<1>2. depth \in 2 .. MaxDepth /\ v \in Int /\ -MATING_SCORE < v /\ v < MATING_SCORE
    <2>1. depth \in 2 .. MaxDepth
        BY <1>1 DEF DepthInRange
    <2>2. v \in Values
        BY <2>1 DEF TypeOK
    <2> QED
        BY <2>1, <2>2, ValuesInside
<1>3. alpha \in Int /\ beta \in Int /\ new_score \in Int /\ score \in Int /\ alpha < beta /\ aw \in 0 .. 4
    BY <1>1 DEF Window, TypeOK
<1>4. CASE stop /\ pc' = "report" /\ UNCHANGED <<aw, alpha, beta>>
    BY <1>1, <1>4 DEF TypeOK, DepthInRange, ScoreInside, Window, Returned, Settled,
                      ScoreIsExact, Kept
<1>5. CASE ~stop /\ InWindow /\ pc' = "report" /\ UNCHANGED <<aw, alpha, beta>>
    <2>1. new_score = v /\ temp_line.depth = depth
        BY <1>1, <1>2, <1>3, <1>5, ReturnsTells DEF Returned, InWindow
    <2>2. Settled'
        BY <1>1, <2>1 DEF Settled
    <2> QED
        BY <1>1, <1>5, <2>2 DEF TypeOK, DepthInRange, ScoreInside, Window, Returned,
                                ScoreIsExact, Kept
<1>6. CASE /\ ~stop /\ ~InWindow /\ AdjustWindow /\ aw' = aw + 1
           /\ pc' = IF aw < n_aw THEN "search" ELSE "report"
    <2>1. new_score \in Returns(v, alpha, beta)
        BY <1>1, <1>6 DEF Returned
    <2>2. new_score <= alpha \/ new_score >= beta
        BY <1>3, <1>6 DEF InWindow
    <2>3. /\ new_score <= alpha => v <= alpha
          /\ new_score >= beta => v >= beta
        BY <1>2, <1>3, <2>1, ReturnsTells
    <2>4. -MATING_SCORE < score /\ score < MATING_SCORE
        BY DEF ScoreInside
    <2>5. \/ aw = 0 /\ alpha = score - 30 /\ beta = score + 30
          \/ aw > 0 /\ BelowScore
          \/ aw > 0 /\ AboveScore
        BY <1>1 DEF Window
    <2>6. aw < 4
        BY <1>2, <1>3, <2>2, <2>3, <2>4, <2>5 DEF BelowScore, AboveScore
    <2>7. NextOffset(aw) \in Nat /\ NextOffset(aw) > 0
          /\ (aw >= 3 => NextOffset(aw) = 32766)
        BY <1>3, Offsets
    <2>8. NextAlpha \in Int /\ NextAlpha < score /\ (aw >= 3 => NextAlpha = -32766)
        BY <1>3, <2>4, <2>7 DEF NextAlpha, Larger
    <2>9. NextBeta \in Int /\ NextBeta > score /\ (aw >= 3 => NextBeta = 32766)
        BY <1>3, <2>4, <2>7 DEF NextBeta, Smaller
    <2>10. Window' /\ {alpha', beta'} \subseteq Int
        <3>1. CASE new_score <= alpha
            <4>1. alpha' = NextAlpha /\ beta' = beta
                BY <1>6, <3>1 DEF AdjustWindow
            <4>2. v <= score - 30 /\ beta = score + 30
                <5>1. v <= alpha /\ v < beta
                    BY <1>2, <1>3, <2>3, <3>1
                <5>2. CASE aw = 0 /\ alpha = score - 30 /\ beta = score + 30
                    BY <1>2, <1>3, <5>1, <5>2
                <5>3. CASE aw > 0 /\ BelowScore
                    BY <5>3 DEF BelowScore
                <5>4. CASE aw > 0 /\ AboveScore
                    BY <1>2, <1>3, <5>1, <5>4 DEF AboveScore
                <5> QED
                    BY <2>5, <5>2, <5>3, <5>4
            <4>3. aw + 1 = 4 => alpha' = -32766
                BY <1>3, <2>8, <4>1
            <4>4. aw' > 0 /\ BelowScore'
                BY <1>1, <1>3, <1>6, <4>1, <4>2, <4>3 DEF BelowScore
            <4>5. aw' \in 0 .. 4 /\ alpha' < beta' /\ {alpha', beta'} \subseteq Int
                BY <1>3, <1>6, <2>6, <2>8, <4>1, <4>2
            <4> QED
                BY <4>4, <4>5 DEF Window
        <3>2. CASE ~(new_score <= alpha)
            <4>1. beta' = NextBeta /\ alpha' = alpha
                BY <1>6, <3>2 DEF AdjustWindow
            <4>2. v >= score + 30 /\ alpha = score - 30
                <5>1. v >= beta /\ v > alpha
                    BY <1>2, <1>3, <2>2, <2>3, <3>2
                <5>2. CASE aw = 0 /\ alpha = score - 30 /\ beta = score + 30
                    BY <1>2, <1>3, <5>1, <5>2
                <5>3. CASE aw > 0 /\ BelowScore
                    BY <1>2, <1>3, <5>1, <5>3 DEF BelowScore
                <5>4. CASE aw > 0 /\ AboveScore
                    BY <5>4 DEF AboveScore
                <5> QED
                    BY <2>5, <5>2, <5>3, <5>4
            <4>3. aw + 1 = 4 => beta' = 32766
                BY <1>3, <2>9, <4>1
            <4>4. aw' > 0 /\ AboveScore'
                BY <1>1, <1>3, <1>6, <4>1, <4>2, <4>3 DEF AboveScore
            <4>5. aw' \in 0 .. 4 /\ alpha' < beta' /\ {alpha', beta'} \subseteq Int
                BY <1>3, <1>6, <2>6, <2>9, <4>1, <4>2
            <4> QED
                BY <4>4, <4>5 DEF Window
        <3> QED
            BY <3>1, <3>2
    <2>11. pc' = "search"
        BY <1>6, <2>6
    <2>12. TypeOK'
        BY <1>1, <1>3, <1>6, <2>6, <2>10, <2>11 DEF TypeOK
    <2>13. DepthInRange' /\ ScoreInside' /\ Returned' /\ Settled' /\ ScoreIsExact' /\ Kept'
        BY <1>1, <1>2, <2>11 DEF DepthInRange, ScoreInside, Returned, Settled,
                                 ScoreIsExact, Kept
    <2> QED
        BY <2>10, <2>12, <2>13
<1> QED
    BY <1>4, <1>5, <1>6 DEF CheckBounds

LEMMA ReportKeeps == IInv /\ Report => IInv'
<1> SUFFICES ASSUME IInv, Report PROVE IInv'
    OBVIOUS
<1> USE DEF IInv
<1>1. /\ pc = "report" /\ ~stop
      /\ score' = new_score /\ principle' = temp_line
      /\ UNCHANGED <<value, aw, alpha, beta, new_score, temp_line, stop, millis>>
    BY DEF Report
<1>2. \/ pc' = "done" /\ UNCHANGED depth
      \/ pc' = "iterate" /\ depth' = depth + 1
    BY DEF Report
<1>3. /\ depth \in 2 .. MaxDepth /\ new_score = value[depth] /\ temp_line.depth = depth
      /\ value[depth] \in Values
    BY <1>1 DEF DepthInRange, Settled, TypeOK
<1>4. -MATING_SCORE < new_score /\ new_score < MATING_SCORE
    BY <1>3, ValuesInside
<1>5. soft_cutoff' \in Nat
    BY DEF Report, TypeOK
<1>6. last_best_move' \in RootMoves \cup {NoMove} /\ allow_cutoff' \in BOOLEAN
    BY DEF Report, TypeOK
<1>7. depth' \in Nat /\ depth' >= 2
    BY <1>2 DEF TypeOK
<1>8. TypeOK'
    BY <1>1, <1>2, <1>5, <1>6, <1>7 DEF TypeOK
<1>9. principle' # NoLine
    BY <1>1, <1>3 DEF NoLine
<1>10. ScoreIsExact'
    BY <1>1, <1>3, <1>9 DEF ScoreIsExact
<1>11. ScoreInside'
    BY <1>1, <1>4 DEF ScoreInside
<1>12. DepthInRange' /\ Window' /\ Returned' /\ Settled' /\ Kept'
    BY <1>2, <1>9 DEF DepthInRange, Window, Returned, Settled, Kept
<1> QED
    BY <1>8, <1>10, <1>11, <1>12

LEMMA InvStep == IInv /\ [Next]_vars => IInv'
<1> SUFFICES ASSUME IInv, [Next]_vars PROVE IInv'
    OBVIOUS
<1>1. CASE Iterate
    BY <1>1, IterateKeeps
<1>2. CASE PvSearch
    BY <1>2, PvSearchKeeps
<1>3. CASE CheckBounds
    BY <1>3, CheckBoundsKeeps
<1>4. CASE StopSeen
    BY <1>4 DEF IInv, StopSeen, TypeOK, DepthInRange, ScoreInside, Window, Returned,
                Settled, ScoreIsExact, Kept
<1>5. CASE Report
    BY <1>5, ReportKeeps
<1>6. CASE SetStop
    BY <1>6 DEF IInv, SetStop, TypeOK, DepthInRange, ScoreInside, Window, BelowScore,
                AboveScore, Returned, Settled, ScoreIsExact, Kept
<1>7. CASE UNCHANGED vars
    BY <1>7 DEF IInv, vars, TypeOK, DepthInRange, ScoreInside, Window, BelowScore,
                AboveScore, Returned, Settled, ScoreIsExact, Kept
<1> QED
    BY <1>1, <1>2, <1>3, <1>4, <1>5, <1>6, <1>7 DEF Next, Step

LEMMA InvAlways == Spec => []IInv
<1>1. Init => IInv
    <2> SUFFICES ASSUME Init PROVE IInv
        OBVIOUS
    <2>1. TypeOK
        <3>1. NoLine \in [depth : Nat, move : RootMoves \cup {NoMove}]
            BY DEF NoLine
        <3>2. soft_cutoff \in Nat
            BY TimeAssumption DEF Init
        <3>3. pc = "iterate" /\ value \in [2 .. MaxDepth -> Values] /\ depth = 2
            BY DEF Init, FirstDepth
        <3>4. aw = 0 /\ alpha = 0 /\ beta = 0 /\ new_score = 0 /\ score = 0 /\ millis = 0
            BY DEF Init
        <3>5. /\ {temp_line, principle} \subseteq [depth : Nat, move : RootMoves \cup {NoMove}]
              /\ allow_cutoff \in BOOLEAN /\ stop \in BOOLEAN
              /\ last_best_move \in RootMoves \cup {NoMove}
            BY <3>1 DEF Init
        <3> QED
            BY <3>2, <3>3, <3>4, <3>5 DEF TypeOK
    <2>2. DepthInRange /\ ScoreInside /\ Window /\ Returned /\ Settled /\ Kept
        BY DEF Init, DepthInRange, ScoreInside, Window, Returned, Settled, Kept
    <2>3. ScoreIsExact
        BY DEF Init, ScoreIsExact
    <2> QED
        BY <2>1, <2>2, <2>3 DEF IInv
<1> QED
    BY <1>1, InvStep, PTL DEF Spec

\* The variables of Search::search keep to their sets.
THEOREM SearchType == Spec => []TypeOK
<1>1. IInv => TypeOK
    BY DEF IInv
<1> QED
    BY <1>1, InvAlways, PTL

\* Whatever the scores at the different depths are, and whenever the search is
\* stopped, the score it holds is the value of the position at the depth its
\* line comes from.
THEOREM AnswerIsExact == Spec => []ScoreIsExact
<1>1. IInv => ScoreIsExact
    BY DEF IInv
<1> QED
    BY <1>1, InvAlways, PTL

\* search.cpp:666-682: an iteration is begun only with the time spent so far
\* inside both cutoffs, the soft one as it stands after the last iteration.
THEOREM NoneIsBegunLate == Spec => NoIterationPastTime
<1> DEFINE InTime == depth' > depth => millis <= Hard /\ millis <= soft_cutoff'
<1>1. TypeOK /\ [Next]_vars => InTime
    <2> SUFFICES ASSUME TypeOK, [Next]_vars, depth' > depth
                 PROVE  millis <= Hard /\ millis <= soft_cutoff'
        BY DEF InTime
    <2>1. depth \in Nat /\ millis \in Nat /\ soft_cutoff \in Nat /\ Hard \in Int
        BY TimeAssumption DEF TypeOK
    <2>2. depth' # depth
        BY <2>1
    <2>3. Report
        BY <2>2 DEF Next, Step, Iterate, PvSearch, CheckBounds, StopSeen, SetStop, vars
    <2>4. PICK millis_next \in {t \in Times \cup {millis} : t >= millis} :
              ~OutOfTime(millis_next, millis, soft_cutoff')
        BY <2>2, <2>3 DEF Report
    <2>5. millis_next \in Nat /\ millis_next >= millis /\ soft_cutoff' \in Nat
        BY <2>1, <2>3, <2>4, TimeAssumption DEF Report
    <2> QED
        BY <2>1, <2>4, <2>5 DEF OutOfTime
<1>2. Spec => [][InTime]_vars
    <2> HIDE DEF InTime
    <2> QED  BY <1>1, SearchType, PTL DEF Spec
<1> QED
    BY <1>2 DEF NoIterationPastTime

\* search.cpp:646: the clock cannot stop a search that has no line yet.
THEOREM FirstIsKept == Spec => FirstIterationKept
<1> DEFINE HasLine == (pc = "search" /\ stop' /\ ~stop /\ pc' # pc /\ ~NodeLimit)
                      => principle # NoLine
<1>1. ASSUME PvSearch, stop', ~stop, ~NodeLimit PROVE allow_cutoff
    <2> HIDE DEF MAX_SCORE
    <2>1. stop' # stop
        BY <1>1
    <2>2. \E t \in Times : stop' = stop \/ stop \/ MayStopItself(t)
        BY <1>1 DEF PvSearch
    <2> QED
        BY <1>1, <2>1, <2>2 DEF MayStopItself
<1>2. IInv /\ [Next]_vars => HasLine
    <2> SUFFICES ASSUME IInv, [Next]_vars, pc = "search", stop', ~stop, pc' # pc,
                        ~NodeLimit
                 PROVE  principle # NoLine
        BY DEF HasLine
    <2>1. PvSearch
        BY DEF Next, Step, Iterate, CheckBounds, StopSeen, Report, SetStop, vars
    <2> QED
        BY <1>1, <2>1 DEF IInv, Kept
<1>3. Spec => [][HasLine]_vars
    <2> HIDE DEF HasLine
    <2> QED  BY <1>2, InvAlways, PTL DEF Spec
<1> QED
    BY <1>3 DEF FirstIterationKept
-----------------------------------------------------------------------------
\* The cutoffs go hands to the search.
Clock == INSTANCE Clock

(***************************************************************************)
(* Whatever the increment and the moves to go, a search is killed with a   *)
(* fifth of the clock left, and by move_time if that is less, however much *)
(* the last move before the control or the increment would allow.          *)
(***************************************************************************)
THEOREM KilledInTime ==
    ASSUME NEW our_time \in Nat, NEW our_inc \in Nat, NEW movestogo \in Nat,
           NEW move_time \in Nat
    PROVE  LET hard == Clock!hard_cutoff(our_time, our_inc, movestogo, move_time)
           IN 0 <= hard /\ 5 * hard <= 4 * our_time /\ hard <= move_time
<1> DEFINE fifth == (4 * our_time) \div 5
           budget == Clock!Budget(our_time, our_inc, movestogo)
           hard == Clock!hard_cutoff(our_time, our_inc, movestogo, move_time)
<1>1. fifth \in Nat /\ 5 * fifth <= 4 * our_time
  OBVIOUS
<1>2. budget \in Int /\ 0 <= budget
  <2>1. our_time \div 2 \in Nat
    OBVIOUS
  <2>2. Clock!LastMove(our_time + our_inc) \in Int /\ 0 <= Clock!LastMove(our_time + our_inc)
    BY DEF Clock!LastMove, Clock!Smaller, Clock!Larger
  <2> QED
    BY <2>1, <2>2 DEF Clock!Budget, Clock!POS_INF
<1>3. hard \in {move_time, fifth, budget} /\ hard <= move_time /\ hard <= fifth
  <2> HIDE DEF fifth, budget
  <2>1. hard = Clock!Smaller(Clock!Smaller(move_time, fifth), budget)
    BY DEF Clock!hard_cutoff, fifth, budget
  <2> HIDE DEF hard
  <2> QED
    BY <1>1, <1>2, <2>1 DEF Clock!Smaller
<1> HIDE DEF fifth, budget, hard
<1>4. 0 <= hard /\ 5 * hard <= 4 * our_time /\ hard <= move_time
  BY <1>1, <1>2, <1>3
<1> QED
  BY <1>4 DEF hard
=============================================================================
