-------------------------- MODULE IterativeDeepening --------------------------
(***************************************************************************)
(* Search::search (search.cpp): one search of a position, as a series of   *)
(* deeper and deeper calls of pv_search, each in a window around the score *)
(* of the last that is widened until the score falls inside it; and what   *)
(* ends the series: the depth, the clock, a node limit, a mate, a stop.    *)
(*                                                                         *)
(* pv_search is taken by its contract: with bounds alpha and beta it       *)
(* returns the value of the position at its depth if that lies between     *)
(* them, and otherwise a bound on it beyond the one it fails on (it is     *)
(* fail-soft).  The value is a constant of the depth: the instability that *)
(* the transposition table brings to a real search is left out.  Time is   *)
(* counted in units of any length.                                         *)
(***************************************************************************)
EXTENDS Integers

CONSTANTS
    MaxDepth,   \* max_depth
    Values,     \* the scores the position can have at some depth
    RootMoves,
    Soft,       \* soft_cutoff
    Hard,       \* hard_cutoff, negative if the clock has run out already
    NodeLimit,  \* whether the search has a limit on its nodes
    MateDepth,  \* options.mate_depth
    RootPly,    \* the moves played since the FEN was set up
    Times       \* bound: the clock readings

\* types.hpp
MAX_PLY == 512
MAX_SCORE == 32767
MATING_SCORE == MAX_SCORE - 1
MIN_MATE_SCORE == MATING_SCORE - MAX_PLY
is_mating(score) == score >= MIN_MATE_SCORE /\ score <= MATING_SCORE
mate_score_to_ply(score) == MATING_SCORE - score

aspration_windows == [aw \in 0 .. 3 |-> CASE aw = 0 -> 30 [] aw = 1 -> 80
                                          [] aw = 2 -> 200 [] aw = 3 -> 500]
n_aw == 4

ASSUME DepthAssumption == MaxDepth \in Nat
\* The root is neither mated nor able to be mating: it has a move, and no score
\* is better than a mate on the next ply.
ASSUME ValuesAssumption ==
    Values \subseteq {v \in Int : -MATING_SCORE < v /\ v < MATING_SCORE}
ASSUME TimeAssumption == Soft \in Nat /\ Hard \in Int /\ Times \subseteq Nat
ASSUME LimitAssumption == NodeLimit \in BOOLEAN /\ MateDepth \in Nat /\ RootPly \in Nat

VARIABLES
    pc,             \* what Search::search does next
    value,          \* the value of the position at each depth
    depth, aw, alpha, beta,
    new_score, temp_line,   \* what pv_search returned
    score, principle,       \* what the search will return
    allow_cutoff,
    soft_cutoff,
    last_best_move,
    stop,           \* options.stop_flag
    millis          \* the time since the origin

vars == <<pc, value, depth, aw, alpha, beta, new_score, temp_line, score,
          principle, allow_cutoff, soft_cutoff, last_best_move, stop, millis>>

NoMove == "none"
NoLine == [depth |-> 0, move |-> NoMove]
Smaller(a, b) == IF a < b THEN a ELSE b
Larger(a, b) == IF a > b THEN a ELSE b

\* A wrong variant: the first iteration is of depth 1.
FirstDepthOne == 1

FirstDepth == 2

Init ==
    /\ pc = "iterate"
    /\ value \in [2 .. MaxDepth -> Values]
    /\ depth = FirstDepth
    /\ aw = 0 /\ alpha = 0 /\ beta = 0
    /\ new_score = 0 /\ temp_line = NoLine
    /\ score = 0 /\ principle = NoLine
    /\ allow_cutoff = FALSE
    /\ soft_cutoff = Soft
    /\ last_best_move = NoMove
    /\ stop = FALSE
    /\ millis = 0

\* The head of the loop over the depths.
Iterate ==
    /\ pc = "iterate"
    /\ IF depth <= MaxDepth
       THEN /\ pc' = "search"
            /\ aw' = 0
            /\ alpha' = score - aspration_windows[0]
            /\ beta' = score + aspration_windows[0]
       ELSE pc' = "done" /\ UNCHANGED <<aw, alpha, beta>>
    /\ UNCHANGED <<value, depth, new_score, temp_line, score, principle,
                   allow_cutoff, soft_cutoff, last_best_move, stop, millis>>

\* What pv_search can return for a value v, from the contract above.
Returns(v, a, b) ==
    CASE v <= a -> {r \in Values \cup {a} : v <= r /\ r <= a}
      [] v >= b -> {r \in Values \cup {b} : b <= r /\ r <= v}
      [] OTHER -> {v}

\* Past the time cutoff, which pv_search and scout_search take as unsigned.
PastCutoff(t) == t > (IF Hard >= 0 THEN Hard ELSE Hard + 2 ^ 32)

\* A wrong variant: the cutoff applies from the first iteration on.
MayStopItselfAtOnce(t) == NodeLimit \/ PastCutoff(t)

\* Whether the search can raise the stop flag itself.
MayStopItself(t) == NodeLimit \/ (allow_cutoff /\ PastCutoff(t))

PvSearch ==
    /\ pc = "search"
    /\ pc' = "bounds"
    /\ \E t \in Times :
        /\ t >= millis
        /\ millis' = t
        /\ \/ /\ new_score' \in Returns(value[depth], alpha, beta)
              /\ \E move \in RootMoves : temp_line' = [depth |-> depth, move |-> move]
              /\ UNCHANGED stop
           \/ /\ stop \/ MayStopItself(t)
              /\ new_score' = MAX_SCORE
              /\ temp_line' = NoLine
              /\ stop' = TRUE
    /\ UNCHANGED <<value, depth, aw, alpha, beta, score, principle, allow_cutoff,
                   soft_cutoff, last_best_move>>

\* A wrong variant: the last window is no wider than the list goes.
NextOffsetListed(k) == IF k < n_aw - 1 THEN aspration_windows[k + 1] ELSE aspration_windows[3]

\* How far from the last score the bound that failed in window k is set next;
\* beyond the list it is the score of a mate itself.
NextOffset(k) == IF k < n_aw - 1 THEN aspration_windows[k + 1] ELSE MATING_SCORE

NextAlpha ==
    IF is_mating(-new_score) \/ NextOffset(aw) = MATING_SCORE
    THEN -MATING_SCORE
    ELSE Larger(score - NextOffset(aw), -MATING_SCORE)

NextBeta ==
    IF is_mating(new_score) \/ NextOffset(aw) = MATING_SCORE
    THEN MATING_SCORE
    ELSE Smaller(score + NextOffset(aw), MATING_SCORE)

\* The rest of the body of the loop over the windows.
InWindow == ~stop /\ alpha < new_score /\ new_score < beta
AdjustWindow ==
    CASE new_score <= alpha -> alpha' = NextAlpha /\ UNCHANGED beta
      [] OTHER -> beta' = NextBeta /\ UNCHANGED alpha

\* A wrong variant: the windows are not counted.
CheckBoundsAgain ==
    /\ pc = "bounds"
    /\ \/ /\ stop \/ InWindow
          /\ pc' = "report"
          /\ UNCHANGED <<aw, alpha, beta>>
       \/ /\ ~stop /\ ~InWindow
          /\ pc' = "search"
          /\ UNCHANGED <<aw, alpha, beta>>
    /\ UNCHANGED <<value, depth, new_score, temp_line, score, principle,
                   allow_cutoff, soft_cutoff, last_best_move, stop, millis>>

CheckBounds ==
    /\ pc = "bounds"
    /\ \/ /\ stop \/ InWindow
          /\ pc' = "report"
          /\ UNCHANGED <<aw, alpha, beta>>
       \/ /\ ~stop /\ ~InWindow
          /\ AdjustWindow
          /\ aw' = aw + 1
          /\ pc' = IF aw < n_aw THEN "search" ELSE "report"
    /\ UNCHANGED <<value, depth, new_score, temp_line, score, principle,
                   allow_cutoff, soft_cutoff, last_best_move, stop, millis>>

\* A wrong variant: the soft cutoff is not looked at.
OutOfTimeHard(next, now, soft) == next > Hard

OutOfTime(next, now, soft) == next > Hard \/ now > soft

ReachedMate(s) == is_mating(s) /\ mate_score_to_ply(s) <= 2 * MateDepth

\* The stop is seen, or the result of the iteration is taken over and the
\* search goes on to the next one.  branching_factor is at least 1, being the
\* mean of such numbers, so the estimate for the next iteration is no less than
\* the time spent.
StopSeen ==
    /\ pc = "report" /\ stop
    /\ pc' = "done"
    /\ UNCHANGED <<value, depth, aw, alpha, beta, new_score, temp_line, score, principle,
                   allow_cutoff, soft_cutoff, last_best_move, stop, millis>>

Report ==
    /\ pc = "report" /\ ~stop
    /\ allow_cutoff' = TRUE
    /\ score' = new_score
    /\ principle' = temp_line
    /\ soft_cutoff' = IF temp_line.move = last_best_move
                      THEN soft_cutoff - soft_cutoff \div 10
                      ELSE soft_cutoff
    /\ last_best_move' = temp_line.move
    /\ \E millis_next \in {t \in Times \cup {millis} : t >= millis} :
          IF OutOfTime(millis_next, millis, soft_cutoff') \/ ReachedMate(new_score)
          THEN pc' = "done" /\ UNCHANGED depth
          ELSE pc' = "iterate" /\ depth' = depth + 1
    /\ UNCHANGED <<value, aw, alpha, beta, new_score, temp_line, stop, millis>>

\* The other thread's set_stop(), at any time.
SetStop ==
    /\ pc # "done" /\ ~stop
    /\ stop' = TRUE
    /\ UNCHANGED <<pc, value, depth, aw, alpha, beta, new_score, temp_line, score,
                   principle, allow_cutoff, soft_cutoff, last_best_move, millis>>

Step == Iterate \/ PvSearch \/ CheckBounds \/ StopSeen \/ Report

Next == Step \/ SetStop

Spec == Init /\ [][Next]_vars

\* The thread of the search is scheduled, whatever the other one does.
FairSpec == Spec /\ WF_vars(Step)

(***************************************************************************)
(* Properties.                                                             *)
(***************************************************************************)
TypeOK ==
    /\ pc \in {"iterate", "search", "bounds", "report", "done"}
    /\ value \in [2 .. MaxDepth -> Values]
    /\ depth \in Nat /\ depth >= 2
    /\ aw \in 0 .. n_aw + 1
    /\ {alpha, beta, new_score, score} \subseteq Int
    /\ {temp_line, principle} \subseteq [depth : Nat, move : RootMoves \cup {NoMove}]
    /\ allow_cutoff \in BOOLEAN /\ stop \in BOOLEAN
    /\ soft_cutoff \in Nat /\ millis \in Nat
    /\ last_best_move \in RootMoves \cup {NoMove}

\* "so that we still have the last valid score if the search is stopped by
\* force" (search.cpp:648): at any moment the score to return is the value of
\* the position at the depth its line comes from, never a bound left over from
\* a window that failed nor what a stopped search returned.
ScoreIsExact ==
    IF principle = NoLine THEN score = 0
    ELSE principle.depth \in 2 .. MaxDepth /\ score = value[principle.depth]

\* Once the hard cutoff has passed, or the soft one as it then stands, no
\* deeper iteration is begun.
NoIterationPastTime ==
    [][depth' > depth => millis <= Hard /\ millis <= soft_cutoff']_vars

\* The clock alone never ends a search before it has a line (search.cpp:646:
\* "Allow a forced stop after at least some calculation has been done").
FirstIterationKept ==
    [][(pc = "search" /\ stop' /\ ~stop /\ pc' # pc /\ ~NodeLimit)
       => principle # NoLine]_vars

\* A search ends, whether or not anybody stops it: no window is tried for ever.
Terminates == <>(pc = "done")

\* search.cpp:684: "Break if reached mate in N depth": a search that has found
\* a mate within mate_depth moves of its own position looks no further.
StopsAtMate ==
    (pc = "search" /\ is_mating(score))
    => mate_score_to_ply(score) - RootPly > 2 * MateDepth
=============================================================================
