-------------------------------- MODULE Clock --------------------------------
(***************************************************************************)
(* How long a search may take: the two cutoffs go (uci.cpp) hands to it,   *)
(* from the clock of the side to move, in milliseconds.  The doubles of    *)
(* the code are cut off to integers, as the conversions do there.          *)
(***************************************************************************)
EXTENDS Integers

POS_INF == 1000000000
Smaller(a, b) == IF a < b THEN a ELSE b
Larger(a, b) == IF a > b THEN a ELSE b

\* How much time to spend on this move.
soft_cutoff(our_time, our_inc, movestogo) ==
    IF our_time = POS_INF THEN POS_INF
    ELSE IF movestogo = 0 THEN our_time \div 20 + our_inc
    ELSE (2 * our_time) \div (movestogo + 2) + our_inc

\* 10ms to spare before the time control, if there are as many.
LastMove(left) == Larger(Smaller(left, 10), left - 10)

\* The time after which the search is killed.
Budget(our_time, our_inc, movestogo) ==
    IF our_time = POS_INF THEN POS_INF
    ELSE IF movestogo = 1 THEN LastMove(our_time + our_inc)
    ELSE our_time \div 2 + our_inc
hard_cutoff(our_time, our_inc, movestogo, move_time) ==
    Smaller(Smaller(move_time, (4 * our_time) \div 5), Budget(our_time, our_inc, movestogo))
=============================================================================
