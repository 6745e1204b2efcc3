------------------------- MODULE MCIterativeDeepening -------------------------
(***************************************************************************)
(* Three iterations over scores that fall inside the first window, on its  *)
(* edges, between the later ones, beyond the last and among the mates.     *)
(***************************************************************************)
EXTENDS IterativeDeepening

MCValues == {0, 30, -79, 640, 32740, -32740}
MCTimes == {0, 9, 10, 11}
MCMoves == {"m1", "m2"}

\* go wtime 200 movetime 10: both cutoffs are of 10 ms.
Clock == INSTANCE Clock
MCSoft == Clock!soft_cutoff(200, 0, 0)
MCHard == Clock!hard_cutoff(200, 0, 0, 10)

\* Mates on the fifth ply of the game and later.
MateValues == {0, MATING_SCORE - 5, MATING_SCORE - 15}
=============================================================================
