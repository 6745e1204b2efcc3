----------------------------- MODULE MCTransTable -----------------------------
(***************************************************************************)
(* A small table: three positions in at most two slots, scores at the edges *)
(* of the mate range, and depths on both sides of eight bits.              *)
(***************************************************************************)
EXTENDS TransTable, TLC

MCHashes == {0, 1, 3}
\* One MiB holds one entry and 32 bits count up to 4, so that there are one, two or
\* no slots, and two where the size has wrapped.
MCOptions == {0, 3, 4, 6}
MCBitFloor == <<1, 2, 2>> @@ (0 :> 0)
MCEvals == {17, MIN_MATE_SCORE, -MIN_MATE_SCORE - 1, 3 - MATING_SCORE}
MCDepths == {1, 2, 258}
MCMoves == {"m"}
MCPlies == {0, 2}
DefaultOnly == {3}
FewHashes == {1, 3}
FewEvals == {17, MATING_SCORE - 2}
TwoDepths == {1, 2}
=============================================================================
