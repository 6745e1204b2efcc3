------------------------------ MODULE KillerQueue ------------------------------
(***************************************************************************)
(* What the killer table promises the move ordering: for each ply, the     *)
(* last few different quiet moves that refuted a position there, the       *)
(* oldest giving way to the newest.                                        *)
(***************************************************************************)
EXTENDS Naturals, Sequences, SequencesExt

CONSTANTS Plies, Moves, Length

VARIABLE queue      \* for each ply, its moves, the oldest first

Remember(ply, move) ==
    /\ move \notin ToSet(queue[ply])
    /\ queue' = [queue EXCEPT ![ply] =
                    Append(IF Len(@) = Length THEN Tail(@) ELSE @, move)]

Init == queue = [ply \in Plies |-> <<>>]

Next == \E ply \in Plies, move \in Moves : Remember(ply, move)

Spec == Init /\ [][Next]_queue
=============================================================================
