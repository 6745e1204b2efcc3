----------------------------- MODULE UciContract -----------------------------
(***************************************************************************)
(* What the GUI may rely on, whatever the threads inside the engine do:    *)
(* there is one position; work is started on it by `go` or `perft`, one at *)
(* a time; while that work lasts no position is set up, but `ucinewgame`   *)
(* puts the first one back at any time; a search ends in one answer, which *)
(* is a legal move of the position on the board when that position has one.*)
(***************************************************************************)
CONSTANTS Positions, NoMoves, StartPos

VARIABLES
    phase,      \* idle, thinking (a go), counting (a perft), or gone
    position,
    answer      \* the kind of the last bestmove

vars == <<phase, position, answer>>

Init == phase = "idle" /\ position = StartPos /\ answer = "none"

SetPosition ==
    /\ phase = "idle"
    /\ position' \in Positions
    /\ UNCHANGED <<phase, answer>>

NewGame ==
    /\ phase # "gone"
    /\ position' = StartPos
    /\ UNCHANGED <<phase, answer>>

Go == phase = "idle" /\ phase' = "thinking" /\ UNCHANGED <<position, answer>>

Answer ==
    /\ phase = "thinking" /\ phase' = "idle"
    /\ answer' \in IF position \in NoMoves THEN {"junk"} ELSE {"found", "any_legal"}
    /\ UNCHANGED position

Count == phase = "idle" /\ phase' = "counting" /\ UNCHANGED <<position, answer>>

Counted == phase = "counting" /\ phase' = "idle" /\ UNCHANGED <<position, answer>>

\* quit, or the process dies
Leave == phase # "gone" /\ phase' = "gone" /\ UNCHANGED <<position, answer>>

Next == SetPosition \/ NewGame \/ Go \/ Answer \/ Count \/ Counted \/ Leave

Spec == Init /\ [][Next]_vars

\* Work that was started is finished.
Finishes == WF_vars(Answer \/ Counted)
=============================================================================
