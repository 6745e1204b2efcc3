---------------------------- MODULE MCMoveOrdering ----------------------------
(***************************************************************************)
(* One ply; four quiet moves, one more than a row holds, and a double push *)
(* that share a cell of the history table; a capture, a promotion and one  *)
(* that captures.                                                          *)
(***************************************************************************)
EXTENDS MoveOrdering

MCMoves == {"q1", "q2", "q3", "q4", "push", "take", "queen", "takequeen"}
MCType == [m \in MCMoves |-> CASE m = "push" -> "DOUBLE_PUSH" [] m = "take" -> "CAPTURE"
                               [] m = "queen" -> "PROMOTION"
                               [] m = "takequeen" -> "CAPTURE_PROMOTION" [] OTHER -> "QUIETmv"]
MCSlot == [m \in MCMoves |-> CASE m = "queen" -> "last rank" [] m = "take" -> "taken"
                               [] m = "takequeen" -> "taken last" [] OTHER -> "quiet"]
MCPlies == {0}
MCDepths == {127}
MCSeeValues == {-900, -51, -50, -49, 0, 49, 50, 51, 900}
=============================================================================
