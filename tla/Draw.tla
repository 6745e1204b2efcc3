--------------------------------- MODULE Draw ---------------------------------
(***************************************************************************)
(* Board::is_draw and repetitions (board.cpp), which read the histories of *)
(* Board.  root_node_ply, which set_root may put at any ply of the game, is*)
(* a parameter here.                                                       *)
(***************************************************************************)
EXTENDS Board

\* repetitions(start, query), and repetitions(start) with the current ply.
repetitions(start, query) ==
    Cardinality({i \in start .. query - 1 : hash_history[i + 1] = hash_history[query + 1]})

\* A wrong variant: the root itself is not looked at.
SinceRoot_after(root) == repetitions(root + 1, ply_counter)

SinceRoot(root) == repetitions(root, ply_counter)
BeforeRoot(root) ==
    Cardinality({i \in 0 .. root - 1 : hash_history[i + 1] = hash})

Repeated(root) == SinceRoot(root) > 0 \/ BeforeRoot(root) + SinceRoot(root) > 1

InsufficientMaterial ==
    /\ \A p \in {"QUEEN", "ROOK", "PAWN"} : board.piece_bb[p] = {}
    /\ \A c \in Colours :
          LET n == board.piece_counts[c]
          IN n["BISHOP"] <= 1 /\ n["KNIGHT"] <= 2 /\ ~(n["KNIGHT"] >= 1 /\ n["BISHOP"] >= 1)

is_draw(root) == Repeated(root) \/ aux_info.halfmove_clock >= 100 \/ InsufficientMaterial

-----------------------------------------------------------------------------
\* The position of an earlier ply, as the rules see it: two are the same if the
\* same player has the same moves with the same pieces.
Past(i) == AtOf(boards[i + 1])
SamePosition(i) ==
    /\ boards[i + 1].whos_move = board.whos_move
    /\ Past(i) = At
    /\ LET a == aux_history[i + 1]
       IN LegalMoves(Past(i), board.whos_move, a.castling_rights, a.en_passent_target)
          = LegalMoves(At, board.whos_move, aux_info.castling_rights, aux_info.en_passent_target)
Occurred(from, to) == {i \in from .. to - 1 : SamePosition(i)}

\* No pawn has just passed, in any position of the game: the hash holds the file
\* of one that has, whether or not anything can capture it.
NothingPassed == \A i \in DOMAIN aux_history : aux_history[i].en_passent_target = NO_FILE

\* The moves since the last capture or pawn's move, and those before the FEN.
Reversible == {i \in 1 .. ply_counter :
                 \A j \in i .. ply_counter :
                    LET m == aux_history[j + 1].last_move
                    IN ~is_capture(m) /\ m.moving_piece # "PAWN"}
Unprogressed ==
    Cardinality(Reversible) + IF Cardinality(Reversible) = ply_counter THEN fen.clock ELSE 0

\* Wherever the root is, the search takes for a draw what the rules do: a position
\* that has occurred since the root, or twice in the game, and none that only
\* looks like one; fifty moves by each side in which nothing was taken and no
\* pawn moved; or too little material.  (A right to castle that is lost without a
\* move being lost, or a pawn that nothing can take in passing, makes the hash
\* differ where the rules see one position.)
DrawsAreReal ==
    \A root \in 0 .. ply_counter :
        LET real == \/ Occurred(root, ply_counter) # {}
                    \/ Cardinality(Occurred(0, root)) > 1
            other == Unprogressed >= 100 \/ InsufficientMaterial
        IN /\ is_draw(root) => real \/ other
           /\ (real /\ NothingPassed /\ fen.rights = {}) \/ other => is_draw(root)
=============================================================================
