-------------------------------- MODULE Board --------------------------------
(***************************************************************************)
(* Class Board (board.cpp) as its callers use it: a position is decoded    *)
(* from a FEN, moves of the generator are made on it and taken back, last  *)
(* one first, and so are null moves, as the search does when it may pass.  *)
(* The entries of aux_history and hash_history above the ply are dropped:  *)
(* make_move writes every field of an entry before anything reads it.      *)
(***************************************************************************)
EXTENDS MoveGen, Rules, Sequences

CONSTANTS
    Fens    \* the positions set up: records [at, who, rights, ep, clock, counter, plies],
            \* plies being the bound on the moves played from them

VARIABLES
    board,          \* the members a move changes in place
    aux_history,    \* the AuxilliaryInfo of the plies 0 .. ply_counter
    hash_history,   \* their hashes
    fen,            \* history: the FEN the game was set up from
    boards          \* history: the boards of the earlier plies

vars == <<board, aux_history, hash_history, fen, boards>>

ply_counter == Len(aux_history) - 1
aux_info == aux_history[Len(aux_history)]
hash == hash_history[Len(hash_history)]

\* What fen_decode and initialise() make of each position.
Decoded(f) == DecodedBoard(f.at, f.who, f.counter)

\* What the code takes on trust of a FEN: one king a side and the kings apart, no
\* pawn on a back rank, the side that has moved not in check and the other from at
\* most two pieces, kings and rooks at home for the rights, and for the file of a
\* double push the pawn that made it, which had no sliding check to leave standing.
LegalFen(f) ==
    LET b == Decoded(f)
        us == f.who
        them == Other(us)
        ks == b.king_square[us]
        pawn == Square(relative_rank(us, 4), f.ep)
        from == Square(relative_rank(us, 6), f.ep)
        earlier == (b.occupied_bb \ {pawn}) \cup {from}
    IN /\ \A c \in Colours : \E s \in Sq : pieces(b, c, "KING") = {s}
       /\ b.king_square["WHITE"] \notin KingAttacks[b.king_square["BLACK"]]
       /\ \A s \in b.piece_bb["PAWN"] : rank(s) \in 1 .. 6
       /\ Checkers([b EXCEPT !.whos_move = them]) = {} /\ Cardinality(Checkers(b)) <= 2
       /\ \A right \in f.rights : /\ KingSquare(right[1]) \in pieces(b, right[1], "KING")
                                  /\ RookSquares(right[1], right[2]) \in pieces(b, right[1], "ROOK")
       /\ f.ep # NO_FILE =>
             /\ pawn \in pieces(b, them, "PAWN")
             /\ {Square(relative_rank(us, 5), f.ep), from} \cap b.occupied_bb = {}
             /\ rook_attacks(earlier, ks) \cap RookLike(b, them) = {}
             /\ bishop_attacks(earlier, ks) \cap BishopLike(b, them) = {}

ASSUME FensAssumption ==
    \A f \in Fens : /\ f.at \in [DOMAIN f.at -> Colours \X PieceTypes] /\ DOMAIN f.at \subseteq Sq
                    /\ f.who \in Colours
                    /\ f.rights \subseteq Colours \X Sides
                    /\ f.ep \in Files \cup {NO_FILE}
                    /\ {f.clock, f.counter, f.plies} \subseteq Nat
                    /\ LegalFen(f)

SetUp ==
    [f \in Fens |->
        LET b == Decoded(f)
            a == DecodedAux(b, f.rights, f.clock, f.ep)
        IN [board |-> b, aux |-> a, hash |-> ZobristHash(b, a)]]

Init ==
    /\ fen \in Fens
    /\ board = SetUp[fen].board
    /\ aux_history = <<SetUp[fen].aux>>
    /\ hash_history = <<SetUp[fen].hash>>
    /\ boards = <<>>

\* fen_decode, on a board that has been played on.
FenDecode ==
    \E f \in Fens :
        /\ fen' = f
        /\ board' = SetUp[f].board
        /\ aux_history' = <<SetUp[f].aux>>
        /\ hash_history' = <<SetUp[f].hash>>
        /\ boards' = <<>>

\* make_move, for a move of get_moves; the captured piece is looked up in it.
MakeMove ==
    /\ ply_counter < fen.plies
    /\ \E move \in get_moves(board, aux_info) :
        LET m == [move EXCEPT !.captured_piece = Captured(board, move)]
            us == board.whos_move
            lost == LostRights(aux_info.castling_rights, us, m)
        IN /\ board' = MakeBoard(board, m)
           /\ aux_history' = Append(aux_history, MakeAux(board, aux_info, m))
           /\ hash_history' = Append(hash_history,
                 Xor(hash, ZobristDiff(m, us, aux_info.en_passent_target, lost)))
    /\ boards' = Append(boards, board)
    /\ UNCHANGED fen

Shorter(s) == SubSeq(s, 1, Len(s) - 1)

\* unmake_move, for the move made last.
UnmakeMove ==
    /\ ply_counter > 0 /\ aux_info.last_move # NULL_MOVE
    /\ board' = UnmakeBoard(board, aux_info.last_move)
    /\ aux_history' = Shorter(aux_history)
    /\ hash_history' = Shorter(hash_history)
    /\ boards' = Shorter(boards)
    /\ UNCHANGED fen

\* The search passes when it is not in check, and not twice in a row.
MakeNullmove ==
    /\ ply_counter < fen.plies
    /\ ~is_check(aux_info)
    /\ ply_counter > 0 => aux_info.last_move # NULL_MOVE
    /\ board' = NullBoard(board)
    /\ aux_history' = Append(aux_history, NullAux(board, aux_info))
    /\ hash_history' = Append(hash_history,
          Xor(hash, ZobristNulldiff(board.whos_move, aux_info.en_passent_target)))
    /\ boards' = Append(boards, board)
    /\ UNCHANGED fen

UnmakeNullmove ==
    /\ ply_counter > 0 /\ aux_info.last_move = NULL_MOVE
    /\ board' = UnnullBoard(board)
    /\ aux_history' = Shorter(aux_history)
    /\ hash_history' = Shorter(hash_history)
    /\ boards' = Shorter(boards)
    /\ UNCHANGED fen

\* flip, as the tests and byte_encoded use it on a position just set up: in place,
\* and the hash written anew.  The position is then played a ply less.
Flip ==
    /\ ply_counter = 0 /\ fen.plies > 0
    /\ board' = FlippedBoard(board)
    /\ aux_history' = <<FlippedAux(board, aux_info)>>
    /\ hash_history' = <<ZobristHash(board', aux_history'[1])>>
    /\ fen' = [fen EXCEPT !.plies = @ - 1, !.rights = aux_history'[1].castling_rights]
    /\ UNCHANGED boards

Next == FenDecode \/ Flip \/ MakeMove \/ UnmakeMove \/ MakeNullmove \/ UnmakeNullmove

Spec == Init /\ [][Next]_vars

(***************************************************************************)
(* Properties.                                                             *)
(***************************************************************************)
\* The arrays are of two checkers.
TypeOK ==
    /\ board.whos_move \in Colours
    /\ board.occupied_bb \subseteq Sq
    /\ board.piece_bb \in [PieceTypes -> SUBSET Sq]
    /\ board.colour_bb \in [Colours -> SUBSET Sq]
    /\ board.king_square \in [Colours -> Sq]
    /\ board.phase_material \in Nat /\ board.fullmove_counter \in Nat
    /\ Len(hash_history) = Len(aux_history) /\ Len(boards) = ply_counter
    /\ \A i \in DOMAIN aux_history :
          LET a == aux_history[i]
          IN /\ a.castling_rights \subseteq Colours \X Sides
             /\ a.en_passent_target \in Files \cup {NO_FILE}
             /\ Cardinality(a.checkers) <= 2

\* The three views of the board agree with each other and with what is counted
\* along the way (the assertions of make_move): each occupied square is in one
\* colour and one type, the counts are those of the bitboards, and the kings
\* are where they are said to be.
CountsTracked ==
    /\ board.occupied_bb = board.colour_bb["WHITE"] \cup board.colour_bb["BLACK"]
    /\ board.colour_bb["WHITE"] \cap board.colour_bb["BLACK"] = {}
    /\ UNION {board.piece_bb[p] : p \in PieceTypes} = board.occupied_bb
    /\ \A p, q \in PieceTypes : p # q => board.piece_bb[p] \cap board.piece_bb[q] = {}
    /\ \A c \in Colours, p \in PieceTypes :
          board.piece_counts[c][p] = Cardinality(pieces(board, c, p))
    /\ \A c \in Colours : pieces(board, c, "KING") = {board.king_square[c]}
    /\ board.phase_material = DecodedBoard([s \in board.occupied_bb |-> <<
            IF s \in board.colour_bb["WHITE"] THEN "WHITE" ELSE "BLACK",
            piece_type(board, s)>>], board.whos_move, 1).phase_material

\* assert(hash() == Zobrist::hash(*this)): the hash kept by differences is that
\* of the position, whatever has been captured, castled or promoted.
HashTracked == hash = ZobristHash(board, aux_info)

\* A right to castle is only held with the king and that rook at home, so that
\* the castling moves of the generator move the pieces they say.
RightsHold ==
    \A right \in aux_info.castling_rights :
        /\ KingSquare(right[1]) \in pieces(board, right[1], "KING")
        /\ RookSquares(right[1], right[2]) \in pieces(board, right[1], "ROOK")

\* The board as the rules of chess see it.
At == AtOf(board)

\* The generator makes the legal moves and no others, pins, double checks and
\* captures en passant included.
MovesAreLegal ==
    get_moves(board, aux_info)
        = LegalMoves(At, board.whos_move, aux_info.castling_rights, aux_info.en_passent_target)

Foreseen(m) == gives_check(board, aux_info, m)
               = InCheck(Played(At, m), Other(board.whos_move))

\* gives_check tells, before a move is made, whether the other king is then in
\* check, direct, discovered, by a promoted piece or by a castled rook.
ChecksForeseen ==
    \A m \in get_moves(board, aux_info) : m.type # "EN_PASSENT" => Foreseen(m)

\* "The only way this could be problematic is if the en-passent unblocks a
\* rank" (board.cpp): so does gives_check for a capture en passant.
EnPassentForeseen ==
    \A m \in get_moves(board, aux_info) : m.type = "EN_PASSENT" => Foreseen(m)

\* A move taken back, and a null move, leave nothing behind.
UnmakeRestores ==
    [][UnmakeMove \/ UnmakeNullmove => board' = boards[Len(boards)]]_vars
=============================================================================
