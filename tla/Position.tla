------------------------------- MODULE Position -------------------------------
(***************************************************************************)
(* A position as class Board (board.cpp) holds it, and what make_move and  *)
(* unmake_move do to it.  A board b is the record of the members that are  *)
(* the same object before and after a move; a is the AuxilliaryInfo of the *)
(* ply, of which a move makes a new one.  A hash is the set of the Zobrist *)
(* keys it is the exclusive or of, so two hashes are equal only if they    *)
(* are of the same keys: collisions are left out.                          *)
(***************************************************************************)
EXTENDS Squares, FiniteSets

NO_PIECE == "NO_PIECE"
MoveTypes == {"QUIETmv", "CAPTURE", "PROMOTION", "CAPTURE_PROMOTION", "EN_PASSENT",
              "DOUBLE_PUSH", "KING_CASTLE", "QUEEN_CASTLE"}

\* A move, with the piece it promotes to and the one it captured once made.
Move(p, o, t, type) ==
    [moving_piece |-> p, origin |-> o, target |-> t, type |-> type,
     promoted |-> NO_PIECE, captured_piece |-> NO_PIECE]
NULL_MOVE == Move(NO_PIECE, 0, 0, "QUIETmv")

is_capture(m) == m.type \in {"CAPTURE", "CAPTURE_PROMOTION", "EN_PASSENT"}
is_promotion(m) == m.type \in {"PROMOTION", "CAPTURE_PROMOTION"}
is_castle(m) == m.type \in {"KING_CASTLE", "QUEEN_CASTLE"}
get_castleside(m) == IF m.type = "KING_CASTLE" THEN "KINGSIDE" ELSE "QUEENSIDE"
CapturedSquare(m) == Square(rank(m.origin), file(m.target))

pieces(b, c, p) == b.colour_bb[c] \cap b.piece_bb[p]
RookLike(b, c) == b.colour_bb[c] \cap (b.piece_bb["ROOK"] \cup b.piece_bb["QUEEN"])
BishopLike(b, c) == b.colour_bb[c] \cap (b.piece_bb["BISHOP"] \cup b.piece_bb["QUEEN"])
piece_type(b, s) == CHOOSE p \in PieceTypes : s \in b.piece_bb[p]

piece_phase_material(p) ==
    CASE p = "PAWN" -> 100 [] p = "KNIGHT" -> 300 [] p = "BISHOP" -> 350
      [] p = "ROOK" -> 500 [] p = "QUEEN" -> 900 [] p = "KING" -> 0

\* A wrong variant: the piece a promotion makes is not counted.
CountPromotedNot(counts, us, m) ==
    IF is_promotion(m) THEN [counts EXCEPT ![us]["PAWN"] = @ - 1] ELSE counts

CountPromoted(counts, us, m) ==
    LET less == [counts EXCEPT ![us]["PAWN"] = @ - 1]
    IN IF is_promotion(m) THEN [less EXCEPT ![us][m.promoted] = @ + 1] ELSE counts

CountCaptured(counts, them, m) ==
    IF is_capture(m) THEN [counts EXCEPT ![them][m.captured_piece] = @ - 1] ELSE counts

\* The change a move makes to the bitboards, which is its own inverse.
FlipColours(bb, us, m) ==
    LET them == Other(us)
        from_to == {m.origin, m.target}
    IN CASE is_castle(m) ->
              [bb EXCEPT ![us] = Xor(Xor(@, from_to), rook_from_to(us, get_castleside(m)))]
         [] m.type = "EN_PASSENT" ->
              [bb EXCEPT ![us] = Xor(@, from_to), ![them] = Xor(@, {CapturedSquare(m)})]
         [] is_capture(m) /\ m.type # "EN_PASSENT" ->
              [bb EXCEPT ![us] = Xor(@, from_to), ![them] = Xor(@, {m.target})]
         [] OTHER -> [bb EXCEPT ![us] = Xor(@, from_to)]

FlipOccupied(occ, us, m) ==
    LET from_to == {m.origin, m.target}
    IN CASE is_castle(m) -> Xor(Xor(occ, from_to), rook_from_to(us, get_castleside(m)))
         [] m.type = "EN_PASSENT" -> Xor(Xor(occ, from_to), {CapturedSquare(m)})
         [] is_capture(m) /\ m.type # "EN_PASSENT" -> Xor(occ, {m.origin})
         [] OTHER -> Xor(occ, from_to)

\* piece_bb ^= of the mover, of what it captures and of what it turns into, one
\* after the other: they may be of the same type.
FlipPieces(bb, us, m) ==
    LET from_to == {m.origin, m.target}
        moved == [bb EXCEPT ![m.moving_piece] = Xor(@, from_to)]
        taken == CASE is_castle(m) ->
                        [moved EXCEPT !["ROOK"] = Xor(@, rook_from_to(us, get_castleside(m)))]
                   [] m.type = "EN_PASSENT" ->
                        [moved EXCEPT !["PAWN"] = Xor(@, {CapturedSquare(m)})]
                   [] is_capture(m) /\ m.type # "EN_PASSENT" ->
                        [moved EXCEPT ![m.captured_piece] = Xor(@, {m.target})]
                   [] OTHER -> moved
        gone == [taken EXCEPT !["PAWN"] = Xor(@, {m.target})]
    IN IF is_promotion(m) THEN [gone EXCEPT ![m.promoted] = Xor(@, {m.target})] ELSE taken

MaterialChange(m) ==
    (IF is_capture(m) THEN -piece_phase_material(m.captured_piece) ELSE 0)
    + (IF is_promotion(m)
       THEN piece_phase_material(m.promoted) - piece_phase_material("PAWN") ELSE 0)

\* make_move, the board's part of it; m.captured_piece is looked up first.
Captured(b, m) ==
    CASE m.type = "EN_PASSENT" -> "PAWN"
      [] is_capture(m) /\ m.type # "EN_PASSENT" -> piece_type(b, m.target)
      [] OTHER -> NO_PIECE

MakeBoard(b, m) ==
    LET us == b.whos_move
        them == Other(us)
    IN [colour_bb |-> FlipColours(b.colour_bb, us, m),
        piece_bb |-> FlipPieces(b.piece_bb, us, m),
        occupied_bb |-> FlipOccupied(b.occupied_bb, us, m),
        piece_counts |-> CountPromoted(CountCaptured(b.piece_counts, them, m), us, m),
        phase_material |-> b.phase_material + MaterialChange(m),
        king_square |-> IF m.moving_piece = "KING"
                        THEN [b.king_square EXCEPT ![us] = m.target] ELSE b.king_square,
        whos_move |-> them,
        fullmove_counter |-> b.fullmove_counter + (IF us = "BLACK" THEN 1 ELSE 0)]

\* unmake_move: the same changes to the bitboards, in an order of its own, and
\* the opposite ones to the counters.
UncountPromoted(counts, us, m) ==
    LET more == [counts EXCEPT ![us]["PAWN"] = @ + 1]
    IN IF is_promotion(m) THEN [more EXCEPT ![us][m.promoted] = @ - 1] ELSE counts

UncountCaptured(counts, them, m) ==
    IF is_capture(m) THEN [counts EXCEPT ![them][m.captured_piece] = @ + 1] ELSE counts

\* A wrong variant: the king stays where the move took it.
RestoreKingNot(king_square, us, m) == king_square

RestoreKing(king_square, us, m) ==
    IF m.moving_piece = "KING" THEN [king_square EXCEPT ![us] = m.origin] ELSE king_square

UnmakeBoard(b, m) ==
    LET us == Other(b.whos_move)
        them == b.whos_move
    IN [colour_bb |-> FlipColours(b.colour_bb, us, m),
        piece_bb |-> FlipPieces(b.piece_bb, us, m),
        occupied_bb |-> FlipOccupied(b.occupied_bb, us, m),
        piece_counts |-> UncountPromoted(UncountCaptured(b.piece_counts, them, m), us, m),
        phase_material |-> b.phase_material - MaterialChange(m),
        king_square |-> RestoreKing(b.king_square, us, m),
        whos_move |-> us,
        fullmove_counter |-> b.fullmove_counter - (IF b.whos_move = "WHITE" THEN 1 ELSE 0)]

NullBoard(b) ==
    [b EXCEPT !.whos_move = Other(@),
              !.fullmove_counter = @ + (IF b.whos_move = "BLACK" THEN 1 ELSE 0)]
\* A wrong variant: the counter goes back on the other colour's move.
UnnullBoardEarly(b) ==
    [b EXCEPT !.whos_move = Other(@),
              !.fullmove_counter = @ - (IF b.whos_move = "BLACK" THEN 1 ELSE 0)]
UnnullBoard(b) ==
    [b EXCEPT !.whos_move = Other(@),
              !.fullmove_counter = @ - (IF b.whos_move = "WHITE" THEN 1 ELSE 0)]

\* The castling rights lost by a move.
HomeRook(us, o) == {side \in Sides : o = RookSquares(us, side)}
\* A wrong variant: a rook that is taken leaves its right behind.
LostRightsMoving(rights, us, m) ==
    rights \cap ((IF m.moving_piece = "KING" THEN {<<us, side>> : side \in Sides} ELSE {})
                 \cup {<<us, side>> : side \in HomeRook(us, m.origin)})

LostRights(rights, us, m) ==
    LET them == Other(us)
        gone == (IF m.moving_piece = "KING" THEN {<<us, side>> : side \in Sides} ELSE {})
                \cup {<<us, side>> : side \in HomeRook(us, m.origin)}
                \cup (IF is_capture(m)
                      THEN {<<them, side>> : side \in HomeRook(them, m.target)} ELSE {})
    IN rights \cap gone

-----------------------------------------------------------------------------
\* The keys of Zobrist::hash, and the changes of diff and nulldiff.
PieceKeys(b) ==
    UNION {{<<c, p, s>> : s \in pieces(b, c, p)} : c \in Colours, p \in PieceTypes}
RightKeys(rights) == {<<"cr", r[1], r[2]>> : r \in rights}
EpKeys(f) == IF f = NO_FILE THEN {} ELSE {<<"ep", "file", f>>}
MoveKey(c) == <<"move", "colour", c>>
ZobristHash(b, a) ==
    PieceKeys(b) \cup {MoveKey(b.whos_move)} \cup RightKeys(a.castling_rights)
    \cup EpKeys(a.en_passent_target)

\* A wrong variant: the square of a pawn taken en passant is the target.
TakenKeysTarget(them, m) ==
    IF is_capture(m) THEN {<<them, m.captured_piece, m.target>>} ELSE {}

TakenKeys(them, m) ==
    CASE m.type = "EN_PASSENT" -> {<<them, "PAWN", CapturedSquare(m)>>}
      [] is_capture(m) /\ m.type # "EN_PASSENT" -> {<<them, m.captured_piece, m.target>>}
      [] OTHER -> {}

PromotionKeys(us, m) ==
    IF is_promotion(m) THEN {<<us, "PAWN", m.target>>, <<us, m.promoted, m.target>>} ELSE {}

CastleKeys(us, m) ==
    IF is_castle(m)
    THEN {<<us, "ROOK", s>> : s \in rook_from_to(us, get_castleside(m))} ELSE {}

EpMade(m) == IF m.type = "DOUBLE_PUSH" THEN file(m.origin) ELSE NO_FILE

ZobristDiff(m, us, last_ep_file, lost) ==
    LET them == Other(us)
        moved == {<<us, m.moving_piece, m.origin>>, <<us, m.moving_piece, m.target>>}
    IN Xor(Xor(Xor(moved, PromotionKeys(us, m)),
               Xor(TakenKeys(them, m), CastleKeys(us, m))),
           Xor(Xor(EpKeys(last_ep_file), EpKeys(EpMade(m))),
               Xor(RightKeys(lost), {MoveKey(us), MoveKey(them)})))

ZobristNulldiff(us, last_ep_file) ==
    Xor(EpKeys(last_ep_file), {MoveKey(us), MoveKey(Other(us))})

-----------------------------------------------------------------------------
\* update_checkers: for the side to move.
Checkers(b) ==
    LET us == b.whos_move
        them == Other(us)
        ks == b.king_square[us]
        occ == b.occupied_bb
    IN (KnightAttacks[ks] \cap pieces(b, them, "KNIGHT"))
       \cup (pawn_attacks(us, ks) \cap pieces(b, them, "PAWN"))
       \cup (rook_attacks(occ, ks) \cap RookLike(b, them))
       \cup (bishop_attacks(occ, ks) \cap BishopLike(b, them))

\* The pieces of one colour that stand alone between a king and a slider.
Shields(b, ks, sliders, own) ==
    LET occ == b.occupied_bb
        pinners == (rook_xrays(occ, ks) \cap RookLike(b, sliders))
                   \cup (bishop_xrays(occ, ks) \cap BishopLike(b, sliders))
    IN (UNION {Between[ks][s] : s \in pinners}) \cap b.colour_bb[own]

Pinned(b) == Shields(b, b.king_square[b.whos_move], Other(b.whos_move), b.whos_move)

\* update_check_squares: for a check by the side to move.
CheckSquares(b) ==
    LET them == Other(b.whos_move)
        ks == b.king_square[them]
        occ == b.occupied_bb
    IN [p \in PieceTypes |->
          CASE p = "PAWN" -> pawn_attacks(them, ks)
            [] p = "KING" -> {}
            [] OTHER -> attacks(p, occ, ks)]

Blockers(b) == Shields(b, b.king_square[Other(b.whos_move)], b.whos_move, b.whos_move)

\* update_attacks: what the other side attacks, through the king of this one.
Attacked(b) ==
    LET us == b.whos_move
        them == Other(us)
        occ == b.occupied_bb \ pieces(b, us, "KING")
    IN (UNION {pawn_attacks(them, s) : s \in pieces(b, them, "PAWN")})
       \cup (UNION {UNION {attacks(p, occ, s) : s \in pieces(b, them, p)} :
                     p \in PieceTypes \ {"PAWN", "KING"}})
       \cup KingAttacks[b.king_square[them]]

AuxInfo(b, rights, clock, ep, last) ==
    [castling_rights |-> rights, halfmove_clock |-> clock, en_passent_target |-> ep,
     checkers |-> Checkers(b), pinned |-> Pinned(b), check_squares |-> CheckSquares(b),
     blockers |-> Blockers(b), attacked |-> Attacked(b), last_move |-> last]

is_check(a) == a.checkers # {}

\* make_move and make_nullmove, the history's part of them.
MakeAux(b, a, m) ==
    AuxInfo(MakeBoard(b, m),
            a.castling_rights \ LostRights(a.castling_rights, b.whos_move, m),
            IF is_capture(m) \/ m.moving_piece = "PAWN" THEN 0 ELSE a.halfmove_clock + 1,
            EpMade(m), m)

NullAux(b, a) ==
    AuxInfo(NullBoard(b), a.castling_rights, a.halfmove_clock + 1, NO_FILE, NULL_MOVE)

-----------------------------------------------------------------------------
\* initialise(): what follows from the bitboards.
Initialised(colour_bb, piece_bb, who, counter) ==
    LET count(c, p) == Cardinality(colour_bb[c] \cap piece_bb[p])
        total(p) == piece_phase_material(p) * (count("WHITE", p) + count("BLACK", p))
    IN [colour_bb |-> colour_bb, piece_bb |-> piece_bb,
        occupied_bb |-> colour_bb["WHITE"] \cup colour_bb["BLACK"],
        piece_counts |-> [c \in Colours |-> [p \in PieceTypes |-> count(c, p)]],
        phase_material |-> total("PAWN") + total("KNIGHT") + total("BISHOP")
                           + total("ROOK") + total("QUEEN"),
        king_square |-> [c \in Colours |->
            CHOOSE s \in colour_bb[c] \cap piece_bb["KING"] : TRUE],
        whos_move |-> who, fullmove_counter |-> counter]

\* fen_decode: at gives the piece on each occupied square.
DecodedBoard(at, who, counter) ==
    Initialised([c \in Colours |-> {s \in DOMAIN at : at[s][1] = c}],
                [p \in PieceTypes |-> {s \in DOMAIN at : at[s][2] = p}], who, counter)

DecodedAux(b, rights, clock, ep) == AuxInfo(b, rights, clock, ep, NULL_MOVE)

\* flip: the same position with the colours exchanged.
flip_vertical(squares) == {Square(7 - rank(s), file(s)) : s \in squares}
FlippedBoard(b) ==
    Initialised([c \in Colours |-> flip_vertical(b.colour_bb[Other(c)])],
                [p \in PieceTypes |-> flip_vertical(b.piece_bb[p])],
                Other(b.whos_move), b.fullmove_counter)
FlippedAux(b, a) ==
    AuxInfo(FlippedBoard(b), {<<Other(right[1]), right[2]>> : right \in a.castling_rights},
            a.halfmove_clock, a.en_passent_target, a.last_move)
=============================================================================
