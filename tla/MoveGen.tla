------------------------------- MODULE MoveGen -------------------------------
(***************************************************************************)
(* The legal move generator of movegen.cpp, and Board::gives_check, as     *)
(* functions of a board b and its AuxilliaryInfo a.  Lists of moves are    *)
(* sets: their order is left to the ordering of the search.                *)
(***************************************************************************)
EXTENDS Position

Promotions(m) ==
    {[m EXCEPT !.promoted = p] : p \in {"QUEEN", "KNIGHT", "ROOK", "BISHOP"}}

\* A push or a capture of a pawn, which promotes from the seventh rank.
PawnCaps(us, o, t) ==
    IF rank(o) = relative_rank(us, 6)
    THEN Promotions(Move("PAWN", o, t, "CAPTURE_PROMOTION"))
    ELSE {Move("PAWN", o, t, "CAPTURE")}
PawnPushes(us, o) ==
    LET t == o + forwards(us)
    IN IF rank(o) = relative_rank(us, 6)
       THEN Promotions(Move("PAWN", o, t, "PROMOTION"))
       ELSE {Move("PAWN", o, t, "QUIETmv")}
DoublePush(us, o) == Move("PAWN", o, o + 2 * forwards(us), "DOUBLE_PUSH")

\* A wrong variant: a capture en passant never opens the rank.
EpSafeAlways(b, a, o) == TRUE

\* gen_pawn_ep: no rook or queen stands behind the two pawns that leave the
\* king's rank.
EpSafe(b, a, o) ==
    LET us == b.whos_move
        ks == b.king_square[us]
        cap == Square(relative_rank(us, 4), a.en_passent_target)
        occ == Xor(Xor(b.occupied_bb, {o}), {cap})
    IN rank(ks) = rank(o) =>
        rook_attacks(occ, ks) \cap Line[ks][o] \cap RookLike(b, Other(us)) = {}

EpTarget(us, a) == Square(relative_rank(us, 5), a.en_passent_target)
EpOrigins(us, pawns, a) ==
    {o \in pawns : a.en_passent_target # NO_FILE
                   /\ Dist(file(o), a.en_passent_target) = 1
                   /\ rank(o) = relative_rank(us, 4)}
EpMoves(b, a, origins) ==
    {Move("PAWN", o, EpTarget(b.whos_move, a), "EN_PASSENT") :
        o \in {x \in origins : EpSafe(b, a, x)}}

\* What a pinned piece may move to: the line of its pin.
PinLine(b, a, o) ==
    IF o \in a.pinned THEN Line[b.king_square[b.whos_move]][o] ELSE Sq

\* gen_pawn_moves<QUIET>
PawnQuiets(b, a) ==
    LET us == b.whos_move
        ks == b.king_square[us]
        free(o) == o + forwards(us) \notin b.occupied_bb
        upright(o) == o \in a.pinned => file(o) = file(ks)
        pushes(o) == IF o \in a.pinned THEN {Move("PAWN", o, o + forwards(us), "QUIETmv")}
                     ELSE PawnPushes(us, o)
        open == {o \in pieces(b, us, "PAWN") : free(o) /\ upright(o)}
        second == {o \in open : rank(o) = relative_rank(us, 1) /\ free(o + forwards(us))}
    IN (UNION {pushes(o) : o \in open}) \cup {DoublePush(us, o) : o \in second}

\* gen_pawn_moves<CAPTURES>
PawnCaptures(b, a) ==
    LET us == b.whos_move
        pawns == pieces(b, us, "PAWN")
        taken(o) == pawn_attacks(us, o) \cap b.colour_bb[Other(us)] \cap PinLine(b, a, o)
        origins == {o \in EpOrigins(us, pawns, a) : EpTarget(us, a) \in PinLine(b, a, o)}
    IN (UNION {UNION {PawnCaps(us, o, t) : t \in taken(o)} : o \in pawns})
       \cup EpMoves(b, a, origins)

\* A wrong variant: the king may go where it is attacked through itself.
KingSafeNear(b, a) ==
    {s \in Sq : \A p \in PieceTypes : ~\E t \in pieces(b, Other(b.whos_move), p) :
                    s \in IF p = "PAWN" THEN pawn_attacks(Other(b.whos_move), t)
                          ELSE attacks(p, b.occupied_bb, t)}

KingSafe(b, a) == Sq \ a.attacked

\* append_moves, for the quiet moves and for the captures of one piece.
PieceQuiets(b, p, o, mask) ==
    {Move(p, o, t, "QUIETmv") : t \in (attacks(p, b.occupied_bb, o) \cap mask) \ b.occupied_bb}
PieceCaptures(b, p, o, mask) ==
    {Move(p, o, t, "CAPTURE") :
        t \in attacks(p, b.occupied_bb, o) \cap mask \cap b.colour_bb[Other(b.whos_move)]}

Officers == {"KNIGHT", "BISHOP", "ROOK", "QUEEN"}
\* Pinned knights are left out: no square they go to is on the line of the pin.
OfficerSquares(b, a, p) ==
    LET own == pieces(b, b.whos_move, p)
    IN IF p = "KNIGHT" THEN own \ a.pinned ELSE own

\* gen_castle_moves
Castles(b, a) ==
    LET us == b.whos_move
    IN {Move("KING", KingSquare(us), KingCastleSquare(us, side),
             IF side = "KINGSIDE" THEN "KING_CASTLE" ELSE "QUEEN_CASTLE") :
          side \in {x \in Sides :
              /\ <<us, x>> \in a.castling_rights
              /\ castle_blocks(us, x) \cap b.occupied_bb = {}
              /\ castle_checks(us, x) \cap a.attacked = {}}}

\* gen_moves<QUIET> and gen_moves<CAPTURES>
Quiets(b, a) ==
    LET ks == b.king_square[b.whos_move]
    IN Castles(b, a) \cup PawnQuiets(b, a)
       \cup (UNION {UNION {PieceQuiets(b, p, o, PinLine(b, a, o)) :
                            o \in OfficerSquares(b, a, p)} : p \in Officers})
       \cup PieceQuiets(b, "KING", ks, KingSafe(b, a))
Captures(b, a) ==
    LET ks == b.king_square[b.whos_move]
    IN PawnCaptures(b, a)
       \cup (UNION {UNION {PieceCaptures(b, p, o, PinLine(b, a, o)) :
                            o \in OfficerSquares(b, a, p)} : p \in Officers})
       \cup PieceCaptures(b, "KING", ks, KingSafe(b, a))

\* gen_pawn_moves<EVASIONS>: capture the checker ts, or push between.
PawnEvasions(b, a, ts, between) ==
    LET us == b.whos_move
        pawns == pieces(b, us, "PAWN") \ a.pinned
        pushed == {o \in pawns : o + forwards(us) \in between}
        second == {o \in pawns : /\ o + 2 * forwards(us) \in between
                                 /\ rank(o) = relative_rank(us, 1)
                                 /\ o + forwards(us) \notin b.occupied_bb}
        ep == IF ts = Square(relative_rank(us, 4), a.en_passent_target)
              THEN EpOrigins(us, pawns, a) ELSE {}
    IN (UNION {PawnCaps(us, o, ts) : o \in {x \in pawns : ts \in pawn_attacks(us, x)}})
       \cup EpMoves(b, a, ep)
       \cup (UNION {PawnPushes(us, o) : o \in pushed})
       \cup {DoublePush(us, o) : o \in second}

\* gen_moves<EVASIONS>, with one checker.
OneCheckerEvasions(b, a) ==
    LET us == b.whos_move
        ks == b.king_square[us]
        ts == CHOOSE s \in a.checkers : TRUE
        between == Between[ks][ts]
        free(p) == pieces(b, us, p) \ a.pinned
    IN (UNION {{Move(p, o, ts, "CAPTURE") : o \in attacks(p, b.occupied_bb, ts) \cap free(p)} :
                p \in Officers})
       \cup PawnEvasions(b, a, ts, between)
       \cup (UNION {UNION {PieceQuiets(b, p, o, between) : o \in free(p)} : p \in Officers})

KingMoves(b, a) ==
    LET ks == b.king_square[b.whos_move]
    IN PieceQuiets(b, "KING", ks, KingSafe(b, a)) \cup PieceCaptures(b, "KING", ks, KingSafe(b, a))

Evasions(b, a) ==
    IF Cardinality(a.checkers) = 2 THEN KingMoves(b, a)
    ELSE KingMoves(b, a) \cup OneCheckerEvasions(b, a)

\* Board::get_moves
get_moves(b, a) ==
    IF is_check(a) THEN Evasions(b, a) ELSE Captures(b, a) \cup Quiets(b, a)

-----------------------------------------------------------------------------
\* The parts of Board::gives_check.
Discovers(b, a, m) ==
    LET ks == b.king_square[Other(b.whos_move)]
    IN m.origin \in a.blockers /\ Line[m.origin][ks] # Line[m.origin][m.target]

PromotionChecks(b, a, m) ==
    LET ks == b.king_square[Other(b.whos_move)]
    IN is_promotion(m) /\ (\/ m.target \in a.check_squares[m.promoted]
                           \/ m.target \in attacks(m.promoted, Xor(b.occupied_bb, {m.origin}), ks))

CastleChecks(b, a, m) ==
    LET us == b.whos_move
        ks == b.king_square[Other(us)]
        rook == RookCastleSquares(us, get_castleside(m))
        occ == Xor(b.occupied_bb, {m.origin, m.target})
    IN is_castle(m) /\ (rook \in a.check_squares["ROOK"] \/ rook \in rook_attacks(occ, ks))

EpChecks(b, a, m) ==
    LET us == b.whos_move
        ks == b.king_square[Other(us)]
        cap == Square(relative_rank(us, 4), a.en_passent_target)
        occ == Xor(Xor(b.occupied_bb, {m.origin}), {cap})
    IN /\ m.type = "EN_PASSENT" /\ rank(m.origin) = rank(ks)
       /\ rook_attacks(occ, ks) \cap Line[ks][m.origin] \cap RookLike(b, us) # {}

\* A wrong variant: a promoted piece does not see through the pawn's square.
gives_check_no_xray(b, a, m) ==
    \/ m.target \in a.check_squares[m.moving_piece]
    \/ Discovers(b, a, m)
    \/ is_promotion(m) /\ m.target \in a.check_squares[m.promoted]
    \/ CastleChecks(b, a, m)
    \/ EpChecks(b, a, m)

gives_check(b, a, m) ==
    \/ m.target \in a.check_squares[m.moving_piece]
    \/ Discovers(b, a, m)
    \/ PromotionChecks(b, a, m)
    \/ CastleChecks(b, a, m)
    \/ EpChecks(b, a, m)
=============================================================================
