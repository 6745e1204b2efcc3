------------------------------- MODULE Squares -------------------------------
(***************************************************************************)
(* The geometry of the board: types.hpp and bitboard.*.  A bitboard is the *)
(* set of its squares, and the exclusive or of two bitboards their         *)
(* symmetric difference.  The magic tables are modelled by what they are   *)
(* filled with, direct_rook_attack and direct_bishop_attack.               *)
(***************************************************************************)
EXTENDS Integers

Colours == {"WHITE", "BLACK"}
Sides == {"KINGSIDE", "QUEENSIDE"}
PieceTypes == {"PAWN", "KNIGHT", "BISHOP", "ROOK", "QUEEN", "KING"}
Other(c) == IF c = "WHITE" THEN "BLACK" ELSE "WHITE"

Sq == 0 .. 63
Files == 0 .. 7
NO_FILE == 9
rank(s) == s \div 8
file(s) == s % 8
Square(r, f) == 8 * r + f
relative_rank(c, r) == IF c = "WHITE" THEN r ELSE 7 - r
forwards(c) == IF c = "WHITE" THEN 8 ELSE -8

Xor(A, B) == (A \ B) \cup (B \ A)

Dist(x, y) == IF x < y THEN y - x ELSE x - y
Within(x, a, b) == (a <= x /\ x <= b) \/ (b <= x /\ x <= a)

OnRookLine(s, t) == s # t /\ (rank(s) = rank(t) \/ file(s) = file(t))
OnBishopLine(s, t) == s # t /\ Dist(rank(s), rank(t)) = Dist(file(s), file(t))

\* PseudolegalAttacks and PawnAttacks
RookLines == [s \in Sq |-> {t \in Sq : OnRookLine(s, t)}]
BishopLines == [s \in Sq |-> {t \in Sq : OnBishopLine(s, t)}]
KnightAttacks == [s \in Sq |-> {t \in Sq :
    {Dist(rank(s), rank(t)), Dist(file(s), file(t))} = {1, 2}}]
KingAttacks == [s \in Sq |-> {t \in Sq :
    s # t /\ Dist(rank(s), rank(t)) <= 1 /\ Dist(file(s), file(t)) <= 1}]
PawnAttacks == [c \in Colours |-> [s \in Sq |-> {t \in Sq :
    rank(t) * 8 = rank(s) * 8 + forwards(c) /\ Dist(file(s), file(t)) = 1}]]
pawn_attacks(c, s) == PawnAttacks[c][s]

\* LineBBs: the whole rank, file or diagonal through two squares.
Line == [s \in Sq |-> [t \in Sq |->
    CASE OnBishopLine(s, t) -> (BishopLines[s] \cap BishopLines[t]) \cup {s, t}
      [] OnRookLine(s, t) -> (RookLines[s] \cap RookLines[t]) \cup {s, t}
      [] OTHER -> {}]]

Between == [s \in Sq |-> [t \in Sq |->
    {q \in Line[s][t] \ {s, t} : Within(rank(q), rank(s), rank(t))
                                 /\ Within(file(q), file(s), file(t))}]]

\* Up to the first occupied square in each direction, that square included.
rook_attacks(occ, s) == {t \in RookLines[s] : Between[s][t] \cap occ = {}}
bishop_attacks(occ, s) == {t \in BishopLines[s] : Between[s][t] \cap occ = {}}

attacks(p, occ, s) ==
    CASE p = "ROOK" -> rook_attacks(occ, s)
      [] p = "BISHOP" -> bishop_attacks(occ, s)
      [] p = "QUEEN" -> rook_attacks(occ, s) \cup bishop_attacks(occ, s)
      [] p = "KNIGHT" -> KnightAttacks[s]
      [] p = "KING" -> KingAttacks[s]

\* What the slider would reach if the first piece it meets were not there.
rook_xrays(occ, s) == rook_attacks(occ \ rook_attacks(occ, s), s)
bishop_xrays(occ, s) == bishop_attacks(occ \ bishop_attacks(occ, s), s)

\* Castling, by colour and side.
BackRank(c) == relative_rank(c, 0)
KingSquare(c) == Square(BackRank(c), 4)
KingCastleSquare(c, side) == Square(BackRank(c), IF side = "KINGSIDE" THEN 6 ELSE 2)
RookSquares(c, side) == Square(BackRank(c), IF side = "KINGSIDE" THEN 7 ELSE 0)
RookCastleSquares(c, side) == Square(BackRank(c), IF side = "KINGSIDE" THEN 5 ELSE 3)
castle_blocks(c, side) ==
    {Square(BackRank(c), f) : f \in IF side = "KINGSIDE" THEN {5, 6} ELSE {1, 2, 3}}
castle_checks(c, side) ==
    {Square(BackRank(c), f) : f \in IF side = "KINGSIDE" THEN {4, 5, 6} ELSE {2, 3}}
rook_from_to(c, side) == {RookSquares(c, side), RookCastleSquares(c, side)}
=============================================================================
