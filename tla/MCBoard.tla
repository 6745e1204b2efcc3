------------------------------- MODULE MCBoard -------------------------------
(***************************************************************************)
(* Positions of few pieces in which the special cases of the generator and *)
(* of make_move are a ply or two away.                                     *)
(***************************************************************************)
EXTENDS Accumulator, Draw, Exchange, TLC

W(p) == <<"WHITE", p>>
B(p) == <<"BLACK", p>>
AllRights == Colours \X Sides
Fen(at, who, rights, plies) ==
    [at |-> at, who |-> who, rights |-> rights, ep |-> NO_FILE, clock |-> 0,
     counter |-> 1, plies |-> plies]

\* Both sides may castle both ways, through attacked squares and with rooks
\* that can be taken: r3k2r/1P6/8/8/8/8/6p1/R3K2R w KQkq
Castling == Fen(
    4 :> W("KING") @@ 0 :> W("ROOK") @@ 7 :> W("ROOK") @@ 49 :> W("PAWN")
    @@ 60 :> B("KING") @@ 56 :> B("ROOK") @@ 63 :> B("ROOK") @@ 14 :> B("PAWN"),
    "WHITE", AllRights, 3)

\* A capture en passant that would open the rank to the king:
\* 4k3/2p5/8/KP5r/8/8/8/8 b
RankPin == Fen(
    32 :> W("KING") @@ 33 :> W("PAWN") @@ 60 :> B("KING") @@ 50 :> B("PAWN")
    @@ 39 :> B("ROOK"), "BLACK", {}, 3)

\* A double push that blocks a check, and the capture en passant that opens the
\* diagonal again: 6k1/3p4/8/4P3/8/8/B7/4K3 b
DiagonalPin == Fen(
    4 :> W("KING") @@ 36 :> W("PAWN") @@ 8 :> W("BISHOP") @@ 62 :> B("KING")
    @@ 51 :> B("PAWN"), "BLACK", {}, 3)

\* Pins on a file and both diagonals, a pawn about to promote:
\* 6k1/2P1q3/8/8/1b5b/8/3BRP2/4K3 w
Pins == Fen(
    4 :> W("KING") @@ 12 :> W("ROOK") @@ 11 :> W("BISHOP") @@ 13 :> W("PAWN")
    @@ 50 :> W("PAWN") @@ 62 :> B("KING") @@ 52 :> B("QUEEN") @@ 25 :> B("BISHOP")
    @@ 31 :> B("BISHOP"), "WHITE", {}, 3)

\* A promotion that checks through the square it came from:
\* 2n5/1P3RK1/k7/2p5/8/8/8/8 w
PromotionXray == Fen(
    54 :> W("KING") @@ 53 :> W("ROOK") @@ 49 :> W("PAWN") @@ 40 :> B("KING")
    @@ 58 :> B("KNIGHT") @@ 34 :> B("PAWN"), "WHITE", {}, 3)

\* A discovered double check: 4k3/3p1p2/8/4N3/8/8/8/1K2R3 w
DoubleCheck == Fen(
    1 :> W("KING") @@ 4 :> W("ROOK") @@ 36 :> W("KNIGHT") @@ 60 :> B("KING")
    @@ 51 :> B("PAWN") @@ 53 :> B("PAWN"), "WHITE", {}, 3)

\* A castling that checks along the first rank: 8/8/8/8/8/8/6p1/1k2K2R w K
CastleCheck == Fen(
    4 :> W("KING") @@ 7 :> W("ROOK") @@ 1 :> B("KING") @@ 14 :> B("PAWN"),
    "WHITE", {<<"WHITE", "KINGSIDE">>}, 3)

\* A double push that checks, which the capture en passant answers:
\* 8/1k1p4/8/4P3/2K5/8/8/8 b
EpEvasion == Fen(
    26 :> W("KING") @@ 36 :> W("PAWN") @@ 49 :> B("KING") @@ 51 :> B("PAWN"),
    "BLACK", {}, 3)

\* Nothing to do but to move the kings to and fro: k7/p7/P7/8/8/7p/7P/7K w, with
\* fifty moves nearly over from the start in the second.
Shuffle == Fen(
    7 :> W("KING") @@ 15 :> W("PAWN") @@ 40 :> W("PAWN") @@ 56 :> B("KING")
    @@ 48 :> B("PAWN") @@ 23 :> B("PAWN"), "WHITE", {}, 8)
LateShuffle == [Shuffle EXCEPT !.clock = 97, !.plies = 4]

\* A pawn that rooks, bishops and queens in line attack and defend, and kings
\* beside it: 3r4/1b1q4/4k3/3p4/4KP2/1B6/Q7/3R4 w
Battery == Fen(
    28 :> W("KING") @@ 29 :> W("PAWN") @@ 17 :> W("BISHOP") @@ 8 :> W("QUEEN") @@ 3 :> W("ROOK")
    @@ 44 :> B("KING") @@ 35 :> B("PAWN") @@ 49 :> B("BISHOP") @@ 51 :> B("QUEEN")
    @@ 59 :> B("ROOK"), "WHITE", {}, 1)

MCFens == {Castling, RankPin, DiagonalPin, Pins, PromotionXray, DoubleCheck, CastleCheck,
           EpEvasion, Shuffle, LateShuffle, Battery}
EpFens == {DiagonalPin}
=============================================================================
