----------------------------- MODULE Accumulator -----------------------------
(***************************************************************************)
(* The board with the first layer of its network (network.hpp), which is   *)
(* kept up to date move by move from the features a move changes           *)
(* (features.cpp).  The layer is linear and its numbers wrap around, so    *)
(* that its output is the bias and, modulo 2^16, the sum of the weights of *)
(* the features, each as often as it has been added: those counts are what *)
(* is kept here, whatever the weights.                                     *)
(***************************************************************************)
EXTENDS Board

VARIABLE accumulated    \* for each colour, how often each weight is in its vector

accVars == <<vars, accumulated>>

relative(s, c) == IF c = "WHITE" THEN s ELSE Square(7 - rank(s), file(s))

\* encode: the features of each colour, seen from its own side.
encode(b) ==
    [c \in Colours |->
        UNION {{<<p, relative(s, c)>> : s \in pieces(b, c, p)} : p \in PieceTypes}]

\* The rows of the weights for two feature vectors side by side.
Rows(left, right) ==
    [f \in ({"own"} \X DOMAIN left) \cup ({"other"} \X DOMAIN right) |->
        IF f[1] = "own" THEN left[f[2]] ELSE right[f[2]]]
Once(features) == [f \in features |-> 1]

\* forward, and initialise.
Forward(b) ==
    [c \in Colours |-> Rows(Once(encode(b)[c]), Once(encode(b)[Other(c)]))]

\* The sum of two vectors, the weights that are in it not at all left out.
Plus(v, w) ==
    LET at(x, f) == IF f \in DOMAIN x THEN x[f] ELSE 0
        sum == [f \in DOMAIN v \cup DOMAIN w |-> at(v, f) + at(w, f)]
    IN [f \in {g \in DOMAIN sum : sum[g] # 0} |-> sum[f]]

\* A wrong variant: the pawn taken en passant was on the square of the capture.
CapturedSeat_target(m) == m.target

CapturedSeat(m) == IF m.type = "EN_PASSENT" THEN CapturedSquare(m) ELSE m.target

\* increment: what a move by us takes from the features and adds to them.
Gone(m, us) ==
    {<<m.moving_piece, relative(m.origin, us)>>}
    \cup (IF is_castle(m) THEN {<<"ROOK", RookSquares("WHITE", get_castleside(m))>>} ELSE {})
Come(m, us) ==
    {<<IF is_promotion(m) THEN m.promoted ELSE m.moving_piece, relative(m.target, us)>>}
    \cup (IF is_castle(m)
          THEN {<<"ROOK", RookCastleSquares("WHITE", get_castleside(m))>>} ELSE {})
Taken(m, them) ==
    IF is_capture(m) THEN {<<m.captured_piece, relative(CapturedSeat(m), them)>>} ELSE {}

increment(m, us, inc) ==
    [c \in Colours |->
        IF c = us THEN [f \in Gone(m, us) \cup Come(m, us) |->
                          IF f \in Gone(m, us) THEN -inc ELSE inc]
        ELSE [f \in Taken(m, c) |-> -inc]]

Moved(acc, m, us, inc) ==
    LET diff == increment(m, us, inc)
    IN [c \in Colours |-> Plus(acc[c], Rows(diff[c], diff[Other(c)]))]

-----------------------------------------------------------------------------
AccInit == Init /\ accumulated = Forward(board)

\* fen_decode, flip, make_move and unmake_move each call the accumulator's own; a
\* null move changes nothing that it sees.
Decode == FenDecode /\ accumulated' = Forward(board')
Turn == Flip /\ accumulated' = Forward(board')
Make ==
    /\ MakeMove
    /\ accumulated' =
          Moved(accumulated, aux_history'[Len(aux_history')].last_move, board.whos_move, 1)
Unmake ==
    /\ UnmakeMove
    /\ accumulated' = Moved(accumulated, aux_info.last_move, Other(board.whos_move), -1)
Pass == (MakeNullmove \/ UnmakeNullmove) /\ UNCHANGED accumulated

AccNext == Decode \/ Turn \/ Make \/ Unmake \/ Pass

AccSpec == AccInit /\ [][AccNext]_accVars

(***************************************************************************)
(* The vectors kept by differences are those of the position, for both     *)
(* colours, whatever has been captured, promoted or castled on the way     *)
(* there and back: an evaluation never depends on the path.                *)
(***************************************************************************)
AccumulatorTracked == accumulated = Forward(board)
=============================================================================
