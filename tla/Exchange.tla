------------------------------- MODULE Exchange -------------------------------
(***************************************************************************)
(* The static exchange evaluation of ordering.cpp: what a series of        *)
(* captures on one square is worth, with the least valuable piece taking   *)
(* first.  The mask holds the squares of the pieces still to be reckoned   *)
(* with, so that a slider is seen behind one that has captured.            *)
(***************************************************************************)
EXTENDS Board, SequencesExt

material ==
    [PAWN |-> 100, KNIGHT |-> 320, BISHOP |-> 350, ROOK |-> 500, QUEEN |-> 900,
     KING |-> 32767, NO_PIECE |-> 0]

\* The pieces of one type that attack the target, with only those in the mask on
\* the board.
AttackersOf(b, target, mask, side, p) ==
    pieces(b, side, p) \cap mask \cap
    CASE p = "PAWN" -> PawnAttacks[Other(side)][target]
      [] p = "KNIGHT" -> KnightAttacks[target]
      [] p = "BISHOP" -> bishop_attacks(b.occupied_bb \cap mask, target)
      [] p = "ROOK" -> rook_attacks(b.occupied_bb \cap mask, target)
      [] p = "QUEEN" -> rook_attacks(b.occupied_bb \cap mask, target)
                        \cup bishop_attacks(b.occupied_bb \cap mask, target)
      [] p = "KING" -> KingAttacks[target]

\* The attackers of the first type that has any: all of them, not one.
FirstOf(attackers) ==
    LET have == {p \in PieceTypes : attackers[p] # {}}
    IN UNION {attackers[p] : p \in {q \in have : \A r \in have : material[q] <= material[r]}}
get_smallest_attacker(b, target, mask, side) ==
    FirstOf([p \in PieceTypes |-> AttackersOf(b, target, mask, side, p)])
Kind(b, atk) == piece_type(b, CHOOSE s \in atk : TRUE)

\* The types of the pieces that capture on the target one after the other, the
\* first of them one of side c with the squares m left.
Captors(b, target) ==
    LET next[m \in SUBSET Sq] ==
            [c \in Colours |->
                LET atk == get_smallest_attacker(b, target, m, c)
                IN IF atk = {} THEN <<>> ELSE <<Kind(b, atk)>> \o next[m \ atk][Other(c)]]
    IN next

\* A wrong variant: the fold begins at the last element.
LastCounted_one(s) == Len(s)

\* The number of gains that count: the last is that of a piece nobody attacks.
LastCounted(s) == Len(s) - 1

\* What each captor has gained once it stands on the square, and what the first
\* has if either side may stop.
Gains(types) ==
    LET gain[i \in DOMAIN types] ==
            material[types[i]] - (IF i = 1 THEN 0 ELSE gain[i - 1])
    IN gain
Folded(gain) ==
    LET best[i \in DOMAIN gain] ==
            IF i >= LastCounted(gain) THEN gain[i] ELSE Min({gain[i], -best[i + 1]})
    IN best
Settled(gain) == IF Len(gain) = 1 THEN 0 ELSE Max({Folded(gain)[1], 0})

\* score_t see: the gain for side of the captures on a square with a piece pt,
\* none if it is better not to begin.
see_square(b, target, side, pt, mask) ==
    Settled(Gains(<<pt>> \o Captors(b, target)[mask][side]))

\* The squares left when a move is made but for its target.
Mask(m) == (Sq \ {m.origin}) \ (IF m.type = "EN_PASSENT" THEN {CapturedSquare(m)} ELSE {})
Gained(b, m) ==
    IF m.type = "EN_PASSENT" THEN material["PAWN"] ELSE material[piece_type(b, m.target)]

see_capture(b, m) ==
    Gained(b, m) - see_square(b, m.target, Other(b.whos_move), m.moving_piece, Mask(m))

\* A wrong variant: a draw is enough for either side.
Answer_even(last, gain) == last - gain

\* What the other side has above the threshold once it has captured.
Answer(last, gain) == last - gain - 1

\* bool see: whether a capture gains the threshold, with an end as soon as that
\* is known.  gain is that of the side that has captured last, if nothing takes
\* its piece, and last what that piece is worth.
Exceeds(b, target, us) ==
    LET go[x \in [mask : SUBSET Sq, side : Colours, last : Int, gain : Int]] ==
            LET atk == get_smallest_attacker(b, target, x.mask, x.side)
                answer == Answer(x.last, x.gain)
            IN IF atk = {} THEN x.side # us
               ELSE IF answer >= material[Kind(b, atk)] THEN Other(x.side) # us
               ELSE go[[mask |-> x.mask \ atk, side |-> Other(x.side),
                        last |-> material[Kind(b, atk)], gain |-> answer]]
    IN go

see_threshold(b, m, threshold) ==
    /\ Gained(b, m) >= threshold
    /\ \/ Gained(b, m) - threshold >= material[m.moving_piece]
       \/ Exceeds(b, m.target, b.whos_move)
            [[mask |-> Mask(m), side |-> Other(b.whos_move),
              last |-> material[m.moving_piece], gain |-> Gained(b, m) - threshold]]

-----------------------------------------------------------------------------
\* The exchange by the rules: the side to capture takes with one of its least
\* valuable pieces, or stops.
On(at, on) == [s \in on |-> at[s]]
Least(at, from) ==
    {s \in from : \A r \in from : material[at[s][2]] <= material[at[r][2]]}
Takers(at, c, t) == Least(at, {s \in DOMAIN at : at[s][1] = c /\ Strikes(at, s, t)})

\* What side gains on the square t with a piece worth so much on it: f says it of every
\* set of pieces left, either side and whatever the piece is worth.
Reckoned(at, t, side, worth) ==
    LET f[on \in SUBSET DOMAIN at] ==
            [c \in Colours |-> [value \in Int |->
                Max({0} \cup {value - f[on \ {s}][Other(c)][material[at[s][2]]] :
                              s \in Takers(On(at, on), c, t)})]]
    IN f[DOMAIN at][side][worth]

\* Whether a side ever has the choice between two pieces alike.
Alike(at, t, side) ==
    LET g[on \in SUBSET DOMAIN at] ==
            [c \in Colours |->
                \E from \in {Takers(On(at, on), c, t)} :
                    \/ Cardinality(from) > 1
                    \/ \E s \in from : g[on \ {s}][Other(c)]]
    IN g[DOMAIN at][side]

CaptureMoves == {m \in get_moves(board, aux_info) : is_capture(m)}

\* Where no side ever has two equal pieces to choose from, the exchange is the
\* best either side can do by capturing or stopping at each turn: batteries,
\* pawns that strike one way, the pawn gone en passant and kings that may not
\* step into an attack included.
BestFor(b, m, at) ==
    Alike(at, m.target, Other(b.whos_move)) \/
    see_capture(b, m) =
        Gained(b, m) - Reckoned(at, m.target, Other(b.whos_move), material[m.moving_piece])
ExchangeIsBest ==
    \A m \in CaptureMoves : BestFor(board, m, On(At, DOMAIN At \cap Mask(m)))

\* The quick test and the full evaluation agree, at whatever threshold the
\* search asks for, on either side of the value and far from it.
Thresholds(b, m, value) ==
    {-50, 0} \cup {value + d : d \in {-1, 0, 1}}
    \cup {Gained(b, m) - material[p] + d : p \in PieceTypes, d \in {0, 1}}
AgreesWith(b, m, value) ==
    \A t \in Thresholds(b, m, value) : see_threshold(b, m, t) <=> value >= t
ThresholdAgrees ==
    \A m \in CaptureMoves : AgreesWith(board, m, see_capture(board, m))
=============================================================================
