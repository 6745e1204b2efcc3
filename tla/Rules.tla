-------------------------------- MODULE Rules --------------------------------
(***************************************************************************)
(* The rules of chess, as the reference the generator is checked against:  *)
(* a board is a function from its occupied squares to pieces, and a move   *)
(* is legal if the piece can make it and it leaves no king to be taken.    *)
(* Nothing here is translated from the engine.                             *)
(***************************************************************************)
EXTENDS Position

\* A board of the engine, as the rules see it.
AtOf(b) ==
    [s \in b.occupied_bb |->
        <<IF s \in b.colour_bb["WHITE"] THEN "WHITE" ELSE "BLACK", piece_type(b, s)>>]

\* Whether the piece on s strikes t.
Strikes(at, s, t) ==
    LET clear == Between[s][t] \cap DOMAIN at = {}
    IN CASE at[s][2] = "PAWN" -> t \in PawnAttacks[at[s][1]][s]
         [] at[s][2] = "KNIGHT" -> t \in KnightAttacks[s]
         [] at[s][2] = "KING" -> t \in KingAttacks[s]
         [] at[s][2] = "ROOK" -> OnRookLine(s, t) /\ clear
         [] at[s][2] = "BISHOP" -> OnBishopLine(s, t) /\ clear
         [] at[s][2] = "QUEEN" -> (OnRookLine(s, t) \/ OnBishopLine(s, t)) /\ clear

StruckBy(at, c, t) == \E s \in DOMAIN at : at[s][1] = c /\ Strikes(at, s, t)

InCheck(at, c) ==
    \E k \in DOMAIN at : at[k] = <<c, "KING">> /\ StruckBy(at, Other(c), k)

\* The board after a move.
Played(at, m) ==
    LET us == at[m.origin][1]
        what == IF is_promotion(m) THEN <<us, m.promoted>> ELSE at[m.origin]
        gone == {m.origin} \cup (IF m.type = "EN_PASSENT" THEN {CapturedSquare(m)} ELSE {})
                \cup (IF is_castle(m) THEN {RookSquares(us, get_castleside(m))} ELSE {})
        rook == IF is_castle(m) THEN {RookCastleSquares(us, get_castleside(m))} ELSE {}
    IN [s \in ((DOMAIN at \ gone) \cup {m.target} \cup rook) |->
          IF s = m.target THEN what
          ELSE IF s \in rook THEN <<us, "ROOK">> ELSE at[s]]

PawnReach(at, us, o, ep) ==
    LET step == o + forwards(us)
        last == rank(o) = relative_rank(us, 6)
        take == {t \in PawnAttacks[us][o] : t \in DOMAIN at /\ at[t][1] # us}
        push == IF step \in DOMAIN at THEN {} ELSE {step}
        jump == IF push # {} /\ rank(o) = relative_rank(us, 1)
                   /\ step + forwards(us) \notin DOMAIN at
                THEN {step + forwards(us)} ELSE {}
        passed == {t \in PawnAttacks[us][o] :
                     ep # NO_FILE /\ t = Square(relative_rank(us, 5), ep)}
        become == IF last THEN {"QUEEN", "KNIGHT", "ROOK", "BISHOP"} ELSE {NO_PIECE}
    IN {[Move("PAWN", o, t, IF last THEN "CAPTURE_PROMOTION" ELSE "CAPTURE")
           EXCEPT !.promoted = p] : t \in take, p \in become}
       \cup {[Move("PAWN", o, t, IF last THEN "PROMOTION" ELSE "QUIETmv")
                EXCEPT !.promoted = p] : t \in push, p \in become}
       \cup {Move("PAWN", o, t, "DOUBLE_PUSH") : t \in jump}
       \cup {Move("PAWN", o, t, "EN_PASSENT") : t \in passed}

PieceReach(at, us, o) ==
    {Move(at[o][2], o, t, IF t \in DOMAIN at THEN "CAPTURE" ELSE "QUIETmv") :
        t \in {x \in Sq : Strikes(at, o, x) /\ (x \in DOMAIN at => at[x][1] # us)}}

\* A king castles with a rook that has not moved either, over empty squares,
\* neither out of, nor through, nor into check.
CastleReach(at, us, rights) ==
    {Move("KING", KingSquare(us), KingCastleSquare(us, side),
          IF side = "KINGSIDE" THEN "KING_CASTLE" ELSE "QUEEN_CASTLE") :
       side \in {x \in Sides :
           /\ <<us, x>> \in rights
           /\ Between[KingSquare(us)][RookSquares(us, x)] \cap DOMAIN at = {}
           /\ \A s \in {KingSquare(us), RookCastleSquares(us, x), KingCastleSquare(us, x)} :
                ~StruckBy(at, Other(us), s)}}

LegalMoves(at, us, rights, ep) ==
    LET own == {o \in DOMAIN at : at[o][1] = us}
        reach(o) == IF at[o][2] = "PAWN" THEN PawnReach(at, us, o, ep)
                    ELSE PieceReach(at, us, o)
        all == (UNION {reach(o) : o \in own}) \cup CastleReach(at, us, rights)
    IN {m \in all : ~InCheck(Played(at, m), us)}
=============================================================================
