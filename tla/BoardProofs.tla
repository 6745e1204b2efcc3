----------------------------- MODULE BoardProofs -----------------------------
(***************************************************************************)
(* The whole game on a Board, from any FENs that the code may be given and *)
(* for any length of play: positions are set up, flipped, moved on and     *)
(* taken back, and at every ply what is counted, hashed and remembered is  *)
(* that of the board, every move generated is legal and none is missing,   *)
(* every check is foreseen, is_draw claims a draw only where there is one, *)
(* and an exchange is worth what see says.                                 *)
(***************************************************************************)
EXTENDS Accumulator, Draw, Exchange, MoveGenProofs, FunctionTheorems, SequenceTheorems, WellFoundedInduction

\* The board upside down.
mirror(s) == Square(7 - rank(s), file(s))

\* Everything that is attacked keeps its place on the board upside down, the pawns of
\* each colour going the other's way.
LEMMA Mirrored ==
  /\ \A s \in Sq : mirror(s) \in Sq /\ mirror(mirror(s)) = s
                   /\ rank(mirror(s)) = 7 - rank(s) /\ file(mirror(s)) = file(s)
  /\ \A s, t \in Sq :
       /\ t \in RookLines[s] <=> mirror(t) \in RookLines[mirror(s)]
       /\ t \in BishopLines[s] <=> mirror(t) \in BishopLines[mirror(s)]
       /\ t \in KnightAttacks[s] <=> mirror(t) \in KnightAttacks[mirror(s)]
       /\ t \in KingAttacks[s] <=> mirror(t) \in KingAttacks[mirror(s)]
       /\ \A c \in Colours : t \in pawn_attacks(c, s) <=> mirror(t) \in pawn_attacks(Other(c), mirror(s))
  /\ \A s, t, q \in Sq : q \in Between[s][t] <=> mirror(q) \in Between[mirror(s)][mirror(t)]
<1>1. ASSUME NEW s \in Sq
      PROVE  /\ mirror(s) \in Sq /\ mirror(mirror(s)) = s
             /\ rank(mirror(s)) = 7 - rank(s) /\ file(mirror(s)) = file(s)
             /\ rank(s) \in 0 .. 7 /\ file(s) \in 0 .. 7
  <2>1. rank(s) \in 0 .. 7 /\ file(s) \in 0 .. 7 /\ 7 - rank(s) \in 0 .. 7 /\ 7 - (7 - rank(s)) = rank(s)
        /\ s = 8 * rank(s) + file(s)
    BY Coordinates
  <2>2. mirror(s) \in Sq /\ rank(mirror(s)) = 7 - rank(s) /\ file(mirror(s)) = file(s)
    BY <2>1, Coordinates DEF mirror
  <2>3. mirror(mirror(s)) = s
    BY <2>1, <2>2 DEF mirror, Square
  <2> QED BY <2>1, <2>2, <2>3
<1>2. ASSUME NEW s \in Sq, NEW t \in Sq
      PROVE  /\ t \in RookLines[s] <=> mirror(t) \in RookLines[mirror(s)]
             /\ t \in BishopLines[s] <=> mirror(t) \in BishopLines[mirror(s)]
             /\ t \in KnightAttacks[s] <=> mirror(t) \in KnightAttacks[mirror(s)]
             /\ t \in KingAttacks[s] <=> mirror(t) \in KingAttacks[mirror(s)]
             /\ \A c \in Colours : t \in pawn_attacks(c, s) <=> mirror(t) \in pawn_attacks(Other(c), mirror(s))
  <2>1. /\ mirror(s) \in Sq /\ mirror(t) \in Sq
        /\ rank(mirror(s)) = 7 - rank(s) /\ file(mirror(s)) = file(s)
        /\ rank(mirror(t)) = 7 - rank(t) /\ file(mirror(t)) = file(t)
        /\ rank(s) \in 0 .. 7 /\ file(s) \in 0 .. 7 /\ rank(t) \in 0 .. 7 /\ file(t) \in 0 .. 7
    BY <1>1
  <2>2. s = t <=> mirror(s) = mirror(t)
    BY <1>1
  <2>3. t \in RookLines[s] <=> mirror(t) \in RookLines[mirror(s)]
    BY <2>1, <2>2, Seg
  <2>4. t \in BishopLines[s] <=> mirror(t) \in BishopLines[mirror(s)]
    BY <2>1, <2>2, Seg
  <2>5. Dist(rank(mirror(s)), rank(mirror(t))) = Dist(rank(s), rank(t))
        /\ Dist(file(mirror(s)), file(mirror(t))) = Dist(file(s), file(t))
    BY <2>1 DEF Dist
  <2>6. t \in KnightAttacks[s] <=> mirror(t) \in KnightAttacks[mirror(s)]
    BY <2>1, <2>5 DEF KnightAttacks
  <2>7. t \in KingAttacks[s] <=> mirror(t) \in KingAttacks[mirror(s)]
    BY <2>1, <2>2, <2>5 DEF KingAttacks
  <2>8. ASSUME NEW c \in Colours
        PROVE  t \in pawn_attacks(c, s) <=> mirror(t) \in pawn_attacks(Other(c), mirror(s))
    <3>1. forwards(Other(c)) = -forwards(c) /\ forwards(c) \in Int /\ Other(c) \in Colours
      BY DEF forwards, Other, Colours
    <3>2. rank(t) * 8 = rank(s) * 8 + forwards(c)
          <=> rank(mirror(t)) * 8 = rank(mirror(s)) * 8 + forwards(Other(c))
      BY <2>1, <3>1
    <3> QED BY <2>1, <2>5, <3>1, <3>2 DEF pawn_attacks, PawnAttacks
  <2> QED BY <2>3, <2>4, <2>6, <2>7, <2>8
<1>3. ASSUME NEW s \in Sq, NEW t \in Sq, NEW q \in Sq
      PROVE  q \in Between[s][t] <=> mirror(q) \in Between[mirror(s)][mirror(t)]
  <2>1. /\ rank(mirror(s)) = 7 - rank(s) /\ file(mirror(s)) = file(s) /\ mirror(s) \in Sq
        /\ rank(mirror(t)) = 7 - rank(t) /\ file(mirror(t)) = file(t) /\ mirror(t) \in Sq
        /\ rank(mirror(q)) = 7 - rank(q) /\ file(mirror(q)) = file(q) /\ mirror(q) \in Sq
        /\ rank(s) \in 0 .. 7 /\ file(s) \in 0 .. 7 /\ rank(t) \in 0 .. 7 /\ file(t) \in 0 .. 7
        /\ rank(q) \in 0 .. 7 /\ file(q) \in 0 .. 7
    BY <1>1
  <2>2. Aligned(s, t, q) <=> Aligned(mirror(s), mirror(t), mirror(q))
    BY <2>1 DEF Aligned
  <2>3. /\ Strictly(rank(q), rank(s), rank(t)) <=> Strictly(rank(mirror(q)), rank(mirror(s)), rank(mirror(t)))
        /\ Strictly(file(q), file(s), file(t)) <=> Strictly(file(mirror(q)), file(mirror(s)), file(mirror(t)))
    BY <2>1 DEF Strictly
  <2> QED BY <2>1, <2>2, <2>3, Btw DEF Inside
<1> QED BY <1>1, <1>2, <1>3

\* initialise() counts the pieces and finds the kings of the bitboards it is given.
LEMMA InitialisedCounts ==
  ASSUME NEW cs \in [Colours -> SUBSET Sq], NEW ps \in [PieceTypes -> SUBSET Sq],
         NEW who \in Colours, NEW counter \in Nat,
         \A c \in Colours : \E k \in Sq : cs[c] \cap ps["KING"] = {k},
         cs["WHITE"] \cap cs["BLACK"] = {},
         (UNION {ps[p] : p \in PieceTypes}) = cs["WHITE"] \cup cs["BLACK"],
         \A p, q \in PieceTypes : p # q => ps[p] \cap ps[q] = {}
  PROVE  LET b == Initialised(cs, ps, who, counter)
         IN /\ b \in Boards /\ Views(b) /\ Counted(b)
            /\ b.colour_bb = cs /\ b.piece_bb = ps /\ b.occupied_bb = cs["WHITE"] \cup cs["BLACK"]
            /\ b.whos_move = who /\ b.fullmove_counter = counter
<1> DEFINE b == Initialised(cs, ps, who, counter)
           Count(c, p) == Cardinality(cs[c] \cap ps[p])
<1>1. /\ b.colour_bb = cs /\ b.piece_bb = ps
      /\ b.occupied_bb = cs["WHITE"] \cup cs["BLACK"]
      /\ b.piece_counts = [c \in Colours |-> [p \in PieceTypes |-> Count(c, p)]]
      /\ b.phase_material = piece_phase_material("PAWN") * (Count("WHITE", "PAWN") + Count("BLACK", "PAWN"))
            + piece_phase_material("KNIGHT") * (Count("WHITE", "KNIGHT") + Count("BLACK", "KNIGHT"))
            + piece_phase_material("BISHOP") * (Count("WHITE", "BISHOP") + Count("BLACK", "BISHOP"))
            + piece_phase_material("ROOK") * (Count("WHITE", "ROOK") + Count("BLACK", "ROOK"))
            + piece_phase_material("QUEEN") * (Count("WHITE", "QUEEN") + Count("BLACK", "QUEEN"))
      /\ b.king_square = [c \in Colours |-> CHOOSE s \in cs[c] \cap ps["KING"] : TRUE]
      /\ b.whos_move = who /\ b.fullmove_counter = counter
      /\ b = [colour_bb |-> b.colour_bb, piece_bb |-> b.piece_bb, occupied_bb |-> b.occupied_bb,
              piece_counts |-> b.piece_counts, phase_material |-> b.phase_material,
              king_square |-> b.king_square, whos_move |-> b.whos_move,
              fullmove_counter |-> b.fullmove_counter]
  BY DEF Initialised
<1> HIDE DEF b
<1>2. \A c, p : pieces(b, c, p) = cs[c] \cap ps[p]
  BY <1>1 DEF pieces
<1>3. \A c \in Colours, p \in PieceTypes : /\ b.piece_counts[c][p] = Cardinality(pieces(b, c, p))
                                           /\ b.piece_counts[c][p] \in Nat
  <2>1. SUFFICES ASSUME NEW c \in Colours, NEW p \in PieceTypes
                 PROVE  b.piece_counts[c][p] = Cardinality(pieces(b, c, p))
                        /\ Cardinality(pieces(b, c, p)) \in Nat
    OBVIOUS
  <2>2. b.piece_counts[c][p] = Cardinality(pieces(b, c, p))
    BY <1>1, <1>2
  <2>3. IsFiniteSet(Sq)
    <3>1. Sq = 0 .. 63 /\ 0 \in Int /\ 63 \in Int
      BY DEF Sq
    <3> QED BY <3>1, FS_Interval
  <2>4. pieces(b, c, p) \subseteq Sq
    BY <1>2
  <2>5. IsFiniteSet(pieces(b, c, p))
    BY <2>3, <2>4, FS_Subset
  <2> QED BY <2>2, <2>5, FS_CardinalityType
<1>4. \A c \in Colours : pieces(b, c, "KING") = {b.king_square[c]} /\ b.king_square[c] \in Sq
  <2>1. SUFFICES ASSUME NEW c \in Colours
                 PROVE  pieces(b, c, "KING") = {b.king_square[c]} /\ b.king_square[c] \in Sq
    OBVIOUS
  <2>2. PICK k \in Sq : cs[c] \cap ps["KING"] = {k}
    OBVIOUS
  <2>3. b.king_square[c] = CHOOSE s \in cs[c] \cap ps["KING"] : TRUE
    BY <1>1
  <2>4. b.king_square[c] \in cs[c] \cap ps["KING"]
    BY <2>2, <2>3
  <2> QED BY <1>2, <2>2, <2>4
<1>5. Counted(b)
  <2>1. \A c \in Colours, p \in PieceTypes : b.piece_counts[c][p] = Count(c, p)
    BY <1>1
  <2>2. Valued \subseteq PieceTypes /\ "WHITE" \in Colours /\ "BLACK" \in Colours
    BY DEF Valued, PieceTypes, Colours
  <2> HIDE DEF Count
  <2>3. b.phase_material = Weight(b.piece_counts)
    BY <1>1, <2>1, <2>2 DEF Weight, Valued
  <2> QED BY <1>3, <1>4, <2>3 DEF Counted
<1>6. b \in Boards
  <2>1. b.piece_counts \in [Colours -> [PieceTypes -> Int]]
    BY <1>1, <1>3
  <2>2. b.phase_material \in Int
    <3>1. \A p \in Valued : piece_phase_material(p) \in Int
      BY DEF Valued, piece_phase_material
    <3>2. \A p \in Valued : b.piece_counts["WHITE"][p] \in Int /\ b.piece_counts["BLACK"][p] \in Int
      BY <1>3 DEF Valued, PieceTypes, Colours
    <3> QED BY <1>5, <3>1, <3>2 DEF Counted, Weight, Valued
  <2>3. b.king_square \in [Colours -> Sq]
    BY <1>1, <1>4
  <2>4. b.occupied_bb \subseteq Sq
    BY <1>1 DEF Colours
  <2>5. /\ b.colour_bb \in [Colours -> SUBSET Sq] /\ b.piece_bb \in [PieceTypes -> SUBSET Sq]
        /\ b.whos_move \in Colours /\ b.fullmove_counter \in Int
    BY <1>1
  <2>6. b = [colour_bb |-> b.colour_bb, piece_bb |-> b.piece_bb, occupied_bb |-> b.occupied_bb,
             piece_counts |-> b.piece_counts, phase_material |-> b.phase_material,
             king_square |-> b.king_square, whos_move |-> b.whos_move,
             fullmove_counter |-> b.fullmove_counter]
    BY <1>1
  <2> QED BY <2>1, <2>2, <2>3, <2>4, <2>5, <2>6 DEF Boards
<1>7. Views(b)
  BY <1>1 DEF Views
<1> QED BY <1>1, <1>5, <1>6, <1>7 DEF b

\* flip of a lawful position is one, with the rights of the colours exchanged.
LEMMA FlippedLawful ==
  ASSUME NEW b, NEW rights, NEW ep, Lawful(b, rights, ep), b.fullmove_counter \in Nat
  PROVE  Lawful(FlippedBoard(b), {<<Other(right[1]), right[2]>> : right \in rights}, ep)
<1> DEFINE n == FlippedBoard(b)
           us == b.whos_move
           them == Other(us)
           colours == [c \in Colours |-> flip_vertical(b.colour_bb[Other(c)])]
           types == [p \in PieceTypes |-> flip_vertical(b.piece_bb[p])]
<1>0. /\ b \in Boards /\ Views(b) /\ Counted(b) /\ Safe(b) /\ Apart(b) /\ PawnsInside(b)
      /\ Cardinality(Checkers(b)) <= 2 /\ RightsHeld(b, rights) /\ EpHeld(b, ep)
  BY DEF Lawful
<1>1. /\ us \in Colours /\ them \in Colours /\ Other(them) = us /\ them # us
      /\ \A c \in Colours : Other(c) \in Colours /\ Other(Other(c)) = c
      /\ Other("WHITE") = "BLACK" /\ Other("BLACK") = "WHITE" /\ "WHITE" \in Colours /\ "BLACK" \in Colours
  BY <1>0 DEF Boards, Colours, Other
<1>2. /\ \A c \in Colours : b.colour_bb[c] \subseteq Sq /\ b.king_square[c] \in Sq
      /\ \A p \in PieceTypes : b.piece_bb[p] \subseteq Sq
      /\ b.occupied_bb \subseteq Sq
  BY <1>0 DEF Boards
<1>3. ASSUME NEW S \in SUBSET Sq
      PROVE  flip_vertical(S) \subseteq Sq /\ \A x \in Sq : x \in flip_vertical(S) <=> mirror(x) \in S
  <2>1. flip_vertical(S) = {mirror(s) : s \in S}
    BY DEF flip_vertical, mirror
  <2> QED BY <2>1, Mirrored
<1>4. /\ colours \in [Colours -> SUBSET Sq] /\ types \in [PieceTypes -> SUBSET Sq]
      /\ \A c \in Colours : \A x \in Sq : x \in colours[c] <=> mirror(x) \in b.colour_bb[Other(c)]
      /\ \A p \in PieceTypes : \A x \in Sq : x \in types[p] <=> mirror(x) \in b.piece_bb[p]
  <2>1. ASSUME NEW c \in Colours
        PROVE  /\ colours[c] \subseteq Sq
               /\ \A x \in Sq : x \in colours[c] <=> mirror(x) \in b.colour_bb[Other(c)]
    <3>1. b.colour_bb[Other(c)] \in SUBSET Sq
      BY <1>1, <1>2
    <3>2. colours[c] = flip_vertical(b.colour_bb[Other(c)])
      OBVIOUS
    <3> QED BY <1>3, <3>1, <3>2
  <2>2. ASSUME NEW p \in PieceTypes
        PROVE  /\ types[p] \subseteq Sq
               /\ \A x \in Sq : x \in types[p] <=> mirror(x) \in b.piece_bb[p]
    <3>1. b.piece_bb[p] \in SUBSET Sq
      BY <1>2
    <3>2. types[p] = flip_vertical(b.piece_bb[p])
      OBVIOUS
    <3> QED BY <1>3, <3>1, <3>2
  <2>3. colours = [c \in Colours |-> colours[c]] /\ types = [p \in PieceTypes |-> types[p]]
    OBVIOUS
  <2> HIDE DEF colours, types
  <2> QED BY <2>1, <2>2, <2>3
<1>5. n = Initialised(colours, types, them, b.fullmove_counter)
  BY DEF FlippedBoard
<1> HIDE DEF colours, types, n, us, them
<1>6. \A x \in Sq : x \in colours["WHITE"] \cup colours["BLACK"] <=> mirror(x) \in b.occupied_bb
  <2>1. b.occupied_bb = b.colour_bb["WHITE"] \cup b.colour_bb["BLACK"]
    BY <1>0 DEF Views
  <2> QED BY <1>1, <1>4, <2>1
<1>7. /\ n \in Boards /\ Views(n) /\ Counted(n)
      /\ n.colour_bb = colours /\ n.piece_bb = types /\ n.occupied_bb = colours["WHITE"] \cup colours["BLACK"]
      /\ n.whos_move = them
  <2>1. ASSUME NEW c \in Colours PROVE \E k \in Sq : colours[c] \cap types["KING"] = {k}
    <3> DEFINE k == b.king_square[Other(c)]
    <3>1. b.colour_bb[Other(c)] \cap b.piece_bb["KING"] = {k} /\ k \in Sq /\ "KING" \in PieceTypes
      BY <1>0, <1>1, <1>2 DEF Counted, pieces, PieceTypes
    <3>2. mirror(k) \in Sq /\ \A x \in Sq : mirror(x) = k <=> x = mirror(k)
      BY <3>1, Mirrored
    <3>3. colours[c] \cap types["KING"] \subseteq Sq
      BY <1>4
    <3> HIDE DEF k
    <3>4. \A x \in Sq : x \in colours[c] \cap types["KING"] <=> x = mirror(k)
      BY <1>4, <3>1, <3>2
    <3> QED BY <3>2, <3>3, <3>4
  <2>2. colours["WHITE"] \cap colours["BLACK"] = {}
    <3>1. b.colour_bb["WHITE"] \cap b.colour_bb["BLACK"] = {}
      BY <1>0 DEF Views
    <3> QED BY <1>1, <1>4, <3>1
  <2>3. (UNION {types[p] : p \in PieceTypes}) = colours["WHITE"] \cup colours["BLACK"]
    <3>1. \A x : x \in b.occupied_bb <=> \E p \in PieceTypes : x \in b.piece_bb[p]
      BY <1>0 DEF Views
    <3>2. \A x \in Sq : x \in colours["WHITE"] \cup colours["BLACK"] <=> \E p \in PieceTypes : x \in types[p]
      BY <1>4, <1>6, <3>1
    <3> QED BY <1>1, <1>4, <3>2
  <2>4. \A p, q \in PieceTypes : p # q => types[p] \cap types[q] = {}
    <3>1. \A p, q \in PieceTypes : p # q => b.piece_bb[p] \cap b.piece_bb[q] = {}
      BY <1>0 DEF Views
    <3> QED BY <1>4, <3>1
  <2> QED BY <1>1, <1>4, <1>5, <2>1, <2>2, <2>3, <2>4, InitialisedCounts
<1>8. /\ \A c \in Colours : n.colour_bb[c] \subseteq Sq
      /\ \A p \in PieceTypes : n.piece_bb[p] \subseteq Sq
      /\ n.occupied_bb \subseteq Sq
      /\ \A c \in Colours : \A x \in Sq : x \in n.colour_bb[c] <=> mirror(x) \in b.colour_bb[Other(c)]
      /\ \A p \in PieceTypes : \A x \in Sq : x \in n.piece_bb[p] <=> mirror(x) \in b.piece_bb[p]
      /\ \A x \in Sq : x \in n.occupied_bb <=> mirror(x) \in b.occupied_bb
  BY <1>1, <1>4, <1>6, <1>7
<1>9. \A c \in Colours, p \in PieceTypes :
         /\ pieces(n, c, p) \subseteq Sq
         /\ \A x \in Sq : x \in pieces(n, c, p) <=> mirror(x) \in pieces(b, Other(c), p)
  BY <1>8 DEF pieces
<1>10. \A c \in Colours : /\ n.king_square[c] = mirror(b.king_square[Other(c)])
                          /\ n.king_square[c] \in Sq
  <2>1. SUFFICES ASSUME NEW c \in Colours
                 PROVE  /\ n.king_square[c] = mirror(b.king_square[Other(c)])
                        /\ n.king_square[c] \in Sq
    OBVIOUS
  <2>2. /\ pieces(b, Other(c), "KING") = {b.king_square[Other(c)]}
        /\ pieces(n, c, "KING") = {n.king_square[c]} /\ n.king_square[c] \in Sq
    BY <1>0, <1>1, <1>7 DEF Counted, Boards
  <2>3. mirror(n.king_square[c]) = b.king_square[Other(c)]
    BY <1>9, <2>2 DEF PieceTypes
  <2> QED BY <2>2, <2>3, Mirrored
<1>13. \A c \in Colours : \A x \in Sq : /\ x \in RookLike(n, c) <=> mirror(x) \in RookLike(b, Other(c))
                                        /\ x \in BishopLike(n, c) <=> mirror(x) \in BishopLike(b, Other(c))
  <2>1. {"ROOK", "BISHOP", "QUEEN"} \subseteq PieceTypes
    BY DEF PieceTypes
  <2> QED BY <1>8, <2>1 DEF RookLike, BishopLike
<1>14. ASSUME NEW c \in Colours, NEW k \in Sq, NEW x \in Sq
       PROVE  /\ x \in Leapers(n, c, k) <=> mirror(x) \in Leapers(b, Other(c), mirror(k))
              /\ x \in LinedUp(n, c, k) <=> mirror(x) \in LinedUp(b, Other(c), mirror(k))
  <2>1. x \in Leapers(n, c, k) <=> mirror(x) \in Leapers(b, Other(c), mirror(k))
    <3>1. /\ x \in pieces(n, c, "KNIGHT") <=> mirror(x) \in pieces(b, Other(c), "KNIGHT")
          /\ x \in pieces(n, c, "PAWN") <=> mirror(x) \in pieces(b, Other(c), "PAWN")
      BY <1>9 DEF PieceTypes
    <3>2. /\ x \in KnightAttacks[k] <=> mirror(x) \in KnightAttacks[mirror(k)]
          /\ x \in pawn_attacks(Other(c), k) <=> mirror(x) \in pawn_attacks(c, mirror(k))
      BY <1>1, Mirrored
    <3> QED BY <1>1, <3>1, <3>2 DEF Leapers
  <2>2. x \in LinedUp(n, c, k) <=> mirror(x) \in LinedUp(b, Other(c), mirror(k))
    BY <1>13, Mirrored DEF LinedUp
  <2> QED BY <2>1, <2>2
<1>15. ASSUME NEW s \in Sq, NEW t \in Sq, NEW A \in SUBSET Sq, NEW B \in SUBSET Sq,
              \A x \in Sq : x \in A <=> mirror(x) \in B
       PROVE  Between[s][t] \cap A = {} <=> Between[mirror(s)][mirror(t)] \cap B = {}
  <2>1. Between[s][t] \subseteq Sq /\ Between[mirror(s)][mirror(t)] \subseteq Sq
    BY Mirrored DEF Between, Line, RookLines, BishopLines
  <2>2. ASSUME NEW q \in Between[s][t] \cap A PROVE mirror(q) \in Between[mirror(s)][mirror(t)] \cap B
    BY <1>15, <2>1, Mirrored
  <2>3. ASSUME NEW q \in Between[mirror(s)][mirror(t)] \cap B PROVE mirror(q) \in Between[s][t] \cap A
    <3>1. q \in Sq /\ mirror(q) \in Sq /\ mirror(mirror(q)) = q
      BY <2>1, Mirrored
    <3>2. mirror(q) \in Between[s][t]
      BY <3>1, Mirrored
    <3> QED BY <1>15, <3>1, <3>2
  <2> QED BY <2>2, <2>3
<1>16. ASSUME NEW c \in Colours, NEW k \in Sq, NEW x \in Sq
       PROVE  x \in Strikers(n, c, k) <=> mirror(x) \in Strikers(b, Other(c), mirror(k))
  <2>1. Between[k][x] \cap n.occupied_bb = {} <=> Between[mirror(k)][mirror(x)] \cap b.occupied_bb = {}
    <3>1. n.occupied_bb \in SUBSET Sq /\ b.occupied_bb \in SUBSET Sq
      BY <1>2, <1>8
    <3>2. \A y \in Sq : y \in n.occupied_bb <=> mirror(y) \in b.occupied_bb
      BY <1>8
    <3> QED BY <1>15, <3>1, <3>2
  <2> QED BY <1>14, <2>1 DEF Strikers
<1>17. /\ \A c \in Colours : \A k \in Sq : Strikers(n, c, k) \subseteq Sq
       /\ \A c \in Colours : \A k \in Sq : Strikers(b, c, k) \subseteq Sq
  BY <1>0, <1>2, <1>8, <1>7, Struck DEF Strikers
<1>18. Safe(n)
  <2>1. Strikers(b, us, b.king_square[them]) = {}
    BY <1>0 DEF Safe, us, them
  <2>2. mirror(n.king_square[us]) = b.king_square[them] /\ n.king_square[us] \in Sq
    BY <1>1, <1>2, <1>10, Mirrored DEF them
  <2>3. Strikers(n, them, n.king_square[us]) = {}
    BY <1>1, <1>16, <1>17, <2>1, <2>2
  <2> QED BY <1>1, <1>7, <2>3 DEF Safe
<1>19. Apart(n)
  <2>1. /\ n.king_square["WHITE"] = mirror(b.king_square["BLACK"])
        /\ n.king_square["BLACK"] = mirror(b.king_square["WHITE"])
        /\ b.king_square["BLACK"] \in Sq /\ b.king_square["WHITE"] \in Sq
    BY <1>1, <1>2, <1>10
  <2> QED BY <1>0, <2>1, Mirrored, Sym DEF Apart
<1>20. PawnsInside(n)
  <2>1. ASSUME NEW c \in Colours, NEW s \in pieces(n, c, "PAWN") PROVE rank(s) \in 1 .. 6
    <3>1. s \in Sq /\ mirror(s) \in pieces(b, Other(c), "PAWN")
      BY <1>9 DEF PieceTypes
    <3>2. rank(mirror(s)) \in 1 .. 6 /\ rank(mirror(s)) = 7 - rank(s) /\ rank(s) \in 0 .. 7
      BY <1>0, <1>1, <3>1, Mirrored, Coordinates DEF PawnsInside
    <3> QED BY <3>2
  <2> QED BY <2>1 DEF PawnsInside
<1>21. Cardinality(Checkers(n)) <= 2
  <2>1. Checkers(n) = Strikers(n, us, n.king_square[them]) /\ Checkers(b) = Strikers(b, them, b.king_square[us])
    <3>1. Checkers(n) = Strikers(n, Other(n.whos_move), n.king_square[n.whos_move])
      BY <1>7, Struck
    <3>2. Checkers(b) = Strikers(b, Other(b.whos_move), b.king_square[b.whos_move])
      BY <1>0, Struck
    <3> QED BY <1>1, <1>7, <3>1, <3>2 DEF us, them
  <2>2. mirror(n.king_square[them]) = b.king_square[us] /\ n.king_square[them] \in Sq /\ b.king_square[us] \in Sq
    BY <1>1, <1>2, <1>10, Mirrored
  <2>3. Checkers(n) \subseteq Sq /\ Checkers(b) \subseteq Sq
        /\ \A x \in Sq : x \in Checkers(n) <=> mirror(x) \in Checkers(b)
    <3> HIDE DEF them
    <3> QED BY <1>1, <1>16, <1>17, <2>1, <2>2 DEF them
  <2> DEFINE f == [s \in Checkers(b) |-> mirror(s)]
  <2>4. f \in [Checkers(b) -> Checkers(n)] /\ \A t \in Checkers(n) : \E s \in Checkers(b) : f[s] = t
    BY <2>3, Mirrored
  <2>5. f \in Surjection(Checkers(b), Checkers(n))
    BY <2>4, Fun_IsSurj
  <2>6. IsFiniteSet(Checkers(b))
    <3>1. Sq = 0 .. 63 /\ 0 \in Int /\ 63 \in Int
      BY DEF Sq
    <3>2. IsFiniteSet(Sq)
      BY <3>1, FS_Interval
    <3> QED BY <2>3, <3>2, FS_Subset
  <2> HIDE DEF f
  <2>7. IsFiniteSet(Checkers(n)) /\ Cardinality(Checkers(n)) <= Cardinality(Checkers(b))
    BY <2>5, <2>6, FS_Surjection
  <2>8. Cardinality(Checkers(b)) \in Nat /\ Cardinality(Checkers(n)) \in Nat
    BY <2>6, <2>7, FS_CardinalityType
  <2> QED BY <1>0, <2>7, <2>8
<1>22. RightsHeld(n, {<<Other(right[1]), right[2]>> : right \in rights})
  <2>1. rights \subseteq Colours \X Sides
    BY <1>0 DEF RightsHeld
  <2>2. ASSUME NEW right \in rights
        PROVE  LET c == Other(right[1])
               IN /\ <<c, right[2]>> \in Colours \X Sides
                  /\ KingSquare(c) \in pieces(n, c, "KING")
                  /\ RookSquares(c, right[2]) \in pieces(n, c, "ROOK")
    <3> DEFINE c == right[1]
               side == right[2]
    <3>1. c \in Colours /\ side \in Sides /\ Other(c) \in Colours
      BY <1>1, <2>1
    <3>2. KingSquare(c) \in pieces(b, c, "KING") /\ RookSquares(c, side) \in pieces(b, c, "ROOK")
      BY <1>0 DEF RightsHeld
    <3>3. /\ BackRank(c) \in {0, 7} /\ BackRank(Other(c)) = 7 - BackRank(c)
      BY <3>1 DEF BackRank, relative_rank, Colours, Other
    <3>4. KingSquare(Other(c)) \in Sq /\ mirror(KingSquare(Other(c))) = KingSquare(c)
      BY <3>3, Coordinates DEF KingSquare, mirror
    <3>5. RookSquares(Other(c), side) \in Sq /\ mirror(RookSquares(Other(c), side)) = RookSquares(c, side)
      BY <3>3, Coordinates DEF RookSquares, mirror
    <3> HIDE DEF c, side
    <3>6. /\ KingSquare(Other(c)) \in pieces(n, Other(c), "KING")
          /\ RookSquares(Other(c), side) \in pieces(n, Other(c), "ROOK")
      BY <1>1, <1>9, <3>1, <3>2, <3>4, <3>5 DEF PieceTypes
    <3> QED BY <3>1, <3>6 DEF c, side
  <2> QED BY <2>2 DEF RightsHeld
<1>23. EpHeld(n, ep)
  <2>1. ep \in Files \cup {NO_FILE}
    BY <1>0 DEF EpHeld
  <2>2. CASE ep = NO_FILE
    BY <2>1, <2>2 DEF EpHeld
  <2>3. CASE ep # NO_FILE
    <3> DEFINE k == b.king_square[us]
               was == (b.occupied_bb \ {EpPawn(us, ep)}) \cup {EpFrom(us, ep)}
               is == (n.occupied_bb \ {EpPawn(them, ep)}) \cup {EpFrom(them, ep)}
    <3>1. /\ EpPawn(us, ep) \in pieces(b, them, "PAWN")
          /\ EpTo(us, ep) \notin b.occupied_bb /\ EpFrom(us, ep) \notin b.occupied_bb
          /\ \A s \in LinedUp(b, them, k) : Between[k][s] \cap was # {}
      BY <1>0, <2>3 DEF EpHeld, us, them
    <3>2. /\ EpPawn(them, ep) \in Sq /\ mirror(EpPawn(them, ep)) = EpPawn(us, ep)
          /\ EpTo(them, ep) \in Sq /\ mirror(EpTo(them, ep)) = EpTo(us, ep)
          /\ EpFrom(them, ep) \in Sq /\ mirror(EpFrom(them, ep)) = EpFrom(us, ep)
          /\ EpPawn(us, ep) \in Sq /\ EpFrom(us, ep) \in Sq
      <4>1. ep \in 0 .. 7
        BY <2>1, <2>3 DEF Files
      <4>2. /\ relative_rank(us, 4) = 7 - relative_rank(them, 4) /\ relative_rank(them, 4) \in 0 .. 7
            /\ relative_rank(us, 5) = 7 - relative_rank(them, 5) /\ relative_rank(them, 5) \in 0 .. 7
            /\ relative_rank(us, 6) = 7 - relative_rank(them, 6) /\ relative_rank(them, 6) \in 0 .. 7
        BY <1>1 DEF relative_rank, Colours, Other, them
      <4>3. relative_rank(us, 4) \in 0 .. 7 /\ relative_rank(us, 6) \in 0 .. 7
        BY <4>2
      <4> QED BY <4>1, <4>2, <4>3, Coordinates DEF EpPawn, EpTo, EpFrom, mirror
    <3>3. /\ EpPawn(them, ep) \in pieces(n, us, "PAWN")
          /\ EpTo(them, ep) \notin n.occupied_bb /\ EpFrom(them, ep) \notin n.occupied_bb
      BY <1>1, <1>8, <1>9, <3>1, <3>2 DEF PieceTypes, them
    <3>4. /\ was \subseteq Sq /\ is \subseteq Sq
          /\ \A x \in Sq : x \in is <=> mirror(x) \in was
      <4>1. \A x, y \in Sq : mirror(x) = mirror(y) => x = y
        BY Mirrored
      <4>2. \A x \in Sq : /\ x = EpPawn(them, ep) <=> mirror(x) = EpPawn(us, ep)
                          /\ x = EpFrom(them, ep) <=> mirror(x) = EpFrom(us, ep)
        BY <3>2, <4>1
      <4> QED BY <1>2, <1>8, <3>2, <4>2
    <3>5. n.king_square[them] \in Sq /\ mirror(n.king_square[them]) = k
      BY <1>1, <1>2, <1>10, Mirrored
    <3>6. ASSUME NEW s \in LinedUp(n, us, n.king_square[them])
          PROVE  Between[n.king_square[them]][s] \cap is # {}
      <4>1. s \in Sq
        BY <1>1, <1>8, <1>7, <3>5, Struck
      <4>2. mirror(s) \in LinedUp(b, them, k)
        BY <1>1, <1>14, <3>5, <3>6, <4>1 DEF them
      <4>3. Between[k][mirror(s)] \cap was # {}
        BY <3>1, <4>2
      <4>4. is \in SUBSET Sq /\ was \in SUBSET Sq
        BY <3>4
      <4> HIDE DEF is, was, k
      <4> QED BY <1>15, <3>4, <3>5, <4>1, <4>3, <4>4
    <3> QED BY <1>1, <1>7, <2>1, <3>3, <3>6 DEF EpHeld
  <2> QED BY <2>2, <2>3
<1> QED BY <1>7, <1>18, <1>19, <1>20, <1>21, <1>22, <1>23 DEF Lawful, n

\* A FEN that the code may be given is decoded to a lawful position.
LEMMA DecodedLawful ==
  ASSUME NEW f \in Fens
  PROVE  /\ Lawful(Decoded(f), f.rights, f.ep)
         /\ Decoded(f).fullmove_counter \in Nat
<1> DEFINE b == Decoded(f)
           us == f.who
           them == Other(us)
           ks == b.king_square[us]
           cs == [c \in Colours |-> {s \in DOMAIN f.at : f.at[s][1] = c}]
           ps == [p \in PieceTypes |-> {s \in DOMAIN f.at : f.at[s][2] = p}]
<1>0. /\ f.at \in [DOMAIN f.at -> Colours \X PieceTypes] /\ DOMAIN f.at \subseteq Sq
      /\ us \in Colours /\ f.rights \subseteq Colours \X Sides /\ f.ep \in Files \cup {NO_FILE}
      /\ f.counter \in Nat /\ LegalFen(f)
  BY FensAssumption
<1>1. /\ \A c \in Colours : \E s \in Sq : pieces(b, c, "KING") = {s}
      /\ b.king_square["WHITE"] \notin KingAttacks[b.king_square["BLACK"]]
      /\ \A s \in b.piece_bb["PAWN"] : rank(s) \in 1 .. 6
      /\ Checkers([b EXCEPT !.whos_move = them]) = {} /\ Cardinality(Checkers(b)) <= 2
      /\ \A right \in f.rights : /\ KingSquare(right[1]) \in pieces(b, right[1], "KING")
                                 /\ RookSquares(right[1], right[2]) \in pieces(b, right[1], "ROOK")
  BY <1>0 DEF LegalFen
<1>2. us \in Colours /\ them \in Colours /\ Other(them) = us
  BY <1>0 DEF Colours, Other
<1>3. b = Initialised(cs, ps, us, f.counter)
  BY DEF Decoded, DecodedBoard
<1>4. /\ cs \in [Colours -> SUBSET Sq] /\ ps \in [PieceTypes -> SUBSET Sq]
      /\ \A c \in Colours : \A s : s \in cs[c] <=> s \in DOMAIN f.at /\ f.at[s][1] = c
      /\ \A p \in PieceTypes : \A s : s \in ps[p] <=> s \in DOMAIN f.at /\ f.at[s][2] = p
  BY <1>0
<1>5. \A s \in DOMAIN f.at : f.at[s][1] \in Colours /\ f.at[s][2] \in PieceTypes
  BY <1>0
<1> HIDE DEF cs, ps, b, us, them
<1>6. b.colour_bb = cs /\ b.piece_bb = ps
  BY <1>3 DEF Initialised
<1>7. /\ b \in Boards /\ Views(b) /\ Counted(b)
      /\ b.whos_move = us /\ b.fullmove_counter = f.counter
  <2>1. \A c \in Colours : \E k \in Sq : cs[c] \cap ps["KING"] = {k}
    BY <1>1, <1>6 DEF pieces
  <2>2. cs["WHITE"] \cap cs["BLACK"] = {}
    BY <1>4 DEF Colours
  <2>3. (UNION {ps[p] : p \in PieceTypes}) = cs["WHITE"] \cup cs["BLACK"]
    <3>1. \A s : s \in cs["WHITE"] \cup cs["BLACK"] <=> s \in DOMAIN f.at
      BY <1>4, <1>5 DEF Colours
    <3>2. \A s : (\E p \in PieceTypes : s \in ps[p]) <=> s \in DOMAIN f.at
      BY <1>4, <1>5
    <3> QED BY <3>1, <3>2
  <2>4. \A p, q \in PieceTypes : p # q => ps[p] \cap ps[q] = {}
    BY <1>4
  <2> QED BY <1>0, <1>3, <1>4, <2>1, <2>2, <2>3, <2>4, InitialisedCounts DEF us
<1>8. \A c \in Colours : /\ b.king_square[c] \in Sq /\ b.colour_bb[c] \subseteq Sq
  BY <1>7 DEF Boards
<1>9. Safe(b)
  <2> DEFINE n == [b EXCEPT !.whos_move = them]
  <2>1. /\ n \in Boards /\ n.whos_move = them /\ n.colour_bb = b.colour_bb
        /\ n.piece_bb = b.piece_bb /\ n.occupied_bb = b.occupied_bb /\ n.king_square = b.king_square
    BY <1>2, <1>7 DEF Boards
  <2> HIDE DEF n
  <2>2. \A c, p : /\ pieces(n, c, p) = pieces(b, c, p) /\ RookLike(n, c) = RookLike(b, c)
                  /\ BishopLike(n, c) = BishopLike(b, c)
    BY <2>1 DEF pieces, RookLike, BishopLike
  <2>3. \A c, k : Strikers(n, c, k) = Strikers(b, c, k)
    BY <2>1, <2>2 DEF Strikers, Leapers, LinedUp
  <2>4. Checkers(n) = Strikers(b, us, b.king_square[them])
    BY <1>2, <2>1, <2>3, Struck
  <2>5. Checkers(n) = {}
    BY <1>1 DEF n, us, them, b
  <2> QED BY <1>7, <2>4, <2>5 DEF Safe, them
<1>10. Apart(b) /\ Cardinality(Checkers(b)) <= 2
  BY <1>1 DEF Apart
<1>11. PawnsInside(b)
  BY <1>1 DEF PawnsInside, pieces
<1>12. RightsHeld(b, f.rights)
  BY <1>0, <1>1 DEF RightsHeld
<1>13. EpHeld(b, f.ep)
  <2>1. CASE f.ep = NO_FILE
    BY <2>1 DEF EpHeld
  <2>2. CASE f.ep # NO_FILE
    <3> DEFINE earlier == (b.occupied_bb \ {EpPawn(us, f.ep)}) \cup {EpFrom(us, f.ep)}
    <3>1. /\ EpPawn(us, f.ep) \in pieces(b, them, "PAWN")
          /\ EpTo(us, f.ep) \notin b.occupied_bb /\ EpFrom(us, f.ep) \notin b.occupied_bb
          /\ rook_attacks(earlier, ks) \cap RookLike(b, them) = {}
          /\ bishop_attacks(earlier, ks) \cap BishopLike(b, them) = {}
      BY <1>0, <2>2 DEF LegalFen, EpPawn, EpTo, EpFrom, b, us, them
    <3> HIDE DEF earlier
    <3>2. ASSUME NEW s \in LinedUp(b, them, ks) PROVE Between[ks][s] \cap earlier # {}
      <4>1. \/ s \in RookLines[ks] /\ s \in RookLike(b, them)
            \/ s \in BishopLines[ks] /\ s \in BishopLike(b, them)
        BY <3>2 DEF LinedUp
      <4>2. s \in RookLines[ks] /\ Between[ks][s] \cap earlier = {} => s \in rook_attacks(earlier, ks)
        BY DEF rook_attacks
      <4>3. s \in BishopLines[ks] /\ Between[ks][s] \cap earlier = {} => s \in bishop_attacks(earlier, ks)
        BY DEF bishop_attacks
      <4> QED BY <3>1, <4>1, <4>2, <4>3
    <3> QED BY <1>0, <1>7, <3>1, <3>2 DEF EpHeld, earlier, them
  <2> QED BY <2>1, <2>2
<1> QED BY <1>0, <1>7, <1>9, <1>10, <1>11, <1>12, <1>13 DEF Lawful, b

-----------------------------------------------------------------------------
(***************************************************************************)
(* The inductive invariant.  At every ply of the game the position is      *)
(* lawful, the AuxilliaryInfo is of that position and the hash is its      *)
(* hash; and each ply is the one before with last_move made on it, which   *)
(* is what takes unmake_move back to it.                                   *)
(***************************************************************************)
Ply(b, a, h) ==
    /\ Lawful(b, a.castling_rights, a.en_passent_target)
    /\ b.fullmove_counter \in Nat
    /\ Informed(b, a)
    /\ h = ZobristHash(b, a)

Linked(b, m, next) ==
    \/ m = NULL_MOVE /\ next = NullBoard(b)
    \/ Playable(b, m) /\ next = MakeBoard(b, m)

\* The boards of the game are those of the earlier plies and the present one.
BoardAt(prev, b, i) == IF i <= Len(prev) THEN prev[i] ELSE b

IsSeq(s) == s \in Seq({s[i] : i \in 1 .. Len(s)})

Game(prev, b, as, hs) ==
    /\ IsSeq(prev) /\ IsSeq(as) /\ IsSeq(hs)
    /\ Len(as) = Len(prev) + 1 /\ Len(hs) = Len(prev) + 1
    /\ \A i \in 1 .. Len(prev) + 1 : Ply(BoardAt(prev, b, i), as[i], hs[i])
    /\ \A i \in 1 .. Len(prev) :
          Linked(BoardAt(prev, b, i), as[i + 1].last_move, BoardAt(prev, b, i + 1))

IInv == Game(boards, board, aux_history, hash_history)

\* What becomes of a history that grows or shrinks by an entry, or begins with one.
LEMMA Histories ==
  /\ \A s, e : IsSeq(s) =>
       /\ Len(s) \in Nat
       /\ IsSeq(Append(s, e)) /\ Len(Append(s, e)) = Len(s) + 1
       /\ Append(s, e)[Len(s) + 1] = e
       /\ \A i \in 1 .. Len(s) : Append(s, e)[i] = s[i]
  /\ \A s : IsSeq(s) /\ Len(s) > 0 =>
       /\ IsSeq(Shorter(s)) /\ Len(Shorter(s)) = Len(s) - 1
       /\ \A i \in 1 .. Len(s) - 1 : Shorter(s)[i] = s[i]
  /\ \A e : IsSeq(<<e>>) /\ Len(<<e>>) = 1 /\ <<e>>[1] = e
  /\ IsSeq(<<>>) /\ Len(<<>>) = 0
<1>1. ASSUME NEW S, NEW t \in Seq(S) PROVE IsSeq(t)
  <2>1. Len(t) \in Nat /\ t \in [1 .. Len(t) -> S] /\ DOMAIN t = 1 .. Len(t)
    BY LenProperties
  <2> DEFINE E == {t[i] : i \in 1 .. Len(t)}
  <2>2. t \in [1 .. Len(t) -> E]
    BY <2>1
  <2> HIDE DEF E
  <2>3. t \in Seq(E)
    BY <2>1, <2>2, SeqDef
  <2> QED BY <2>3 DEF IsSeq, E
<1>2. ASSUME NEW s, NEW e, IsSeq(s)
      PROVE  /\ Len(s) \in Nat
             /\ IsSeq(Append(s, e)) /\ Len(Append(s, e)) = Len(s) + 1
             /\ Append(s, e)[Len(s) + 1] = e
             /\ \A i \in 1 .. Len(s) : Append(s, e)[i] = s[i]
  <2> DEFINE S == {s[i] : i \in 1 .. Len(s)} \cup {e}
  <2>1. s \in Seq(S)
    BY <1>2, SeqMonotonic DEF IsSeq
  <2>2. e \in S
    OBVIOUS
  <2> HIDE DEF S
  <2>3. Append(s, e) \in Seq(S)
    BY <2>1, <2>2
  <2>4. IsSeq(Append(s, e))
    BY <2>3, <1>1
  <2> QED BY <2>1, <2>2, <2>4
<1>3. ASSUME NEW s, IsSeq(s), Len(s) > 0
      PROVE  /\ IsSeq(Shorter(s)) /\ Len(Shorter(s)) = Len(s) - 1
             /\ \A i \in 1 .. Len(s) - 1 : Shorter(s)[i] = s[i]
  <2> DEFINE n == Len(s) - 1
             S == {s[i] : i \in 1 .. Len(s)}
  <2>1. n \in Nat /\ s \in Seq(S)
    <3>1. s \in Seq(S)
      BY <1>3 DEF IsSeq
    <3>2. Len(s) \in Nat
      BY <3>1, LenProperties
    <3> QED BY <1>3, <3>1, <3>2
  <2>2. \A i \in 1 .. n : s[i] \in S
    BY <2>1
  <2> HIDE DEF S
  <2>3. /\ SubSeq(s, 1, n) \in Seq(S)
        /\ Len(SubSeq(s, 1, n)) = IF 1 <= n THEN n - 1 + 1 ELSE 0
        /\ \A i \in 1 .. n - 1 + 1 : SubSeq(s, 1, n)[i] = s[1 + i - 1]
    <3> HIDE DEF n
    <3> QED BY <2>1, <2>2, SubSeqProperties
  <2>4. IsSeq(Shorter(s))
    BY <2>3, <1>1 DEF Shorter
  <2> HIDE DEF n
  <2>5. Shorter(s) = SubSeq(s, 1, n) /\ n - 1 + 1 = n
    BY <2>1 DEF Shorter, n
  <2>6. (\A i \in 1 .. n : Shorter(s)[i] = s[i]) /\ Len(Shorter(s)) = n
    BY <2>1, <2>3, <2>5
  <2> QED BY <2>4, <2>6 DEF n
<1>4. ASSUME NEW e PROVE IsSeq(<<e>>) /\ Len(<<e>>) = 1 /\ <<e>>[1] = e
  <2>1. <<e>> \in Seq({e})
    OBVIOUS
  <2> QED BY <1>1, <2>1
<1>5. IsSeq(<<>>) /\ Len(<<>>) = 0
  <2>1. <<>> \in Seq({})
    OBVIOUS
  <2> QED BY <1>1, <2>1
<1>6. \A s, e : IsSeq(s) =>
       /\ Len(s) \in Nat
       /\ IsSeq(Append(s, e)) /\ Len(Append(s, e)) = Len(s) + 1
       /\ Append(s, e)[Len(s) + 1] = e
       /\ \A i \in 1 .. Len(s) : Append(s, e)[i] = s[i]
  BY <1>2
<1>7. \A s : IsSeq(s) /\ Len(s) > 0 =>
       /\ IsSeq(Shorter(s)) /\ Len(Shorter(s)) = Len(s) - 1
       /\ \A i \in 1 .. Len(s) - 1 : Shorter(s)[i] = s[i]
  BY <1>3
<1> QED BY <1>4, <1>5, <1>6, <1>7, Zenon

\* A game goes on by a ply, and back by one, to the board that was linked to the last.
LEMMA GameMoves ==
  /\ \A b, a, h : Ply(b, a, h) => Game(<<>>, b, <<a>>, <<h>>)
  /\ \A prev, b, as, hs, n, a, h :
       Game(prev, b, as, hs) /\ Ply(n, a, h) /\ Linked(b, a.last_move, n)
         => Game(Append(prev, b), n, Append(as, a), Append(hs, h))
  /\ \A prev, b, as, hs :
       Game(prev, b, as, hs) =>
         /\ Len(prev) \in Nat /\ Len(as) = Len(prev) + 1 /\ Len(hs) = Len(prev) + 1
         /\ Ply(b, as[Len(as)], hs[Len(hs)])
         /\ Len(prev) > 0 =>
              /\ Game(Shorter(prev), prev[Len(prev)], Shorter(as), Shorter(hs))
              /\ Linked(prev[Len(prev)], as[Len(as)].last_move, b)
              /\ prev[Len(prev)] \in Boards /\ Views(prev[Len(prev)]) /\ Counted(prev[Len(prev)])
<1>0. ASSUME NEW s, NEW e, IsSeq(s)
      PROVE  /\ Len(s) \in Nat
             /\ IsSeq(Append(s, e)) /\ Len(Append(s, e)) = Len(s) + 1
             /\ Append(s, e)[Len(s) + 1] = e
             /\ \A i \in 1 .. Len(s) : Append(s, e)[i] = s[i]
  BY <1>0, Histories
<1>1. ASSUME NEW b, NEW a, NEW h, Ply(b, a, h) PROVE Game(<<>>, b, <<a>>, <<h>>)
  <2>1. /\ IsSeq(<<>>) /\ Len(<<>>) = 0
        /\ IsSeq(<<a>>) /\ Len(<<a>>) = 1 /\ <<a>>[1] = a
        /\ IsSeq(<<h>>) /\ Len(<<h>>) = 1 /\ <<h>>[1] = h
    BY Histories
  <2>2. \A i \in 1 .. Len(<<>>) + 1 : i = 1
    BY <2>1
  <2>3. BoardAt(<<>>, b, 1) = b
    BY <2>1 DEF BoardAt
  <2>4. \A i \in 1 .. Len(<<>>) : FALSE
    BY <2>1
  <2>5. Len(<<a>>) = Len(<<>>) + 1 /\ Len(<<h>>) = Len(<<>>) + 1
    BY <2>1
  <2> QED BY <1>1, <2>1, <2>2, <2>3, <2>4, <2>5 DEF Game
<1>2. ASSUME NEW prev, NEW b, NEW as, NEW hs, NEW n, NEW a, NEW h,
             Game(prev, b, as, hs), Ply(n, a, h), Linked(b, a.last_move, n)
      PROVE  Game(Append(prev, b), n, Append(as, a), Append(hs, h))
  <2> DEFINE k == Len(prev)
             p == Append(prev, b)
             as1 == Append(as, a)
             hs1 == Append(hs, h)
  <2>1. /\ k \in Nat /\ Len(as) = k + 1 /\ Len(hs) = k + 1
        /\ IsSeq(p) /\ IsSeq(as1) /\ IsSeq(hs1)
        /\ Len(p) = k + 1 /\ Len(as1) = k + 2 /\ Len(hs1) = k + 2
        /\ \A i \in 1 .. k : p[i] = prev[i]
        /\ \A i \in 1 .. k + 1 : as1[i] = as[i] /\ hs1[i] = hs[i]
        /\ p[k + 1] = b /\ as1[k + 2] = a /\ hs1[k + 2] = h
    <3>1. /\ IsSeq(prev) /\ IsSeq(as) /\ IsSeq(hs) /\ Len(as) = k + 1 /\ Len(hs) = k + 1
      BY <1>2 DEF Game
    <3>2. /\ k \in Nat /\ IsSeq(p) /\ Len(p) = k + 1 /\ p[k + 1] = b
          /\ \A i \in 1 .. k : p[i] = prev[i]
      BY <1>0, <3>1
    <3>3. /\ IsSeq(as1) /\ Len(as1) = Len(as) + 1 /\ as1[Len(as) + 1] = a
          /\ \A i \in 1 .. Len(as) : as1[i] = as[i]
      BY <1>0, <3>1
    <3>4. /\ IsSeq(hs1) /\ Len(hs1) = Len(hs) + 1 /\ hs1[Len(hs) + 1] = h
          /\ \A i \in 1 .. Len(hs) : hs1[i] = hs[i]
      BY <1>0, <3>1
    <3>5. Len(as) + 1 = k + 2 /\ Len(hs) + 1 = k + 2
      BY <3>1, <3>2
    <3> HIDE DEF k, p, as1, hs1
    <3>6. /\ Len(as1) = k + 2 /\ as1[k + 2] = a /\ \A i \in 1 .. k + 1 : as1[i] = as[i]
      BY <3>1, <3>3, <3>5
    <3>7. /\ Len(hs1) = k + 2 /\ hs1[k + 2] = h /\ \A i \in 1 .. k + 1 : hs1[i] = hs[i]
      BY <3>1, <3>4, <3>5
    <3> QED BY <3>1, <3>2, <3>3, <3>4, <3>6, <3>7
  <2> HIDE DEF k, p, as1, hs1
  <2>2. \A i \in 1 .. k + 1 : BoardAt(p, n, i) = BoardAt(prev, b, i)
    BY <2>1 DEF BoardAt, k
  <2>3. BoardAt(p, n, k + 2) = n /\ BoardAt(prev, b, k + 1) = b
    BY <2>1 DEF BoardAt, k
  <2>4. \A i \in 1 .. k + 2 : Ply(BoardAt(p, n, i), as1[i], hs1[i])
    <3>1. \A i \in 1 .. k + 1 : Ply(BoardAt(p, n, i), as1[i], hs1[i])
      BY <1>2, <2>1, <2>2 DEF Game, k
    <3>2. Ply(BoardAt(p, n, k + 2), as1[k + 2], hs1[k + 2])
      BY <1>2, <2>1, <2>3
    <3>3. \A i \in 1 .. k + 2 : i \in 1 .. k + 1 \/ i = k + 2
      BY <2>1
    <3> QED BY <3>1, <3>2, <3>3
  <2>5. \A i \in 1 .. k + 1 : Linked(BoardAt(p, n, i), as1[i + 1].last_move, BoardAt(p, n, i + 1))
    <3>1. \A i \in 1 .. k : Linked(BoardAt(p, n, i), as1[i + 1].last_move, BoardAt(p, n, i + 1))
      <4>1. \A i \in 1 .. k : /\ i \in 1 .. k + 1 /\ i + 1 \in 1 .. k + 1
        BY <2>1
      <4> QED BY <1>2, <2>1, <2>2, <4>1 DEF Game, k
    <3>2. Linked(BoardAt(p, n, k + 1), as1[k + 2].last_move, BoardAt(p, n, k + 2))
      <4>1. k + 1 \in 1 .. k + 1
        BY <2>1
      <4>2. BoardAt(p, n, k + 1) = b
        BY <2>2, <2>3, <4>1
      <4> QED BY <1>2, <2>1, <2>3, <4>2
    <3>3. \A i \in 1 .. k + 1 : i \in 1 .. k \/ (i = k + 1 /\ i + 1 = k + 2)
      BY <2>1
    <3> QED BY <3>1, <3>2, <3>3
  <2>6. Len(p) + 1 = k + 2
    BY <2>1
  <2> QED BY <2>1, <2>4, <2>5, <2>6 DEF Game, p, as1, hs1
<1>3. ASSUME NEW prev, NEW b, NEW as, NEW hs, Game(prev, b, as, hs)
      PROVE  /\ Len(prev) \in Nat /\ Len(as) = Len(prev) + 1 /\ Len(hs) = Len(prev) + 1
             /\ Ply(b, as[Len(as)], hs[Len(hs)])
             /\ Len(prev) > 0 =>
                  /\ Game(Shorter(prev), prev[Len(prev)], Shorter(as), Shorter(hs))
                  /\ Linked(prev[Len(prev)], as[Len(as)].last_move, b)
                  /\ prev[Len(prev)] \in Boards /\ Views(prev[Len(prev)]) /\ Counted(prev[Len(prev)])
  <2> DEFINE k == Len(prev)
  <2>1. k \in Nat /\ Len(as) = k + 1 /\ Len(hs) = k + 1
    BY <1>3, Histories DEF Game
  <2>2. Ply(b, as[Len(as)], hs[Len(hs)])
    <3>1. k + 1 \in 1 .. k + 1 /\ BoardAt(prev, b, k + 1) = b
      BY <2>1 DEF BoardAt
    <3> QED BY <1>3, <2>1, <3>1 DEF Game
  <2>3. ASSUME k > 0
        PROVE  /\ Game(Shorter(prev), prev[k], Shorter(as), Shorter(hs))
               /\ Linked(prev[k], as[Len(as)].last_move, b)
               /\ prev[k] \in Boards /\ Views(prev[k]) /\ Counted(prev[k])
    <3> DEFINE p == Shorter(prev)
               as1 == Shorter(as)
               hs1 == Shorter(hs)
    <3>1. IsSeq(prev) /\ IsSeq(as) /\ IsSeq(hs)
      BY <1>3 DEF Game
    <3>2. Len(as) > 0 /\ Len(hs) > 0
      BY <2>1
    <3>3. /\ IsSeq(p) /\ IsSeq(as1) /\ IsSeq(hs1)
          /\ Len(p) = k - 1 /\ Len(as1) = k /\ Len(hs1) = k
          /\ \A i \in 1 .. k - 1 : p[i] = prev[i]
          /\ \A i \in 1 .. k : as1[i] = as[i] /\ hs1[i] = hs[i]
      <4>1. IsSeq(p) /\ Len(p) = k - 1 /\ \A i \in 1 .. k - 1 : p[i] = prev[i]
        BY <2>3, <3>1, Histories
      <4>2. IsSeq(as1) /\ Len(as1) = Len(as) - 1 /\ \A i \in 1 .. Len(as) - 1 : as1[i] = as[i]
        BY <3>1, <3>2, Histories
      <4>3. IsSeq(hs1) /\ Len(hs1) = Len(hs) - 1 /\ \A i \in 1 .. Len(hs) - 1 : hs1[i] = hs[i]
        BY <3>1, <3>2, Histories
      <4>4. Len(as) - 1 = k /\ Len(hs) - 1 = k
        BY <2>1
      <4> QED BY <4>1, <4>2, <4>3, <4>4
    <3> HIDE DEF p, as1, hs1
    <3>4. \A i \in 1 .. k : BoardAt(p, prev[k], i) = BoardAt(prev, b, i)
      BY <2>1, <2>3, <3>3 DEF BoardAt
    <3>5. BoardAt(prev, b, k) = prev[k] /\ BoardAt(prev, b, k + 1) = b /\ k \in 1 .. k
      BY <2>1, <2>3 DEF BoardAt
    <3>6. \A i \in 1 .. k : i \in 1 .. k + 1
      BY <2>1
    <3>7. \A i \in 1 .. k : Ply(BoardAt(p, prev[k], i), as1[i], hs1[i])
      BY <1>3, <3>3, <3>4, <3>6 DEF Game
    <3>8. \A i \in 1 .. k - 1 : Linked(BoardAt(p, prev[k], i), as1[i + 1].last_move, BoardAt(p, prev[k], i + 1))
      <4>1. \A i \in 1 .. k - 1 : i \in 1 .. k /\ i + 1 \in 1 .. k
        BY <2>1
      <4> QED BY <1>3, <3>3, <3>4, <4>1 DEF Game
    <3>9. Len(p) + 1 = k
      BY <2>1, <3>3
    <3>10. Game(p, prev[k], as1, hs1)
      <4> HIDE DEF k
      <4> QED BY <2>1, <3>3, <3>7, <3>8, <3>9 DEF Game
    <3>11. Linked(prev[k], as[Len(as)].last_move, b)
      BY <1>3, <2>1, <3>5 DEF Game
    <3>12. prev[k] \in Boards /\ Views(prev[k]) /\ Counted(prev[k])
      <4>1. Ply(prev[k], as[k], hs[k])
        BY <1>3, <3>5, <3>6 DEF Game
      <4> QED BY <4>1 DEF Ply, Lawful
    <3> QED BY <3>10, <3>11, <3>12 DEF p, as1, hs1
  <2> QED BY <2>1, <2>2, <2>3
<1> QED BY <1>1, <1>2, <1>3, Zenon

\* What make_move is given it may take, and last_move is what it was given.
LEMMA MovedOn ==
  ASSUME IInv, MakeMove
  PROVE  \E m : /\ Playable(board, m) /\ PawnGoes(board, m)
                /\ \/ Steered(board, aux_info, m) \/ Royal(board, aux_info, m)
                   \/ InPassing(board, aux_info, m)
                /\ board' = MakeBoard(board, m)
                /\ aux_history' = Append(aux_history, MakeAux(board, aux_info, m))
                /\ hash_history' = Append(hash_history,
                      Xor(hash, ZobristDiff(m, board.whos_move, aux_info.en_passent_target,
                                            LostRights(aux_info.castling_rights, board.whos_move, m))))
                /\ boards' = Append(boards, board)
                /\ aux_history'[Len(aux_history')].last_move = m
<1>0. /\ Lawful(board, aux_info.castling_rights, aux_info.en_passent_target)
      /\ Informed(board, aux_info) /\ board \in Boards /\ Views(board) /\ Counted(board)
  BY GameMoves DEF IInv, Ply, Lawful, aux_info
<1>1. PICK move \in get_moves(board, aux_info) :
        LET m == [move EXCEPT !.captured_piece = Captured(board, move)]
        IN /\ board' = MakeBoard(board, m)
           /\ aux_history' = Append(aux_history, MakeAux(board, aux_info, m))
           /\ hash_history' = Append(hash_history,
                 Xor(hash, ZobristDiff(m, board.whos_move, aux_info.en_passent_target,
                                       LostRights(aux_info.castling_rights, board.whos_move, m))))
  BY DEF MakeMove
<1> DEFINE m == [move EXCEPT !.captured_piece = Captured(board, move)]
<1>2. Described(board, aux_info, move)
  BY <1>0, Generated
<1>3. /\ Playable(board, m) /\ PawnGoes(board, m)
      /\ Steered(board, aux_info, m) \/ Royal(board, aux_info, m) \/ InPassing(board, aux_info, m)
  BY <1>0, <1>2, CapturedIsThere
<1> HIDE DEF m
<1>4. MakeAux(board, aux_info, m).last_move = m
  BY DEF MakeAux, AuxInfo
<1>5. LET as == Append(aux_history, MakeAux(board, aux_info, m))
      IN as[Len(as)] = MakeAux(board, aux_info, m)
  BY Histories DEF IInv, Game
<1>6. boards' = Append(boards, board)
  BY DEF MakeMove
<1> QED BY <1>1, <1>3, <1>4, <1>5, <1>6 DEF m

\* unmake_move and unmake_nullmove come back to the board of the ply before, on which
\* last_move, or the null move, was made.
LEMMA TakenBack ==
  ASSUME IInv, UnmakeMove \/ UnmakeNullmove
  PROVE  /\ board' = boards[Len(boards)]
         /\ board' \in Boards /\ Views(board')
         /\ UnmakeMove => /\ Playable(board', aux_info.last_move)
                          /\ board = MakeBoard(board', aux_info.last_move)
         /\ UnmakeNullmove => board = NullBoard(board')
<1> DEFINE b == boards[Len(boards)]
           m == aux_info.last_move
<1>1. Linked(b, m, board) /\ b \in Boards /\ Views(b) /\ Counted(b)
  BY GameMoves DEF IInv, aux_info, UnmakeMove, UnmakeNullmove, ply_counter
<1>2. ~Playable(b, NULL_MOVE)
  BY DEF Playable, MadeMoves, NULL_MOVE, Move, PieceTypes, NO_PIECE
<1>3. CASE UnmakeMove
  <2>1. Playable(b, m) /\ board = MakeBoard(b, m) /\ board' = UnmakeBoard(board, m)
    BY <1>1, <1>3 DEF Linked, UnmakeMove
  <2>2. /\ m \in MadeMoves
        /\ m.moving_piece = "KING" => b.king_square[b.whos_move] = m.origin
    BY <1>1, <2>1 DEF Playable, Counted, Boards
  <2>3. board' = b
    BY <1>1, <2>1, <2>2, UnmakeUndoesMake
  <2>4. ~UnmakeNullmove
    BY <1>3 DEF UnmakeMove, UnmakeNullmove
  <2> QED BY <1>1, <2>1, <2>3, <2>4
<1>4. CASE UnmakeNullmove
  <2>1. board = NullBoard(b) /\ board' = UnnullBoard(board)
    BY <1>1, <1>2, <1>4 DEF Linked, UnmakeNullmove
  <2>2. board' = b
    BY <1>1, <2>1, UnnullUndoesNull
  <2>3. ~UnmakeMove
    BY <1>4 DEF UnmakeMove, UnmakeNullmove
  <2> QED BY <1>1, <2>1, <2>2, <2>3
<1> QED BY <1>3, <1>4

\* The invariant holds when a position is set up, and every operation keeps it.
THEOREM GameIsKept == Spec => []IInv
<1>1. ASSUME NEW f \in Fens
      PROVE  Game(<<>>, SetUp[f].board, <<SetUp[f].aux>>, <<SetUp[f].hash>>)
  <2> DEFINE b == Decoded(f)
             a == DecodedAux(b, f.rights, f.clock, f.ep)
  <2>1. SetUp[f] = [board |-> b, aux |-> a, hash |-> ZobristHash(b, a)]
    BY DEF SetUp
  <2>2. /\ Lawful(b, f.rights, f.ep) /\ b.fullmove_counter \in Nat
    BY DecodedLawful
  <2>3. a.castling_rights = f.rights /\ a.en_passent_target = f.ep /\ Informed(b, a)
    BY DEF DecodedAux, AuxInfo, Informed
  <2> HIDE DEF a, b
  <2>4. Ply(b, a, ZobristHash(b, a))
    BY <2>2, <2>3 DEF Ply
  <2>5. Game(<<>>, b, <<a>>, <<ZobristHash(b, a)>>)
    BY <2>4, GameMoves
  <2>6. SetUp[f].board = b /\ SetUp[f].aux = a /\ SetUp[f].hash = ZobristHash(b, a)
    BY <2>1
  <2> QED BY <2>5, <2>6
<1>2. Init => IInv
  BY <1>1 DEF Init, IInv
<1>3. IInv =>
        /\ Len(boards) \in Nat /\ Len(aux_history) = Len(boards) + 1 /\ Len(hash_history) = Len(boards) + 1
        /\ Ply(board, aux_info, hash)
        /\ Len(boards) > 0 =>
             /\ Game(Shorter(boards), boards[Len(boards)], Shorter(aux_history), Shorter(hash_history))
             /\ Linked(boards[Len(boards)], aux_info.last_move, board)
             /\ boards[Len(boards)] \in Boards /\ Counted(boards[Len(boards)])
  BY GameMoves DEF IInv, aux_info, hash
<1>4. IInv /\ FenDecode => IInv'
  BY <1>1 DEF IInv, FenDecode
<1>5. IInv /\ Flip => IInv'
  <2> SUFFICES ASSUME IInv, Flip PROVE IInv'
    OBVIOUS
  <2> DEFINE n == FlippedBoard(board)
             a == FlippedAux(board, aux_info)
  <2>1. Ply(board, aux_info, hash) /\ boards = <<>>
    <3>1. Len(boards) = 0 /\ Len(boards) \in Nat
      BY <1>3 DEF Flip, ply_counter
    <3>2. boards = <<>>
      BY <3>1, EmptySeq DEF IInv, Game, IsSeq
    <3> QED BY <1>3, <3>2
  <2>2. Lawful(n, {<<Other(right[1]), right[2]>> : right \in aux_info.castling_rights}, aux_info.en_passent_target)
    BY <2>1, FlippedLawful DEF Ply
  <2>3. /\ a.castling_rights = {<<Other(right[1]), right[2]>> : right \in aux_info.castling_rights}
        /\ a.en_passent_target = aux_info.en_passent_target /\ Informed(n, a)
    BY DEF FlippedAux, AuxInfo, Informed
  <2>4. n.fullmove_counter \in Nat
    BY <2>1 DEF Ply, FlippedBoard, Initialised
  <2>5. board' = n /\ aux_history' = <<a>> /\ hash_history' = <<ZobristHash(n, a)>> /\ boards' = <<>>
    <3>1. board' = n /\ aux_history' = <<a>> /\ hash_history' = <<ZobristHash(board', aux_history'[1])>>
          /\ boards' = boards
      BY DEF Flip
    <3> HIDE DEF a, n
    <3> QED BY <2>1, <3>1
  <2> HIDE DEF a, n
  <2>6. Ply(n, a, ZobristHash(n, a))
    BY <2>2, <2>3, <2>4 DEF Ply
  <2> QED BY <2>5, <2>6, GameMoves DEF IInv
<1>6. IInv /\ MakeMove => IInv'
  <2> SUFFICES ASSUME IInv, MakeMove PROVE IInv'
    OBVIOUS
  <2> DEFINE us == board.whos_move
             rights == aux_info.castling_rights
             ep == aux_info.en_passent_target
  <2>0. /\ Lawful(board, rights, ep) /\ Informed(board, aux_info) /\ hash = ZobristHash(board, aux_info)
        /\ board \in Boards /\ Views(board) /\ Counted(board) /\ rights \subseteq Colours \X Sides
        /\ board.fullmove_counter \in Nat
    BY <1>3 DEF Ply, Lawful, RightsHeld
  <2>1. PICK m :
          /\ Playable(board, m) /\ PawnGoes(board, m)
          /\ Steered(board, aux_info, m) \/ Royal(board, aux_info, m) \/ InPassing(board, aux_info, m)
          /\ board' = MakeBoard(board, m)
          /\ aux_history' = Append(aux_history, MakeAux(board, aux_info, m))
          /\ hash_history' = Append(hash_history,
                Xor(hash, ZobristDiff(m, us, ep, LostRights(rights, us, m))))
          /\ boards' = Append(boards, board)
    BY MovedOn
  <2> DEFINE n == MakeBoard(board, m)
             a == MakeAux(board, aux_info, m)
             lost == LostRights(rights, us, m)
             h == Xor(hash, ZobristDiff(m, us, ep, lost))
  <2>2. /\ board' = n /\ aux_history' = Append(aux_history, a) /\ hash_history' = Append(hash_history, h)
        /\ boards' = Append(boards, board)
    BY <2>1
  <2>3. /\ Playable(board, m) /\ PawnGoes(board, m)
        /\ Steered(board, aux_info, m) \/ Royal(board, aux_info, m) \/ InPassing(board, aux_info, m)
    BY <2>1
  <2>4. /\ a.castling_rights = rights \ lost /\ a.en_passent_target = EpMade(m)
        /\ a.last_move = m /\ Informed(n, a)
    BY DEF MakeAux, AuxInfo, Informed
  <2>5. n.fullmove_counter \in Nat
    BY <2>0 DEF MakeBoard
  <2>6. lost \in SUBSET rights
    BY DEF LostRights
  <2>7. Lawful(n, rights \ lost, EpMade(m))
    BY <2>0, <2>3, MadeLawful
  <2>8. h = ZobristHash(n, a)
    <3> HIDE DEF a, lost, rights, ep, us, n, h
    <3>1. /\ board \in Boards /\ Views(board) /\ Playable(board, m)
          /\ aux_info.castling_rights \subseteq Colours \X Sides
          /\ lost \subseteq aux_info.castling_rights
          /\ a.castling_rights = aux_info.castling_rights \ lost
          /\ a.en_passent_target = EpMade(m)
      BY <2>0, <2>3, <2>4, <2>6 DEF rights
    <3>2. Xor(ZobristHash(board, aux_info),
              ZobristDiff(m, board.whos_move, aux_info.en_passent_target, lost))
          = ZobristHash(MakeBoard(board, m), a)
      BY <3>1, MadeHash
    <3> QED BY <2>0, <3>2 DEF n, h, us, ep
  <2> HIDE DEF n, a, lost, h
  <2>9. Ply(n, a, h)
    BY <2>4, <2>5, <2>7, <2>8 DEF Ply
  <2>10. Linked(board, a.last_move, n)
    BY <2>3, <2>4 DEF Linked, n
  <2> QED BY <2>2, <2>9, <2>10, GameMoves DEF IInv
<1>7. IInv /\ MakeNullmove => IInv'
  <2> SUFFICES ASSUME IInv, MakeNullmove PROVE IInv'
    OBVIOUS
  <2> DEFINE rights == aux_info.castling_rights
             ep == aux_info.en_passent_target
             n == NullBoard(board)
             a == NullAux(board, aux_info)
             h == Xor(hash, ZobristNulldiff(board.whos_move, ep))
  <2>0. /\ Lawful(board, rights, ep) /\ Informed(board, aux_info) /\ hash = ZobristHash(board, aux_info)
        /\ board \in Boards /\ board.fullmove_counter \in Nat
    BY <1>3 DEF Ply, Lawful
  <2>1. /\ board' = n /\ aux_history' = Append(aux_history, a) /\ hash_history' = Append(hash_history, h)
        /\ boards' = Append(boards, board) /\ ~is_check(aux_info)
    BY DEF MakeNullmove
  <2>2. /\ a.castling_rights = rights /\ a.en_passent_target = NO_FILE
        /\ a.last_move = NULL_MOVE /\ Informed(n, a)
    BY DEF NullAux, AuxInfo, Informed
  <2>3. n.fullmove_counter \in Nat
    <3> DEFINE next == board.fullmove_counter + (IF board.whos_move = "BLACK" THEN 1 ELSE 0)
    <3>1. n = [board EXCEPT !.whos_move = Other(@), !.fullmove_counter = next] /\ next \in Nat
      BY <2>0 DEF NullBoard
    <3> HIDE DEF next
    <3> QED BY <2>0, <3>1 DEF Boards
  <2>4. Lawful(n, rights, NO_FILE)
    BY <2>0, <2>1, NullLawful
  <2>5. h = ZobristHash(n, a)
    <3> HIDE DEF a
    <3>1. Xor(ZobristHash(board, aux_info), ZobristNulldiff(board.whos_move, ep)) = ZobristHash(NullBoard(board), a)
      BY <2>0, <2>2, NullHash
    <3> QED BY <2>0, <3>1
  <2> HIDE DEF n, a, h
  <2>6. Ply(n, a, h)
    BY <2>2, <2>3, <2>4, <2>5 DEF Ply
  <2>7. Linked(board, a.last_move, n)
    BY <2>2 DEF Linked, n
  <2> QED BY <2>1, <2>6, <2>7, GameMoves DEF IInv
<1>8. IInv /\ (UnmakeMove \/ UnmakeNullmove) => IInv'
  <2> SUFFICES ASSUME IInv, UnmakeMove \/ UnmakeNullmove PROVE IInv'
    OBVIOUS
  <2>1. /\ aux_history' = Shorter(aux_history) /\ hash_history' = Shorter(hash_history)
        /\ boards' = Shorter(boards) /\ ply_counter > 0
    BY DEF UnmakeMove, UnmakeNullmove
  <2>2. Len(boards) > 0
    BY <1>3, <2>1 DEF ply_counter
  <2> QED BY <1>3, <2>1, <2>2, TakenBack DEF IInv
<1>9. IInv /\ UNCHANGED vars => IInv'
  BY DEF IInv, vars
<1> QED BY <1>2, <1>4, <1>5, <1>6, <1>7, <1>8, <1>9, PTL DEF Spec, Next

-----------------------------------------------------------------------------
(***************************************************************************)
(* What follows from it.                                                   *)
(***************************************************************************)
\* Every AuxilliaryInfo of the history is of the shape the code's fixed arrays have: of
\* at most two checkers, whatever has been played; and the material counter, which the
\* moves add to and subtract from, never goes below zero.
THEOREM TypesAreKept == Spec => []TypeOK
<1>1. IInv => TypeOK
  <2> SUFFICES ASSUME IInv PROVE TypeOK
    OBVIOUS
  <2>1. /\ Len(boards) \in Nat /\ Len(aux_history) = Len(boards) + 1 /\ Len(hash_history) = Len(boards) + 1
        /\ Ply(board, aux_info, hash)
    BY GameMoves DEF IInv, aux_info, hash
  <2>2. Len(hash_history) = Len(aux_history) /\ Len(boards) = ply_counter
    BY <2>1 DEF ply_counter
  <2>3. board \in Boards /\ Counted(board) /\ board.fullmove_counter \in Nat
    BY <2>1 DEF Ply, Lawful
  <2>4. board.phase_material \in Nat
    <3>1. ASSUME NEW c \in Colours, NEW p \in PieceTypes PROVE board.piece_counts[c][p] \in Nat
      <4>1. pieces(board, c, p) \subseteq Sq
        BY <2>3 DEF pieces, Boards
      <4>2. Sq = 0 .. 63 /\ 0 \in Int /\ 63 \in Int
        BY DEF Sq
      <4>3. IsFiniteSet(pieces(board, c, p))
        BY <4>1, <4>2, FS_Interval, FS_Subset
      <4> QED BY <2>3, <4>3, FS_CardinalityType DEF Counted
    <3>2. \A p \in Valued : piece_phase_material(p) \in Nat
      BY DEF Valued, piece_phase_material
    <3>3. \A p \in Valued : board.piece_counts["WHITE"][p] \in Nat /\ board.piece_counts["BLACK"][p] \in Nat
      BY <3>1 DEF Valued, PieceTypes, Colours
    <3>4. \A p \in Valued : piece_phase_material(p) * (board.piece_counts["WHITE"][p] + board.piece_counts["BLACK"][p]) \in Nat
      <4>1. ASSUME NEW x \in Nat, NEW y \in Nat, NEW z \in Nat PROVE x * (y + z) \in Nat
        OBVIOUS
      <4> QED BY <3>2, <3>3, <4>1
    <3> QED BY <2>3, <3>4 DEF Counted, Weight, Valued
  <2>5. ASSUME NEW i \in DOMAIN aux_history
        PROVE  /\ aux_history[i].castling_rights \subseteq Colours \X Sides
               /\ aux_history[i].en_passent_target \in Files \cup {NO_FILE}
               /\ Cardinality(aux_history[i].checkers) <= 2
    <3>1. i \in 1 .. Len(boards) + 1
      <4>1. DOMAIN aux_history = 1 .. Len(aux_history)
        BY LenProperties DEF IInv, Game, IsSeq
      <4> QED BY <2>1, <4>1
    <3>2. Ply(BoardAt(boards, board, i), aux_history[i], hash_history[i])
      BY <3>1 DEF IInv, Game
    <3> QED BY <3>2 DEF Ply, Lawful, Informed, RightsHeld, EpHeld
  <2> QED BY <2>2, <2>3, <2>4, <2>5 DEF TypeOK, Boards
<1> QED BY <1>1, GameIsKept, PTL

\* The bitboards, the counters and the kings' squares tell the same of every position a
\* game can reach, and the material is that of a board decoded anew.
THEOREM CountsAreKept == Spec => []CountsTracked
<1>1. IInv => CountsTracked
  <2> SUFFICES ASSUME IInv PROVE CountsTracked
    OBVIOUS
  <2>1. board \in Boards /\ Views(board) /\ Counted(board)
    BY GameMoves DEF IInv, Ply, Lawful
  <2> DEFINE at == [s \in board.occupied_bb |-> <<
                      IF s \in board.colour_bb["WHITE"] THEN "WHITE" ELSE "BLACK", piece_type(board, s)>>]
             cs == [c \in Colours |-> {s \in DOMAIN at : at[s][1] = c}]
             ps == [p \in PieceTypes |-> {s \in DOMAIN at : at[s][2] = p}]
             b == DecodedBoard(at, board.whos_move, 1)
  <2>2. cs = board.colour_bb
    <3>1. ASSUME NEW c \in Colours PROVE cs[c] = board.colour_bb[c]
      <4>1. \A s : s \in cs[c] <=> s \in board.occupied_bb
                     /\ (IF s \in board.colour_bb["WHITE"] THEN "WHITE" ELSE "BLACK") = c
        OBVIOUS
      <4> HIDE DEF cs
      <4>2. CASE c = "WHITE"
        BY <2>1, <4>1, <4>2 DEF Views
      <4>3. CASE c = "BLACK"
        BY <2>1, <4>1, <4>3 DEF Views
      <4> QED BY <4>2, <4>3 DEF Colours
    <3>2. cs = [c \in Colours |-> cs[c]] /\ board.colour_bb = [c \in Colours |-> board.colour_bb[c]]
      BY <2>1 DEF Boards
    <3> HIDE DEF cs
    <3> QED BY <3>1, <3>2
  <2>3. ps = board.piece_bb
    <3>1. ASSUME NEW p \in PieceTypes PROVE ps[p] = board.piece_bb[p]
      <4>1. \A s : s \in ps[p] <=> s \in board.occupied_bb /\ piece_type(board, s) = p
        OBVIOUS
      <4>2. ASSUME NEW s \in board.occupied_bb
            PROVE  /\ piece_type(board, s) \in PieceTypes
                   /\ s \in board.piece_bb[piece_type(board, s)]
        <5>1. \E q \in PieceTypes : s \in board.piece_bb[q]
          BY <2>1 DEF Views
        <5> QED BY <5>1 DEF piece_type
      <4>3. board.piece_bb[p] \subseteq board.occupied_bb
        BY <2>1 DEF Views
      <4> HIDE DEF ps
      <4> QED BY <2>1, <4>1, <4>2, <4>3 DEF Views
    <3>2. ps = [p \in PieceTypes |-> ps[p]] /\ board.piece_bb = [p \in PieceTypes |-> board.piece_bb[p]]
      BY <2>1 DEF Boards
    <3> HIDE DEF ps
    <3> QED BY <3>1, <3>2
  <2>4. b = Initialised(cs, ps, board.whos_move, 1)
    BY DEF DecodedBoard
  <2> HIDE DEF cs, ps, at
  <2>5. b = Initialised(board.colour_bb, board.piece_bb, board.whos_move, 1)
    BY <2>2, <2>3, <2>4
  <2>6. \A c \in Colours, p \in PieceTypes :
           Cardinality(board.colour_bb[c] \cap board.piece_bb[p]) = board.piece_counts[c][p]
    BY <2>1 DEF Counted, pieces
  <2>7. board.phase_material = b.phase_material
    <3> HIDE DEF b
    <3>1. Valued \subseteq PieceTypes /\ "WHITE" \in Colours /\ "BLACK" \in Colours
      BY DEF Valued, PieceTypes, Colours
    <3>2. b.phase_material = Weight(board.piece_counts)
      BY <2>5, <2>6, <3>1 DEF Initialised, Weight, Valued
    <3> QED BY <2>1, <3>2 DEF Counted
  <2> QED BY <2>1, <2>7 DEF CountsTracked, Views, Counted, at
<1> QED BY <1>1, GameIsKept, PTL

\* The hash kept by differences is that of the position, through every capture, promotion,
\* castling, null move and taking back.
THEOREM HashIsKept == Spec => []HashTracked
<1>1. IInv => HashTracked
  BY GameMoves DEF IInv, Ply, HashTracked, aux_info, hash
<1> QED BY <1>1, GameIsKept, PTL

\* No right to castle outlives the king's or the rook's leaving home, the rook's being
\* taken there included.
THEOREM RightsAreKept == Spec => []RightsHold
<1>1. IInv => RightsHold
  BY GameMoves DEF IInv, Ply, Lawful, RightsHeld, RightsHold, aux_info
<1> QED BY <1>1, GameIsKept, PTL

\* In every position of a game the generator makes the legal moves, all of them and no
\* others: pins, evasions, double checks, castling and captures en passant included.
THEOREM GeneratorIsLegal == Spec => []MovesAreLegal
<1>1. IInv => MovesAreLegal
  BY GameMoves, GeneratesLegal DEF IInv, Ply, MovesAreLegal, aux_info, At
<1> QED BY <1>1, GameIsKept, PTL

\* In every position of a game gives_check tells, of every move but a capture en passant,
\* whether the other king is in check once it is made: by the piece that moves, by what it
\* becomes, by what stood behind it, and by the rook of a castling.
THEOREM ChecksAreForeseen == Spec => []ChecksForeseen
<1>1. IInv => ChecksForeseen
  <2> SUFFICES ASSUME IInv, NEW m \in get_moves(board, aux_info), m.type # "EN_PASSENT"
               PROVE  Foreseen(m)
    BY DEF ChecksForeseen
  <2>1. /\ Lawful(board, aux_info.castling_rights, aux_info.en_passent_target)
        /\ Informed(board, aux_info)
    BY GameMoves DEF IInv, Ply, aux_info
  <2>2. gives_check(board, aux_info, m) <=> InCheck(Played(At, m), Other(board.whos_move))
    BY <2>1, ForeseesChecks DEF At
  <2>3. /\ gives_check(board, aux_info, m) \in BOOLEAN
        /\ InCheck(Played(At, m), Other(board.whos_move)) \in BOOLEAN
    BY DEF gives_check, InCheck
  <2> QED BY <2>2, <2>3 DEF Foreseen
<1> QED BY <1>1, GameIsKept, PTL

\* A move taken back, at whatever depth, leaves the board it was made on, every member of
\* it: bitboards, counters, kings' squares and the side to move.
THEOREM TakingBackRestores == Spec => UnmakeRestores
<1>1. IInv /\ [Next]_vars => [UnmakeMove \/ UnmakeNullmove => board' = boards[Len(boards)]]_vars
  BY TakenBack
<1> QED BY <1>1, GameIsKept, PTL DEF Spec, UnmakeRestores

-----------------------------------------------------------------------------
(***************************************************************************)
(* Draws.  Two plies have the same hash when they have the same position:  *)
(* the same pieces on the same squares, the same player to move, the same  *)
(* rights and the same file of a pawn that has passed.  And the clock of a *)
(* ply counts the moves since the last capture or move of a pawn.          *)
(***************************************************************************)
\* The rules see the same board where the bitboards hold the same pieces.
LEMMA SameBoards ==
  ASSUME NEW b \in Boards, Views(b), NEW d \in Boards, Views(d)
  PROVE  AtOf(b) = AtOf(d) <=> \A c \in Colours, p \in PieceTypes : pieces(b, c, p) = pieces(d, c, p)
<1>1. ASSUME NEW x \in Boards, Views(x), NEW c \in Colours, NEW p \in PieceTypes, NEW s
      PROVE  s \in pieces(x, c, p) <=> s \in DOMAIN AtOf(x) /\ AtOf(x)[s] = <<c, p>>
  <2>1. s \in pieces(x, c, p) => s \in DOMAIN AtOf(x) /\ AtOf(x)[s] = <<c, p>>
    BY <1>1, BoardSeen
  <2>2. ASSUME s \in DOMAIN AtOf(x), AtOf(x)[s] = <<c, p>> PROVE s \in pieces(x, c, p)
    <3>1. s \in x.occupied_bb /\ AtOf(x)[s][1] = c /\ AtOf(x)[s][2] = p
      BY <1>1, <2>2, BoardSeen
    <3>2. s \in x.colour_bb[c] /\ s \in x.piece_bb[p]
      BY <1>1, <3>1, BoardSeen
    <3> QED BY <3>2 DEF pieces
  <2> QED BY <2>1, <2>2
<1>2. ASSUME AtOf(b) = AtOf(d), NEW c \in Colours, NEW p \in PieceTypes
      PROVE  pieces(b, c, p) = pieces(d, c, p)
  <2>1. \A s : s \in pieces(b, c, p) <=> s \in pieces(d, c, p)
    BY <1>1, <1>2
  <2> QED BY <2>1
<1>3. ASSUME \A c \in Colours, p \in PieceTypes : pieces(b, c, p) = pieces(d, c, p)
      PROVE  AtOf(b) = AtOf(d)
  <2>1. ASSUME NEW x \in Boards, Views(x), NEW s \in x.occupied_bb
        PROVE  \E c \in Colours : \E p \in PieceTypes : s \in pieces(x, c, p) /\ AtOf(x)[s] = <<c, p>>
    <3>1. /\ AtOf(x)[s][1] \in Colours /\ AtOf(x)[s][2] \in PieceTypes
          /\ AtOf(x)[s] = <<AtOf(x)[s][1], AtOf(x)[s][2]>> /\ s \in DOMAIN AtOf(x)
      BY <2>1, BoardSeen
    <3> QED BY <1>1, <2>1, <3>1
  <2>2. \A s : s \in b.occupied_bb <=> s \in d.occupied_bb
    <3>1. \A c \in Colours, p \in PieceTypes : \A s :
             /\ s \in pieces(b, c, p) => s \in b.occupied_bb
             /\ s \in pieces(d, c, p) => s \in d.occupied_bb
      BY BoardSeen
    <3>2. ASSUME NEW s \in b.occupied_bb PROVE s \in d.occupied_bb
      BY <1>3, <2>1, <3>1, <3>2
    <3>3. ASSUME NEW s \in d.occupied_bb PROVE s \in b.occupied_bb
      BY <1>3, <2>1, <3>1, <3>3
    <3> QED BY <3>2, <3>3
  <2>3. b.occupied_bb = d.occupied_bb
    BY <2>2
  <2>4. ASSUME NEW s \in b.occupied_bb PROVE AtOf(b)[s] = AtOf(d)[s]
    <3>1. PICK c \in Colours : \E p \in PieceTypes : s \in pieces(b, c, p) /\ AtOf(b)[s] = <<c, p>>
      BY <2>1
    <3>2. PICK p \in PieceTypes : s \in pieces(b, c, p) /\ AtOf(b)[s] = <<c, p>>
      BY <3>1
    <3>3. AtOf(d)[s] = <<c, p>>
      BY <1>1, <1>3, <3>2
    <3> QED BY <3>2, <3>3
  <2>5. /\ AtOf(b) = [s \in b.occupied_bb |-> AtOf(b)[s]]
        /\ AtOf(d) = [s \in d.occupied_bb |-> AtOf(d)[s]]
    BY DEF AtOf
  <2> QED BY <2>3, <2>4, <2>5
<1> QED BY <1>2, <1>3

\* The hash of a position tells it from every other.
LEMMA SameHash ==
  ASSUME NEW b \in Boards, Views(b), NEW d \in Boards, Views(d), NEW a, NEW e,
         a.castling_rights \subseteq Colours \X Sides, e.castling_rights \subseteq Colours \X Sides
  PROVE  ZobristHash(b, a) = ZobristHash(d, e) <=>
           /\ AtOf(b) = AtOf(d) /\ b.whos_move = d.whos_move
           /\ a.castling_rights = e.castling_rights
           /\ a.en_passent_target = e.en_passent_target
<1> DEFINE H == ZobristHash(b, a)
           G == ZobristHash(d, e)
           PB == PieceKeys(b)
           PD == PieceKeys(d)
           MB == MoveKey(b.whos_move)
           MD == MoveKey(d.whos_move)
           RB == RightKeys(a.castling_rights)
           RD == RightKeys(e.castling_rights)
           EB == EpKeys(a.en_passent_target)
           ED == EpKeys(e.en_passent_target)
<1>1. H = PB \cup {MB} \cup RB \cup EB /\ G = PD \cup {MD} \cup RD \cup ED
  BY DEF ZobristHash
<1>2. PB = PD <=> \A c \in Colours, p \in PieceTypes : pieces(b, c, p) = pieces(d, c, p)
  <2>1. \A k : /\ k \in PB <=> \E c \in Colours, p \in PieceTypes : \E s \in pieces(b, c, p) : k = <<c, p, s>>
               /\ k \in PD <=> \E c \in Colours, p \in PieceTypes : \E s \in pieces(d, c, p) : k = <<c, p, s>>
    BY Keys
  <2> HIDE DEF PB, PD
  <2>2. ASSUME PB = PD, NEW c \in Colours, NEW p \in PieceTypes PROVE pieces(b, c, p) = pieces(d, c, p)
    <3>1. \A s : /\ s \in pieces(b, c, p) <=> <<c, p, s>> \in PB
                 /\ s \in pieces(d, c, p) <=> <<c, p, s>> \in PD
      BY <2>1
    <3>2. \A s : s \in pieces(b, c, p) <=> s \in pieces(d, c, p)
      BY <2>2, <3>1
    <3> QED BY <3>2
  <2>3. ASSUME \A c \in Colours, p \in PieceTypes : pieces(b, c, p) = pieces(d, c, p) PROVE PB = PD
    <3>1. \A k : k \in PB <=> k \in PD
      BY <2>1, <2>3
    <3> QED BY <3>1
  <2> QED BY <2>2, <2>3
<1>3. MB = MD <=> b.whos_move = d.whos_move
  BY Keys
<1>4. RB = RD <=> a.castling_rights = e.castling_rights
  <2>1. ASSUME NEW rights \in SUBSET (Colours \X Sides), NEW r \in Colours \X Sides
        PROVE  <<"cr", r[1], r[2]>> \in RightKeys(rights) <=> r \in rights
    <3>1. \A q \in rights : <<"cr", r[1], r[2]>> = <<"cr", q[1], q[2]>> => r = q
      OBVIOUS
    <3> QED BY <3>1 DEF RightKeys
  <2>2. ASSUME RB = RD PROVE a.castling_rights = e.castling_rights
    <3> HIDE DEF RB, RD
    <3>1. \A r \in Colours \X Sides : r \in a.castling_rights <=> r \in e.castling_rights
      BY <2>1, <2>2 DEF RB, RD
    <3> QED BY <3>1
  <2> QED BY <2>2
<1>5. EB = ED <=> a.en_passent_target = e.en_passent_target
  <2>1. \A f, k : k \in EpKeys(f) <=> f # NO_FILE /\ k = <<"ep", "file", f>>
    BY DEF EpKeys
  <2>2. \A f, g : EpKeys(f) = EpKeys(g) => f = g
    <3>1. \A f, g : <<"ep", "file", f>> = <<"ep", "file", g>> => f = g
      OBVIOUS
    <3> QED BY <2>1, <3>1
  <2> QED BY <2>2
<1>6. /\ \A k \in PB \cup PD : k[1] \in Colours
      /\ MB[1] = "move" /\ MD[1] = "move"
      /\ \A k \in RB \cup RD : k[1] = "cr"
      /\ \A k \in EB \cup ED : k[1] = "ep"
  BY Keys
<1>7. AtOf(b) = AtOf(d) <=> \A c \in Colours, p \in PieceTypes : pieces(b, c, p) = pieces(d, c, p)
  BY SameBoards
<1> HIDE DEF H, G, PB, PD, MB, MD, RB, RD, EB, ED
<1>8. H = G <=> PB = PD /\ MB = MD /\ RB = RD /\ EB = ED
  <2>1. ASSUME H = G PROVE PB = PD /\ MB = MD /\ RB = RD /\ EB = ED
    <3>1. \A k : k \in PB <=> k \in H /\ k[1] \in Colours
      BY <1>1, <1>6 DEF Colours
    <3>2. \A k : k \in PD <=> k \in H /\ k[1] \in Colours
      BY <1>1, <1>6, <2>1 DEF Colours
    <3>3. \A k : k = MB <=> k \in H /\ k[1] = "move"
      BY <1>1, <1>6 DEF Colours
    <3>4. \A k : k = MD <=> k \in H /\ k[1] = "move"
      BY <1>1, <1>6, <2>1 DEF Colours
    <3>5. \A k : k \in RB <=> k \in H /\ k[1] = "cr"
      BY <1>1, <1>6 DEF Colours
    <3>6. \A k : k \in RD <=> k \in H /\ k[1] = "cr"
      BY <1>1, <1>6, <2>1 DEF Colours
    <3>7. \A k : k \in EB <=> k \in H /\ k[1] = "ep"
      BY <1>1, <1>6 DEF Colours
    <3>8. \A k : k \in ED <=> k \in H /\ k[1] = "ep"
      BY <1>1, <1>6, <2>1 DEF Colours
    <3>9. PB = PD /\ RB = RD /\ EB = ED
      <4>1. /\ \A k : k \in PB <=> k \in PD
            /\ \A k : k \in RB <=> k \in RD
            /\ \A k : k \in EB <=> k \in ED
        BY <3>1, <3>2, <3>5, <3>6, <3>7, <3>8
      <4> QED BY <4>1
    <3> QED BY <3>3, <3>4, <3>9
  <2>2. ASSUME PB = PD, MB = MD, RB = RD, EB = ED PROVE H = G
    BY <1>1, <2>2
  <2> QED BY <2>1, <2>2
<1> QED BY <1>2, <1>3, <1>4, <1>5, <1>7, <1>8 DEF H, G

\* The moves up to the one that made ply n since the last capture or move of a pawn, and,
\* if there has been neither since the position was set up, the clock it was set up with.
Quietly(m) == ~is_capture(m) /\ m.moving_piece # "PAWN"
Streak(log, n) == {i \in 1 .. n : \A j \in i .. n : Quietly(log[j + 1].last_move)}
Since(log, n, clock) ==
    IF Cardinality(Streak(log, n)) = n THEN Cardinality(Streak(log, n)) + clock
    ELSE Cardinality(Streak(log, n))

\* The inductive invariant of what a ply hands on to the next: the clock, and the rights,
\* which only ever become fewer.
Clocked(f, log) ==
    /\ f.clock \in Nat
    /\ \A n \in 0 .. Len(log) - 1 :
          /\ log[n + 1].halfmove_clock = Since(log, n, f.clock)
          /\ log[n + 1].castling_rights \subseteq f.rights

\* A streak is finite, and none to begin with.
LEMMA Streaks ==
  ASSUME NEW log, NEW n \in Nat, NEW clock \in Nat
  PROVE  /\ Streak(log, 0) = {} /\ Since(log, 0, clock) = clock
         /\ IsFiniteSet(Streak(log, n)) /\ Cardinality(Streak(log, n)) \in 0 .. n
<1>1. Streak(log, 0) = {} /\ Since(log, 0, clock) = clock
  <2>1. Streak(log, 0) = {}
    BY DEF Streak
  <2>2. Cardinality(Streak(log, 0)) = 0
    BY <2>1, FS_EmptySet
  <2> QED BY <2>1, <2>2 DEF Since
<1>2. \A k \in Nat : IsFiniteSet(Streak(log, k)) /\ Cardinality(Streak(log, k)) \in 0 .. k
  <2> TAKE k \in Nat
  <2>1. Streak(log, k) \subseteq 1 .. k
    BY DEF Streak
  <2>2. IsFiniteSet(1 .. k) /\ Cardinality(1 .. k) = k
    BY FS_Interval
  <2>3. IsFiniteSet(Streak(log, k)) /\ Cardinality(Streak(log, k)) <= k
    BY <2>1, <2>2, FS_Subset
  <2>4. Cardinality(Streak(log, k)) \in Nat
    BY <2>3, FS_CardinalityType
  <2> QED BY <2>3, <2>4
<1> QED BY <1>1, <1>2

\* It goes on with a quiet move and begins anew after any other.
LEMMA StreakGoesOn ==
  ASSUME NEW log, NEW n \in Nat, NEW clock \in Nat
  PROVE  Since(log, n + 1, clock) = IF Quietly(log[n + 2].last_move)
                                    THEN Since(log, n, clock) + 1 ELSE 0
<1> DEFINE last == Quietly(log[n + 2].last_move)
<1>1. CASE last
  <2>1. \A i : i \in Streak(log, n + 1) <=> i \in Streak(log, n) \/ i = n + 1
    <3>1. ASSUME NEW i \in 1 .. n + 1
          PROVE  (\A j \in i .. n + 1 : Quietly(log[j + 1].last_move))
                   <=> (i \in 1 .. n /\ \A j \in i .. n : Quietly(log[j + 1].last_move)) \/ i = n + 1
      <4>1. \A j \in i .. n + 1 : j = n + 1 \/ j \in i .. n
        OBVIOUS
      <4>2. i .. n \subseteq i .. n + 1 /\ (i \in 1 .. n \/ i = n + 1)
        OBVIOUS
      <4>3. (n + 1) + 1 = n + 2
        OBVIOUS
      <4>4. i = n + 1 => \A j \in i .. n : FALSE
        OBVIOUS
      <4> QED BY <1>1, <4>1, <4>2, <4>3, <4>4
    <3>2. 1 .. n \subseteq 1 .. n + 1 /\ n + 1 \in 1 .. n + 1
      OBVIOUS
    <3> QED BY <3>1, <3>2 DEF Streak
  <2>2. Streak(log, n + 1) = Streak(log, n) \cup {n + 1}
    BY <2>1
  <2>3. n + 1 \notin Streak(log, n)
    BY DEF Streak
  <2>4. Cardinality(Streak(log, n + 1)) = Cardinality(Streak(log, n)) + 1
    BY Streaks, <2>2, <2>3, FS_AddElement
  <2> QED BY Streaks, <1>1, <2>4 DEF Since
<1>2. CASE ~last
  <2>1. Streak(log, n + 1) = {}
    <3>1. \A i \in 1 .. n + 1 : n + 1 \in i .. n + 1
      OBVIOUS
    <3>2. (n + 1) + 1 = n + 2
      OBVIOUS
    <3> QED BY <1>2, <3>1, <3>2 DEF Streak
  <2>2. Cardinality(Streak(log, n + 1)) = 0
    BY <2>1, FS_EmptySet
  <2> QED BY <1>2, <2>2 DEF Since
<1> QED BY <1>1, <1>2

\* It is told by the plies up to its own.
LEMMA StreakIsPast ==
  ASSUME NEW log, NEW more, NEW n \in Nat, NEW clock, \A i \in 1 .. n + 1 : more[i] = log[i]
  PROVE  Since(more, n, clock) = Since(log, n, clock)
<1>1. \A i \in 1 .. n : \A j \in i .. n : j + 1 \in 1 .. n + 1
  OBVIOUS
<1>2. \A i \in 1 .. n : \A j \in i .. n : more[j + 1] = log[j + 1]
  BY <1>1
<1>3. Streak(more, n) = Streak(log, n)
  BY <1>2 DEF Streak
<1> QED BY <1>3 DEF Since

\* The clock of every ply is what the rules count, and the rights are among those the
\* position was set up with: make_move and make_nullmove hand both on, and taking back
\* finds those of the ply before.
THEOREM ClockIsKept == Spec => []Clocked(fen, aux_history)
<1>1. ASSUME NEW f, NEW a, f.clock \in Nat, a.halfmove_clock = f.clock, a.castling_rights \subseteq f.rights
      PROVE  Clocked(f, <<a>>)
  <2>1. Len(<<a>>) = 1 /\ <<a>>[1] = a
    OBVIOUS
  <2>2. Since(<<a>>, 0, f.clock) = f.clock
    BY <1>1, Streaks
  <2>3. \A n \in 0 .. Len(<<a>>) - 1 : n = 0
    BY <2>1
  <2> QED BY <1>1, <2>1, <2>2, <2>3 DEF Clocked
<1>2. ASSUME NEW f, NEW log, NEW a, IsSeq(log), Len(log) > 0, Clocked(f, log),
             a.castling_rights \subseteq log[Len(log)].castling_rights,
             a.halfmove_clock = IF Quietly(a.last_move) THEN log[Len(log)].halfmove_clock + 1 ELSE 0
      PROVE  Clocked(f, Append(log, a))
  <2> DEFINE bs == Append(log, a)
             N == Len(log)
  <2>1. N \in Nat /\ N > 0 /\ Len(bs) = N + 1 /\ bs[N + 1] = a /\ \A i \in 1 .. N : bs[i] = log[i]
    BY <1>2, Histories
  <2>2. f.clock \in Nat
    BY <1>2 DEF Clocked
  <2> HIDE DEF bs
  <2>3. ASSUME NEW n \in 0 .. N - 1
        PROVE  /\ bs[n + 1].halfmove_clock = Since(bs, n, f.clock)
               /\ bs[n + 1].castling_rights \subseteq f.rights
    <3>1. n \in Nat /\ n + 1 \in 1 .. N /\ \A i \in 1 .. n + 1 : i \in 1 .. N
      BY <2>1
    <3>2. \A i \in 1 .. n + 1 : bs[i] = log[i]
      BY <2>1, <3>1
    <3>3. Since(bs, n, f.clock) = Since(log, n, f.clock)
      BY <3>1, <3>2, StreakIsPast
    <3>4. bs[n + 1] = log[n + 1]
      BY <2>1, <3>1
    <3> QED BY <1>2, <3>3, <3>4 DEF Clocked
  <2>4. bs[N + 1].halfmove_clock = Since(bs, N, f.clock) /\ bs[N + 1].castling_rights \subseteq f.rights
    <3>1. N - 1 \in Nat /\ (N - 1) + 1 = N /\ (N - 1) + 2 = N + 1 /\ N - 1 \in 0 .. N - 1
      BY <2>1
    <3>2. /\ bs[N].halfmove_clock = Since(bs, N - 1, f.clock) /\ bs[N].castling_rights \subseteq f.rights
          /\ bs[N] = log[N]
      BY <2>1, <2>3, <3>1
    <3>3. Since(bs, N, f.clock) = IF Quietly(bs[N + 1].last_move)
                                  THEN Since(bs, N - 1, f.clock) + 1 ELSE 0
      <4> DEFINE k == N - 1
      <4>1. k \in Nat /\ k + 1 = N /\ k + 2 = N + 1
        BY <3>1
      <4> HIDE DEF k
      <4>2. Since(bs, k + 1, f.clock) = IF Quietly(bs[k + 2].last_move) THEN Since(bs, k, f.clock) + 1 ELSE 0
        BY <2>2, <4>1, StreakGoesOn
      <4>3. Since(bs, N, f.clock) = IF Quietly(bs[N + 1].last_move) THEN Since(bs, k, f.clock) + 1 ELSE 0
        BY <4>1, <4>2
      <4> QED BY <4>3 DEF k
    <3> QED BY <1>2, <2>1, <3>2, <3>3
  <2>5. \A n \in 0 .. Len(bs) - 1 : n \in 0 .. N - 1 \/ n = N
    BY <2>1
  <2> QED BY <2>2, <2>3, <2>4, <2>5 DEF Clocked, bs
<1>3. ASSUME NEW f, NEW log, IsSeq(log), Len(log) > 0, Clocked(f, log)
      PROVE  Clocked(f, Shorter(log))
  <2> DEFINE bs == Shorter(log)
             N == Len(log)
  <2>1. N \in Nat /\ N > 0 /\ Len(bs) = N - 1 /\ \A i \in 1 .. N - 1 : bs[i] = log[i]
    BY <1>3, Histories
  <2>2. f.clock \in Nat
    BY <1>3 DEF Clocked
  <2> HIDE DEF bs
  <2>3. ASSUME NEW n \in 0 .. Len(bs) - 1
        PROVE  /\ bs[n + 1].halfmove_clock = Since(bs, n, f.clock)
               /\ bs[n + 1].castling_rights \subseteq f.rights
    <3>1. n \in Nat /\ n + 1 \in 1 .. N - 1 /\ n \in 0 .. N - 1 /\ \A i \in 1 .. n + 1 : i \in 1 .. N - 1
      BY <2>1
    <3>2. \A i \in 1 .. n + 1 : bs[i] = log[i]
      BY <2>1, <3>1
    <3>3. Since(bs, n, f.clock) = Since(log, n, f.clock)
      BY <3>1, <3>2, StreakIsPast
    <3>4. bs[n + 1] = log[n + 1]
      BY <2>1, <3>1
    <3> QED BY <1>3, <3>1, <3>3, <3>4 DEF Clocked
  <2> QED BY <2>2, <2>3 DEF Clocked, bs
<1>4. ASSUME NEW f \in Fens
      PROVE  Clocked(f, <<SetUp[f].aux>>)
  <2>1. SetUp[f].aux = DecodedAux(Decoded(f), f.rights, f.clock, f.ep)
    BY DEF SetUp
  <2>2. SetUp[f].aux.halfmove_clock = f.clock /\ SetUp[f].aux.castling_rights = f.rights
    BY <2>1 DEF DecodedAux, AuxInfo
  <2>3. f.clock \in Nat
    BY FensAssumption
  <2> QED BY <1>1, <2>2, <2>3
<1>5. Init => Clocked(fen, aux_history)
  BY <1>4 DEF Init
<1>6. IInv => IsSeq(aux_history) /\ Len(aux_history) \in Nat /\ Len(aux_history) > 0
  <2>1. IInv => Len(boards) \in Nat /\ Len(aux_history) = Len(boards) + 1
    BY GameMoves DEF IInv
  <2> QED BY <2>1 DEF IInv, Game
<1>7. IInv /\ Clocked(fen, aux_history) /\ [Next]_vars => Clocked(fen, aux_history)'
  <2> SUFFICES ASSUME IInv, Clocked(fen, aux_history), [Next]_vars
               PROVE  Clocked(fen', aux_history')
    OBVIOUS
  <2>1. CASE FenDecode
    BY <1>4, <2>1 DEF FenDecode
  <2>2. CASE Flip
    <3> DEFINE a == FlippedAux(board, aux_info)
    <3>1. aux_history' = <<a>> /\ fen' = [fen EXCEPT !.plies = @ - 1, !.rights = aux_history'[1].castling_rights]
          /\ Len(aux_history) = 1
      BY <1>6, <2>2 DEF Flip, ply_counter
    <3>2. a.halfmove_clock = aux_info.halfmove_clock
      BY DEF FlippedAux, AuxInfo
    <3> HIDE DEF a
    <3>3. fen.clock \in Nat /\ aux_info.halfmove_clock = fen.clock
      <4>1. fen.clock \in Nat /\ aux_history[0 + 1].halfmove_clock = Since(aux_history, 0, fen.clock)
        BY <3>1 DEF Clocked
      <4>2. Since(aux_history, 0, fen.clock) = fen.clock
        BY <4>1, Streaks
      <4> QED BY <3>1, <4>1, <4>2 DEF aux_info
    <3>4. fen'.clock = fen.clock /\ a.castling_rights \subseteq fen'.rights
      BY <3>1
    <3> QED BY <1>1, <3>1, <3>2, <3>3, <3>4
  <2>3. CASE MakeMove
    <3>1. PICK m : aux_history' = Append(aux_history, MakeAux(board, aux_info, m))
      BY <2>3 DEF MakeMove
    <3>2. LET a == MakeAux(board, aux_info, m)
          IN /\ a.last_move = m /\ a.castling_rights \subseteq aux_info.castling_rights
             /\ a.halfmove_clock = IF Quietly(m) THEN aux_info.halfmove_clock + 1 ELSE 0
      BY DEF MakeAux, AuxInfo, Quietly
    <3>3. fen' = fen
      BY <2>3 DEF MakeMove
    <3> QED BY <1>2, <1>6, <3>1, <3>2, <3>3 DEF aux_info
  <2>4. CASE MakeNullmove
    <3>1. aux_history' = Append(aux_history, NullAux(board, aux_info)) /\ fen' = fen
      BY <2>4 DEF MakeNullmove
    <3>2. LET a == NullAux(board, aux_info)
          IN /\ a.last_move = NULL_MOVE /\ a.castling_rights = aux_info.castling_rights
             /\ a.halfmove_clock = aux_info.halfmove_clock + 1
      BY DEF NullAux, AuxInfo
    <3>3. Quietly(NULL_MOVE)
      BY DEF Quietly, NULL_MOVE, Move, is_capture, NO_PIECE
    <3> QED BY <1>2, <1>6, <3>1, <3>2, <3>3 DEF aux_info
  <2>5. CASE UnmakeMove \/ UnmakeNullmove
    <3>1. aux_history' = Shorter(aux_history) /\ fen' = fen
      BY <2>5 DEF UnmakeMove, UnmakeNullmove
    <3> QED BY <1>3, <1>6, <3>1
  <2>6. CASE UNCHANGED vars
    BY <2>6 DEF vars
  <2> QED BY <2>1, <2>2, <2>3, <2>4, <2>5, <2>6 DEF Next
<1> QED BY <1>5, <1>7, GameIsKept, PTL DEF Spec

\* Wherever the root of the search is, is_draw calls a position drawn when it has occurred
\* since the root, or twice in the game, when fifty moves by each side have taken nothing
\* and moved no pawn, or when the material is too little, and for no other reason.
THEOREM DrawsAreSound == Spec => []DrawsAreReal
<1>1. IInv /\ Clocked(fen, aux_history) => DrawsAreReal
  <2> SUFFICES ASSUME IInv, Clocked(fen, aux_history), NEW root \in 0 .. ply_counter
               PROVE  LET real == \/ Occurred(root, ply_counter) # {}
                                  \/ Cardinality(Occurred(0, root)) > 1
                          other == Unprogressed >= 100 \/ InsufficientMaterial
                      IN /\ is_draw(root) => real \/ other
                         /\ (real /\ NothingPassed /\ fen.rights = {}) \/ other => is_draw(root)
    BY DEF DrawsAreReal
  <2> DEFINE N == ply_counter
             Met(from, to) == {i \in from .. to - 1 : hash_history[i + 1] = hash}
             plain == NothingPassed /\ fen.rights = {}
  <2>1. /\ Len(boards) = N /\ N \in Nat /\ Len(aux_history) = N + 1 /\ Len(hash_history) = N + 1
        /\ root \in Nat /\ root <= N
    <3>1. Len(boards) \in Nat /\ Len(aux_history) = Len(boards) + 1 /\ Len(hash_history) = Len(boards) + 1
      BY GameMoves DEF IInv
    <3>2. N = Len(boards)
      BY <3>1 DEF ply_counter
    <3> HIDE DEF N
    <3> QED BY <3>1, <3>2 DEF N
  <2>2. Ply(board, aux_info, hash)
    BY GameMoves DEF IInv, aux_info, hash
  <2>3. ASSUME NEW i \in 0 .. N - 1 PROVE Ply(boards[i + 1], aux_history[i + 1], hash_history[i + 1])
    <3> HIDE DEF N
    <3>1. i + 1 \in 1 .. Len(boards) + 1 /\ i + 1 <= Len(boards)
      BY <2>1
    <3> QED BY <3>1 DEF IInv, Game, BoardAt
  <2>4. ASSUME NEW i \in 0 .. N - 1
        PROVE  /\ hash_history[i + 1] = hash => SamePosition(i)
               /\ SamePosition(i) /\ plain => hash_history[i + 1] = hash
    <3> DEFINE b == boards[i + 1]
               a == aux_history[i + 1]
               h == hash_history[i + 1]
    <3>1. Ply(b, a, h)
      BY <2>3
    <3>2. i + 1 \in 1 .. Len(aux_history) /\ Len(aux_history) \in 1 .. Len(aux_history)
          /\ i \in 0 .. Len(aux_history) - 1 /\ N \in 0 .. Len(aux_history) - 1
          /\ DOMAIN aux_history = 1 .. Len(aux_history)
      <4>1. DOMAIN aux_history = 1 .. Len(aux_history)
        BY LenProperties DEF IInv, Game, IsSeq
      <4> HIDE DEF N
      <4> QED BY <2>1, <4>1
    <3>3. aux_info = aux_history[N + 1]
      BY <2>1 DEF aux_info
    <3>4. plain => /\ a.castling_rights = {} /\ aux_info.castling_rights = {}
                   /\ a.en_passent_target = NO_FILE /\ aux_info.en_passent_target = NO_FILE
      <4>1. a.castling_rights \subseteq fen.rights /\ aux_info.castling_rights \subseteq fen.rights
        <5> HIDE DEF N
        <5> QED BY <3>2, <3>3 DEF Clocked
      <4>2. NothingPassed => a.en_passent_target = NO_FILE /\ aux_info.en_passent_target = NO_FILE
        BY <3>2 DEF NothingPassed, aux_info
      <4> QED BY <4>1, <4>2
    <3> HIDE DEF b, a, h
    <3>5. /\ b \in Boards /\ Views(b) /\ a.castling_rights \subseteq Colours \X Sides /\ h = ZobristHash(b, a)
          /\ board \in Boards /\ Views(board) /\ aux_info.castling_rights \subseteq Colours \X Sides
          /\ hash = ZobristHash(board, aux_info)
      BY <2>2, <3>1 DEF Ply, Lawful, RightsHeld
    <3>6. h = hash <=> /\ AtOf(b) = At /\ b.whos_move = board.whos_move
                       /\ a.castling_rights = aux_info.castling_rights
                       /\ a.en_passent_target = aux_info.en_passent_target
      BY <3>5, SameHash DEF At
    <3>7. SamePosition(i) <=>
             /\ b.whos_move = board.whos_move /\ AtOf(b) = At
             /\ LegalMoves(AtOf(b), board.whos_move, a.castling_rights, a.en_passent_target)
                = LegalMoves(At, board.whos_move, aux_info.castling_rights, aux_info.en_passent_target)
      BY DEF SamePosition, Past, b, a
    <3>8. h = hash => SamePosition(i)
      BY <3>6, <3>7
    <3>9. SamePosition(i) /\ plain => h = hash
      BY <3>4, <3>6, <3>7
    <3> QED BY <3>8, <3>9 DEF h
  <2>5. /\ \A i \in root .. N - 1 : i \in 0 .. N - 1
        /\ \A i \in 0 .. root - 1 : i \in 0 .. N - 1
    <3> HIDE DEF N
    <3> QED BY <2>1
  <2>6. /\ Met(root, N) \subseteq Occurred(root, N) /\ Met(0, root) \subseteq Occurred(0, root)
        /\ plain => Occurred(root, N) \subseteq Met(root, N) /\ Occurred(0, root) \subseteq Met(0, root)
    <3> HIDE DEF N, plain
    <3> QED BY <2>4, <2>5 DEF Occurred
  <2>7. ASSUME NEW from \in Nat, NEW to \in Nat
        PROVE  /\ IsFiniteSet(Met(from, to)) /\ IsFiniteSet(Occurred(from, to))
               /\ Cardinality(Met(from, to)) \in Nat /\ Cardinality(Occurred(from, to)) \in Nat
    <3>1. IsFiniteSet(from .. to - 1)
      BY FS_Interval
    <3>2. Met(from, to) \subseteq from .. to - 1 /\ Occurred(from, to) \subseteq from .. to - 1
      BY DEF Occurred
    <3> HIDE DEF Met
    <3> QED BY <3>1, <3>2, FS_Subset, FS_CardinalityType
  <2>8. Repeated(root) <=> Cardinality(Met(root, N)) > 0
                           \/ Cardinality(Met(0, root)) + Cardinality(Met(root, N)) > 1
    <3>1. SinceRoot(root) = Cardinality(Met(root, N))
      <4>1. hash_history[N + 1] = hash
        BY <2>1 DEF hash
      <4> HIDE DEF N
      <4> QED BY <4>1 DEF SinceRoot, repetitions, N
    <3>2. BeforeRoot(root) = Cardinality(Met(0, root))
      BY DEF BeforeRoot
    <3> QED BY <3>1, <3>2 DEF Repeated
  <2>9. aux_info.halfmove_clock = Unprogressed
    <3>1. Reversible = Streak(aux_history, N)
      BY DEF Reversible, Streak, Quietly
    <3>2. aux_info.halfmove_clock = Since(aux_history, N, fen.clock) /\ fen.clock \in Nat
      <4>1. N \in 0 .. Len(aux_history) - 1 /\ aux_info = aux_history[N + 1]
        <5>1. aux_info = aux_history[N + 1]
          BY <2>1 DEF aux_info
        <5> HIDE DEF N
        <5> QED BY <2>1, <5>1
      <4> HIDE DEF N
      <4> QED BY <4>1 DEF Clocked
    <3>3. Cardinality(Streak(aux_history, N)) \in 0 .. N
      BY <2>1, <3>2, Streaks
    <3>4. Unprogressed = Cardinality(Streak(aux_history, N))
                         + IF Cardinality(Streak(aux_history, N)) = N THEN fen.clock ELSE 0
      BY <3>1 DEF Unprogressed
    <3> HIDE DEF N
    <3>5. CASE Cardinality(Streak(aux_history, N)) = N
      BY <2>1, <3>2, <3>3, <3>4, <3>5 DEF Since
    <3>6. CASE Cardinality(Streak(aux_history, N)) # N
      BY <2>1, <3>2, <3>3, <3>4, <3>6 DEF Since
    <3> QED BY <3>5, <3>6
  <2> DEFINE since == Occurred(root, N)
             before == Occurred(0, root)
             met == Met(root, N)
             earlier == Met(0, root)
  <2>10. /\ met \subseteq since /\ earlier \subseteq before
         /\ plain => since \subseteq met /\ before \subseteq earlier
         /\ Cardinality(met) \in Nat /\ Cardinality(earlier) \in Nat /\ Cardinality(before) \in Nat
         /\ IsFiniteSet(met) /\ IsFiniteSet(earlier) /\ IsFiniteSet(before)
    <3> HIDE DEF N, Met, plain
    <3> QED BY <2>1, <2>6, <2>7
  <2>11. Repeated(root) <=> Cardinality(met) > 0 \/ Cardinality(earlier) + Cardinality(met) > 1
    BY <2>8
  <2> HIDE DEF since, before, met, earlier, plain
  <2>12. Cardinality(met) > 0 <=> met # {}
    <3>1. Cardinality(met) = 0 <=> met = {}
      BY <2>10, FS_EmptySet
    <3> QED BY <2>10, <3>1
  <2>13. Cardinality(earlier) <= Cardinality(before) /\ (plain => earlier = before /\ met = since)
    <3>1. Cardinality(earlier) <= Cardinality(before)
      BY <2>10, FS_Subset
    <3>2. plain => earlier = before /\ met = since
      BY <2>10
    <3> QED BY <3>1, <3>2
  <2>14. Repeated(root) => since # {} \/ Cardinality(before) > 1
    BY <2>10, <2>12, <2>13, <2>11
  <2>15. plain /\ (since # {} \/ Cardinality(before) > 1) => Repeated(root)
    BY <2>10, <2>12, <2>13, <2>11
  <2> QED BY <2>9, <2>14, <2>15 DEF is_draw, since, before, plain
<1> QED BY <1>1, GameIsKept, ClockIsKept, PTL

-----------------------------------------------------------------------------
(***************************************************************************)
(* The network's first layer.  A move made takes from the features, for    *)
(* each colour, some that were there and adds some that were not; so the   *)
(* vector kept by differences stays the sum of the weights of the features.*)
(***************************************************************************)
\* The features of squares, type by type, as a colour sees them.
Seen(S, c) == UNION {{<<p, relative(s, c)>> : s \in S[p]} : p \in PieceTypes}

\* No two squares look the same to a colour, and its rooks stand where White's do.
LEMMA Relatives ==
  /\ \A S, c : \A x : x \in Seen(S, c) <=>
        \E p \in PieceTypes : \E s \in S[p] : x = <<p, relative(s, c)>>
  /\ \A c \in Colours : \A s, t \in Sq : relative(s, c) = relative(t, c) => s = t
  /\ \A c \in Colours, side \in Sides :
        /\ relative(RookSquares(c, side), c) = RookSquares("WHITE", side)
        /\ relative(RookCastleSquares(c, side), c) = RookCastleSquares("WHITE", side)
<1>1. ASSUME NEW S, NEW c, NEW x
      PROVE  x \in Seen(S, c) <=> \E p \in PieceTypes : \E s \in S[p] : x = <<p, relative(s, c)>>
  BY DEF Seen
<1>2. \A s : relative(s, "WHITE") = s /\ relative(s, "BLACK") = mirror(s)
  BY DEF relative, mirror
<1>3. ASSUME NEW c \in Colours, NEW s \in Sq, NEW t \in Sq, relative(s, c) = relative(t, c) PROVE s = t
  <2>1. CASE c = "WHITE"
    BY <1>2, <1>3, <2>1
  <2>2. CASE c = "BLACK"
    BY <1>2, <1>3, <2>2, Mirrored
  <2> QED BY <2>1, <2>2 DEF Colours
<1>4. ASSUME NEW c \in Colours, NEW f \in 0 .. 7
      PROVE  relative(Square(BackRank(c), f), c) = Square(BackRank("WHITE"), f)
  <2>1. BackRank("WHITE") = 0 /\ BackRank("BLACK") = 7
    BY DEF BackRank, relative_rank
  <2>2. CASE c = "WHITE"
    BY <1>2, <2>2
  <2>3. CASE c = "BLACK"
    <3>1. rank(Square(7, f)) = 7 /\ file(Square(7, f)) = f
      BY Coordinates
    <3>2. mirror(Square(7, f)) = Square(7 - 7, f)
      BY <3>1 DEF mirror
    <3>3. 7 - 7 = 0
      OBVIOUS
    <3> QED BY <1>2, <2>1, <2>3, <3>2, <3>3
  <2> QED BY <2>2, <2>3 DEF Colours
<1>5. ASSUME NEW c \in Colours, NEW side \in Sides
      PROVE  /\ relative(RookSquares(c, side), c) = RookSquares("WHITE", side)
             /\ relative(RookCastleSquares(c, side), c) = RookCastleSquares("WHITE", side)
  <2>1. \A f \in {0, 3, 5, 7} : relative(Square(BackRank(c), f), c) = Square(BackRank("WHITE"), f)
    BY <1>4
  <2> QED BY <2>1 DEF RookSquares, RookCastleSquares
<1> QED BY <1>1, <1>3, <1>5

\* What a move takes from the features a colour sees of a board, and what it adds.
Shed(m, us, c) == IF c = us THEN Gone(m, us) ELSE Taken(m, c)
Won(m, us, c) == IF c = us THEN Come(m, us) ELSE {}

\* encode of the board after a move: the features change by what increment says.
LEMMA Encoded ==
  ASSUME NEW b \in Boards, Views(b), NEW m, Playable(b, m), NEW c \in Colours
  PROVE  LET us == b.whos_move
             E == encode(b)[c]
         IN /\ encode(MakeBoard(b, m))[c] = (E \ Shed(m, us, c)) \cup Won(m, us, c)
            /\ Shed(m, us, c) \subseteq E /\ Won(m, us, c) \cap E = {}
<1> DEFINE us == b.whos_move
           made == MakeBoard(b, m)
           S == [p \in PieceTypes |-> pieces(b, c, p)]
           N == [p \in PieceTypes |-> pieces(made, c, p)]
           L == [p \in PieceTypes |-> Left(us, m, c, p)]
           F == [p \in PieceTypes |-> Filled(us, m, c, p)]
<1>1. /\ made \in Boards
      /\ \A p \in PieceTypes : /\ N[p] = (S[p] \ L[p]) \cup F[p]
                               /\ L[p] \subseteq S[p] /\ F[p] \cap S[p] = {}
                               /\ N[p] = pieces(made, c, p) /\ S[p] = pieces(b, c, p)
                               /\ L[p] = Left(us, m, c, p) /\ F[p] = Filled(us, m, c, p)
  BY MadeBoard
<1>2. us \in Colours /\ Other(us) \in Colours /\ (c # us => c = Other(us))
  BY DEF Boards, Colours, Other
<1> HIDE DEF S, N, L, F, made
<1>3. \A p \in PieceTypes : S[p] \subseteq Sq /\ N[p] \subseteq Sq /\ L[p] \subseteq Sq /\ F[p] \subseteq Sq
  <2>1. \A p \in PieceTypes : S[p] \subseteq Sq /\ N[p] \subseteq Sq
    BY <1>1 DEF pieces, Boards
  <2> QED BY <1>1, <2>1
<1>4. encode(b)[c] = Seen(S, c) /\ encode(made)[c] = Seen(N, c)
  BY DEF encode, Seen, S, N
<1>5. /\ m.moving_piece \in PieceTypes /\ Becomes(m) \in PieceTypes /\ "ROOK" \in PieceTypes
      /\ is_capture(m) => m.captured_piece \in PieceTypes
      /\ get_castleside(m) \in Sides
  BY DEF Playable, MadeMoves, Becomes, PieceTypes, get_castleside, Sides
<1>6. Shed(m, us, c) = Seen(L, c)
  <2>1. CASE c = us
    <3>1. \A x : x \in Gone(m, us) <=> \/ x = <<m.moving_piece, relative(m.origin, us)>>
                                       \/ is_castle(m) /\ x = <<"ROOK", RookSquares("WHITE", get_castleside(m))>>
      BY DEF Gone
    <3>2. relative(Home(us, m), us) = RookSquares("WHITE", get_castleside(m))
      BY <1>2, <1>5, Relatives DEF Home
    <3>3. \A p \in PieceTypes : \A s : s \in L[p] <=> \/ p = m.moving_piece /\ s = m.origin
                                                      \/ is_castle(m) /\ p = "ROOK" /\ s = Home(us, m)
      BY <1>1, <2>1 DEF Left
    <3>4. \A x : x \in Seen(L, c) <=> x \in Gone(m, us)
      BY <1>5, <2>1, <3>1, <3>2, <3>3, Relatives
    <3> QED BY <2>1, <3>4 DEF Shed
  <2>2. CASE c # us
    <3>1. \A x : x \in Taken(m, c) <=> is_capture(m) /\ x = <<m.captured_piece, relative(TakenSquare(m), c)>>
      BY DEF Taken, CapturedSeat, TakenSquare
    <3>2. \A p \in PieceTypes : \A s : s \in L[p] <=> is_capture(m) /\ p = m.captured_piece /\ s = TakenSquare(m)
      BY <1>1, <2>2 DEF Left
    <3>3. \A x : x \in Seen(L, c) <=> x \in Taken(m, c)
      BY <1>5, <3>1, <3>2, Relatives
    <3> QED BY <2>2, <3>3 DEF Shed
  <2> QED BY <2>1, <2>2
<1>7. Won(m, us, c) = Seen(F, c)
  <2>1. CASE c = us
    <3>1. \A x : x \in Come(m, us) <=> \/ x = <<Becomes(m), relative(m.target, us)>>
                                       \/ is_castle(m) /\ x = <<"ROOK", RookCastleSquares("WHITE", get_castleside(m))>>
      BY DEF Come, Becomes
    <3>2. relative(Castled(us, m), us) = RookCastleSquares("WHITE", get_castleside(m))
      BY <1>2, <1>5, Relatives DEF Castled
    <3>3. \A p \in PieceTypes : \A s : s \in F[p] <=> \/ p = Becomes(m) /\ s = m.target
                                                      \/ is_castle(m) /\ p = "ROOK" /\ s = Castled(us, m)
      BY <1>1, <2>1 DEF Filled
    <3>4. \A x : x \in Seen(F, c) <=> x \in Come(m, us)
      BY <1>5, <2>1, <3>1, <3>2, <3>3, Relatives
    <3> QED BY <2>1, <3>4 DEF Won
  <2>2. CASE c # us
    <3>1. \A p \in PieceTypes : F[p] = {}
      BY <1>1, <2>2 DEF Filled
    <3>2. \A x : x \notin Seen(F, c)
      BY <3>1, Relatives
    <3> QED BY <2>2, <3>2 DEF Won
  <2> QED BY <2>1, <2>2
<1>8. ASSUME NEW p \in PieceTypes, NEW s \in Sq, NEW T, \A q \in PieceTypes : T[q] \subseteq Sq
      PROVE  <<p, relative(s, c)>> \in Seen(T, c) <=> s \in T[p]
  <2>1. ASSUME <<p, relative(s, c)>> \in Seen(T, c) PROVE s \in T[p]
    <3>1. PICK q \in PieceTypes : \E t \in T[q] : <<p, relative(s, c)>> = <<q, relative(t, c)>>
      BY <2>1, Relatives
    <3>2. PICK t \in T[q] : <<p, relative(s, c)>> = <<q, relative(t, c)>>
      BY <3>1
    <3>3. p = q /\ relative(s, c) = relative(t, c) /\ t \in Sq
      BY <1>8, <3>2
    <3> QED BY <3>2, <3>3, Relatives
  <2>2. ASSUME s \in T[p] PROVE <<p, relative(s, c)>> \in Seen(T, c)
    BY <2>2, Relatives
  <2> QED BY <2>1, <2>2
<1>9. ASSUME NEW x
      PROVE  /\ x \in Seen(N, c) <=> x \in (Seen(S, c) \ Seen(L, c)) \cup Seen(F, c)
             /\ x \in Seen(L, c) => x \in Seen(S, c)
             /\ ~(x \in Seen(F, c) /\ x \in Seen(S, c))
  <2>1. CASE \E p \in PieceTypes : \E s \in Sq : x = <<p, relative(s, c)>>
    <3>1. PICK p \in PieceTypes, s \in Sq : x = <<p, relative(s, c)>>
      BY <2>1
    <3>2. /\ x \in Seen(N, c) <=> s \in N[p]
          /\ x \in Seen(S, c) <=> s \in S[p]
          /\ x \in Seen(L, c) <=> s \in L[p]
          /\ x \in Seen(F, c) <=> s \in F[p]
      BY <1>3, <1>8, <3>1
    <3> QED BY <1>1, <3>2
  <2>2. CASE ~\E p \in PieceTypes : \E s \in Sq : x = <<p, relative(s, c)>>
    <3>1. x \notin Seen(N, c) /\ x \notin Seen(S, c) /\ x \notin Seen(L, c) /\ x \notin Seen(F, c)
      BY <1>3, <2>2, Relatives
    <3> QED BY <3>1
  <2> QED BY <2>1, <2>2
<1> QED BY <1>4, <1>6, <1>7, <1>9 DEF us, made

\* Taking what is there once, and adding what is not there, leaves each weight once.
LEMMA Summed ==
  ASSUME NEW E, NEW G, NEW P, G \subseteq E, P \cap E = {}
  PROVE  Plus([f \in E |-> 1], [f \in G \cup P |-> IF f \in G THEN -1 ELSE 1])
         = [f \in (E \ G) \cup P |-> 1]
<1> DEFINE v == [f \in E |-> 1]
           w == [f \in G \cup P |-> IF f \in G THEN -1 ELSE 1]
           at(x, f) == IF f \in DOMAIN x THEN x[f] ELSE 0
           sum == [f \in DOMAIN v \cup DOMAIN w |-> at(v, f) + at(w, f)]
<1>1. DOMAIN v = E /\ DOMAIN w = G \cup P /\ DOMAIN sum = E \cup (G \cup P)
  OBVIOUS
<1>2. /\ \A f \in E \ G : at(v, f) = 1 /\ at(w, f) = 0
      /\ \A f \in G : at(v, f) = 1 /\ at(w, f) = -1
      /\ \A f \in P : at(v, f) = 0 /\ at(w, f) = 1
  OBVIOUS
<1>3. \A f \in E \cup (G \cup P) : sum[f] = at(v, f) + at(w, f)
  OBVIOUS
<1> HIDE DEF at, sum, v, w
<1>4. /\ \A f \in E \ G : sum[f] = 1
      /\ \A f \in G : sum[f] = 0
      /\ \A f \in P : sum[f] = 1
  BY <1>2, <1>3
<1>5. {g \in DOMAIN sum : sum[g] # 0} = (E \ G) \cup P
  BY <1>1, <1>4
<1>6. [f \in {g \in DOMAIN sum : sum[g] # 0} |-> sum[f]] = [f \in (E \ G) \cup P |-> 1]
  BY <1>4, <1>5
<1>7. Plus(v, w) = [f \in {g \in DOMAIN sum : sum[g] # 0} |-> sum[f]]
  BY DEF Plus, sum, at
<1> QED BY <1>6, <1>7 DEF v, w

\* Two sets of features side by side, and the difference a move makes to them.
Pair(own, other) == ({"own"} \X own) \cup ({"other"} \X other)
Less(m, us, c) == Pair(Shed(m, us, c), Shed(m, us, Other(c)))
More(m, us, c) == Pair(Won(m, us, c), Won(m, us, Other(c)))
Shift(G, P, inc) == [f \in G \cup P |-> IF f \in G THEN -inc ELSE inc]

\* forward begins with each feature once, and the weights increment has moved are those of
\* the features that the move takes from a colour's own side and from the other's.
LEMMA SideBySide ==
  /\ \A b : \A c \in Colours :
        Forward(b)[c] = [f \in Pair(encode(b)[c], encode(b)[Other(c)]) |-> 1]
  /\ \A m : \A us, c \in Colours : \A inc \in {1, -1} :
        Rows(increment(m, us, inc)[c], increment(m, us, inc)[Other(c)])
        = Shift(Less(m, us, c), More(m, us, c), inc)
<1>1. ASSUME NEW b, NEW c \in Colours
      PROVE  Forward(b)[c] = [f \in Pair(encode(b)[c], encode(b)[Other(c)]) |-> 1]
  <2> DEFINE A == encode(b)[c]
             B == encode(b)[Other(c)]
  <2>1. Forward(b)[c] = Rows(Once(A), Once(B))
    BY DEF Forward
  <2> HIDE DEF A, B
  <2>2. Rows(Once(A), Once(B)) = [f \in Pair(A, B) |-> IF f[1] = "own" THEN Once(A)[f[2]] ELSE Once(B)[f[2]]]
    BY DEF Rows, Once, Pair
  <2>3. \A f \in Pair(A, B) : (IF f[1] = "own" THEN Once(A)[f[2]] ELSE Once(B)[f[2]]) = 1
    BY DEF Once, Pair
  <2>4. Rows(Once(A), Once(B)) = [f \in Pair(A, B) |-> 1]
    BY <2>2, <2>3
  <2> QED BY <2>1, <2>4 DEF A, B
<1>2. ASSUME NEW m, NEW us \in Colours, NEW c \in Colours, NEW inc \in {1, -1}
      PROVE  Rows(increment(m, us, inc)[c], increment(m, us, inc)[Other(c)])
             = Shift(Less(m, us, c), More(m, us, c), inc)
  <2> DEFINE d == increment(m, us, inc)
             S(x) == Shed(m, us, x)
             W(x) == Won(m, us, x)
             G == Pair(S(c), S(Other(c)))
             P == Pair(W(c), W(Other(c)))
             r == Rows(d[c], d[Other(c)])
  <2>1. Other(c) \in Colours
    BY DEF Colours, Other
  <2>2. \A x \in Colours : /\ d[x] = [f \in S(x) \cup W(x) |-> IF f \in S(x) THEN -inc ELSE inc]
    <3> SUFFICES ASSUME NEW x \in Colours
                 PROVE  d[x] = [f \in S(x) \cup W(x) |-> IF f \in S(x) THEN -inc ELSE inc]
      OBVIOUS
    <3>1. CASE x = us
      BY <3>1 DEF increment, Shed, Won
    <3>2. CASE x # us
      <4>1. d[x] = [f \in Taken(m, x) |-> -inc] /\ S(x) = Taken(m, x) /\ W(x) = {}
        BY <3>2 DEF increment, Shed, Won
      <4> QED BY <4>1
    <3> QED BY <3>1, <3>2
  <2> HIDE DEF d, S, W
  <2>3. r = [f \in ({"own"} \X DOMAIN d[c]) \cup ({"other"} \X DOMAIN d[Other(c)])
             |-> IF f[1] = "own" THEN d[c][f[2]] ELSE d[Other(c)][f[2]]]
    BY DEF Rows
  <2>4. DOMAIN d[c] = S(c) \cup W(c) /\ DOMAIN d[Other(c)] = S(Other(c)) \cup W(Other(c))
    BY <2>1, <2>2
  <2>5. ({"own"} \X DOMAIN d[c]) \cup ({"other"} \X DOMAIN d[Other(c)]) = G \cup P
    BY <2>4 DEF Pair
  <2>6. ASSUME NEW f \in G \cup P
        PROVE  (IF f[1] = "own" THEN d[c][f[2]] ELSE d[Other(c)][f[2]])
               = IF f \in G THEN -inc ELSE inc
    <3>1. CASE f \in {"own"} \X (S(c) \cup W(c))
      <4>1. f[1] = "own" /\ f[2] \in S(c) \cup W(c) /\ f = <<"own", f[2]>>
        BY <3>1
      <4>2. f \in G <=> f[2] \in S(c)
        BY <4>1 DEF Pair
      <4>3. d[c][f[2]] = IF f[2] \in S(c) THEN -inc ELSE inc
        BY <2>2, <4>1
      <4> QED BY <4>1, <4>2, <4>3
    <3>2. CASE f \in {"other"} \X (S(Other(c)) \cup W(Other(c)))
      <4>1. f[1] = "other" /\ f[2] \in S(Other(c)) \cup W(Other(c)) /\ f = <<"other", f[2]>>
        BY <3>2
      <4>2. f \in G <=> f[2] \in S(Other(c))
        BY <4>1 DEF Pair
      <4>3. d[Other(c)][f[2]] = IF f[2] \in S(Other(c)) THEN -inc ELSE inc
        BY <2>1, <2>2, <4>1
      <4> QED BY <4>1, <4>2, <4>3
    <3> QED BY <3>1, <3>2 DEF Pair
  <2> HIDE DEF G, P
  <2>7. r = [f \in G \cup P |-> IF f \in G THEN -inc ELSE inc]
    BY <2>3, <2>5, <2>6
  <2>8. G = Less(m, us, c) /\ P = More(m, us, c)
    BY DEF G, P, S, W, Less, More
  <2> QED BY <2>7, <2>8 DEF d, Shift
<1> QED BY <1>1, <1>2

\* The differences of a move lead from the vectors of the board it is made on to those of
\* the board after it, and taken off again lead back.
LEMMA Followed ==
  ASSUME NEW b \in Boards, Views(b), NEW m, Playable(b, m)
  PROVE  /\ Moved(Forward(b), m, b.whos_move, 1) = Forward(MakeBoard(b, m))
         /\ Moved(Forward(MakeBoard(b, m)), m, b.whos_move, -1) = Forward(b)
<1> DEFINE us == b.whos_move
           made == MakeBoard(b, m)
           E(c) == encode(b)[c]
           N(c) == encode(made)[c]
           S(c) == Shed(m, us, c)
           W(c) == Won(m, us, c)
           PE(c) == Pair(E(c), E(Other(c)))
           PN(c) == Pair(N(c), N(Other(c)))
           G(c) == Less(m, us, c)
           P(c) == More(m, us, c)
<1>1. us \in Colours /\ \A c \in Colours : Other(c) \in Colours
  BY DEF Boards, Colours, Other
<1>2. \A c \in Colours : N(c) = (E(c) \ S(c)) \cup W(c) /\ S(c) \subseteq E(c) /\ W(c) \cap E(c) = {}
  BY Encoded
<1>3. \A c \in Colours : /\ Forward(b)[c] = [f \in PE(c) |-> 1]
                         /\ Forward(made)[c] = [f \in PN(c) |-> 1]
  BY SideBySide
<1>4. ASSUME NEW c \in Colours, NEW inc \in {1, -1}
      PROVE  Rows(increment(m, us, inc)[c], increment(m, us, inc)[Other(c)])
             = Shift(G(c), P(c), inc)
  BY <1>1, SideBySide
<1> HIDE DEF E, N, S, W, us, made
<1>5. ASSUME NEW c \in Colours
      PROVE  /\ PN(c) = (PE(c) \ G(c)) \cup P(c) /\ G(c) \subseteq PE(c) /\ P(c) \cap PE(c) = {}
             /\ PE(c) = (PN(c) \ P(c)) \cup G(c) /\ P(c) \subseteq PN(c) /\ G(c) \cap PN(c) = {}
  <2> DEFINE o == Other(c)
  <2>1. /\ N(c) = (E(c) \ S(c)) \cup W(c) /\ S(c) \subseteq E(c) /\ W(c) \cap E(c) = {}
        /\ N(o) = (E(o) \ S(o)) \cup W(o) /\ S(o) \subseteq E(o) /\ W(o) \cap E(o) = {}
    BY <1>1, <1>2
  <2> HIDE DEF o
  <2>2. /\ Pair(N(c), N(o)) = (Pair(E(c), E(o)) \ Pair(S(c), S(o))) \cup Pair(W(c), W(o))
        /\ Pair(S(c), S(o)) \subseteq Pair(E(c), E(o))
        /\ Pair(W(c), W(o)) \cap Pair(E(c), E(o)) = {}
    BY <2>1 DEF Pair
  <2>3. G(c) = Pair(S(c), S(o)) /\ P(c) = Pair(W(c), W(o))
    BY DEF o, S, W, Less, More
  <2> QED BY <2>2, <2>3 DEF o
<1> HIDE DEF PE, PN, G, P
<1>6. ASSUME NEW c \in Colours
      PROVE  /\ Moved(Forward(b), m, us, 1)[c] = [f \in PN(c) |-> 1]
             /\ Moved(Forward(made), m, us, -1)[c] = [f \in PE(c) |-> 1]
  <2>1. /\ Moved(Forward(b), m, us, 1)[c]
           = Plus([f \in PE(c) |-> 1], Rows(increment(m, us, 1)[c], increment(m, us, 1)[Other(c)]))
        /\ Moved(Forward(made), m, us, -1)[c]
           = Plus([f \in PN(c) |-> 1], Rows(increment(m, us, -1)[c], increment(m, us, -1)[Other(c)]))
    BY <1>3 DEF Moved
  <2>2. /\ Rows(increment(m, us, 1)[c], increment(m, us, 1)[Other(c)])
           = [f \in G(c) \cup P(c) |-> IF f \in G(c) THEN -1 ELSE 1]
        /\ Rows(increment(m, us, -1)[c], increment(m, us, -1)[Other(c)])
           = [f \in G(c) \cup P(c) |-> IF f \in G(c) THEN -(-1) ELSE -1]
    BY <1>4 DEF Shift
  <2>3. [f \in G(c) \cup P(c) |-> IF f \in G(c) THEN -(-1) ELSE -1]
        = [f \in P(c) \cup G(c) |-> IF f \in P(c) THEN -1 ELSE 1]
    <3>1. G(c) \cap P(c) = {} /\ G(c) \cup P(c) = P(c) \cup G(c)
      BY <1>5
    <3>2. \A f \in G(c) \cup P(c) : (IF f \in G(c) THEN -(-1) ELSE -1) = (IF f \in P(c) THEN -1 ELSE 1)
      BY <3>1
    <3> QED BY <3>1, <3>2
  <2>4. /\ Plus([f \in PE(c) |-> 1], [f \in G(c) \cup P(c) |-> IF f \in G(c) THEN -1 ELSE 1])
           = [f \in (PE(c) \ G(c)) \cup P(c) |-> 1]
        /\ Plus([f \in PN(c) |-> 1], [f \in P(c) \cup G(c) |-> IF f \in P(c) THEN -1 ELSE 1])
           = [f \in (PN(c) \ P(c)) \cup G(c) |-> 1]
    <3>1. G(c) \subseteq PE(c) /\ P(c) \cap PE(c) = {} /\ P(c) \subseteq PN(c) /\ G(c) \cap PN(c) = {}
      BY <1>5
    <3>2. Plus([f \in PE(c) |-> 1], [f \in G(c) \cup P(c) |-> IF f \in G(c) THEN -1 ELSE 1])
          = [f \in (PE(c) \ G(c)) \cup P(c) |-> 1]
      BY <3>1, Summed, Zenon
    <3>3. Plus([f \in PN(c) |-> 1], [f \in P(c) \cup G(c) |-> IF f \in P(c) THEN -1 ELSE 1])
          = [f \in (PN(c) \ P(c)) \cup G(c) |-> 1]
      BY <3>1, Summed, Zenon
    <3> QED BY <3>2, <3>3
  <2> QED BY <1>5, <2>1, <2>2, <2>3, <2>4
<1>7. /\ Moved(Forward(b), m, us, 1) = [c \in Colours |-> Moved(Forward(b), m, us, 1)[c]]
      /\ Moved(Forward(made), m, us, -1) = [c \in Colours |-> Moved(Forward(made), m, us, -1)[c]]
      /\ Forward(b) = [c \in Colours |-> Forward(b)[c]]
      /\ Forward(made) = [c \in Colours |-> Forward(made)[c]]
  BY DEF Moved, Forward
<1>8. Moved(Forward(b), m, us, 1) = Forward(made)
  <2>1. \A c \in Colours : Moved(Forward(b), m, us, 1)[c] = Forward(made)[c]
    BY <1>3, <1>6
  <2>2. [c \in Colours |-> Moved(Forward(b), m, us, 1)[c]] = [c \in Colours |-> Forward(made)[c]]
    BY <2>1, Zenon
  <2> QED BY <1>7, <2>2, Zenon
<1>9. Moved(Forward(made), m, us, -1) = Forward(b)
  <2>1. \A c \in Colours : Moved(Forward(made), m, us, -1)[c] = Forward(b)[c]
    BY <1>3, <1>6
  <2>2. [c \in Colours |-> Moved(Forward(made), m, us, -1)[c]] = [c \in Colours |-> Forward(b)[c]]
    BY <2>1, Zenon
  <2> QED BY <1>7, <2>2, Zenon
<1> QED BY <1>8, <1>9 DEF us, made

\* The vectors of the network's first layer, kept by differences through every capture,
\* promotion, castling, null move and taking back, are those of the position.
THEOREM VectorsAreKept == AccSpec => []AccumulatorTracked
<1>1. AccInit => Init /\ AccumulatorTracked
  BY DEF AccInit, AccumulatorTracked
<1>2. [AccNext]_accVars => [Next]_vars
  BY DEF AccNext, Next, Decode, Turn, Make, Unmake, Pass, accVars
<1>3. IInv /\ AccumulatorTracked /\ [AccNext]_accVars => AccumulatorTracked'
  <2> SUFFICES ASSUME IInv, AccumulatorTracked, [AccNext]_accVars PROVE AccumulatorTracked'
    OBVIOUS
  <2>1. CASE Decode
    BY <2>1 DEF Decode, AccumulatorTracked
  <2>2. CASE Turn
    BY <2>2 DEF Turn, AccumulatorTracked
  <2>3. CASE Make
    <3>1. /\ board \in Boards /\ Views(board)
      BY GameMoves DEF IInv, Ply, Lawful
    <3>2. PICK m : /\ Playable(board, m) /\ board' = MakeBoard(board, m)
                   /\ aux_history'[Len(aux_history')].last_move = m
      BY <2>3, MovedOn DEF Make
    <3>3. accumulated' = Moved(Forward(board), m, board.whos_move, 1)
      BY <2>3, <3>2 DEF Make, AccumulatorTracked
    <3>4. Moved(Forward(board), m, board.whos_move, 1) = Forward(MakeBoard(board, m))
      BY <3>1, <3>2, Followed
    <3> QED BY <3>2, <3>3, <3>4 DEF AccumulatorTracked
  <2>4. CASE Unmake
    <3>1. /\ board' \in Boards /\ Views(board')
          /\ Playable(board', aux_info.last_move)
          /\ board = MakeBoard(board', aux_info.last_move)
      BY <2>4, TakenBack DEF Unmake
    <3>2. Other(board.whos_move) = board'.whos_move
      BY <3>1 DEF MakeBoard, Boards, Colours, Other
    <3>3. accumulated' = Moved(Forward(board), aux_info.last_move, board'.whos_move, -1)
      BY <2>4, <3>2 DEF Unmake, AccumulatorTracked
    <3>4. Moved(Forward(MakeBoard(board', aux_info.last_move)), aux_info.last_move, board'.whos_move, -1)
          = Forward(board')
      BY <3>1, Followed
    <3> QED BY <3>1, <3>3, <3>4 DEF AccumulatorTracked
  <2>5. CASE Pass
    <3>1. ASSUME NEW b PROVE Forward(NullBoard(b)) = Forward(b)
      BY DEF Forward, encode, pieces, NullBoard
    <3>2. board' = NullBoard(board) \/ board = NullBoard(board')
      BY <2>5, TakenBack DEF Pass, MakeNullmove
    <3>3. Forward(board') = Forward(board)
      BY <3>1, <3>2
    <3> QED BY <2>5, <3>3 DEF Pass, AccumulatorTracked
  <2>6. CASE UNCHANGED accVars
    BY <2>6 DEF accVars, vars, AccumulatorTracked
  <2> QED BY <2>1, <2>2, <2>3, <2>4, <2>5, <2>6 DEF AccNext
<1> QED BY <1>1, <1>2, <1>3, GameIsKept, PTL DEF AccSpec, Spec

-----------------------------------------------------------------------------
(***************************************************************************)
(* Exchanges.  What is computed over the squares of the mask is defined by *)
(* recursion: such functions exist, and what they return is found by       *)
(* induction over the number of squares left.                              *)
(***************************************************************************)
\* Induction, on a set of numbers.
LEMMA Inductive ==
  ASSUME NEW S, 0 \in S, \A n \in Nat : n \in S => n + 1 \in S
  PROVE  \A n \in Nat : n \in S
<1> SUFFICES ASSUME NEW k \in Nat, k \notin S PROVE FALSE
  OBVIOUS
<1> DEFINE rest == Nat \ S
<1>1. rest \in SUBSET Nat /\ rest # {}
  OBVIOUS
<1>2. PICK n \in rest : \A y \in rest : ~(<<y, n>> \in OpToRel(<, Nat))
  <2> HIDE DEF rest
  <2> QED BY <1>1, WFMin, NatLessThanWellFounded
<1>3. n \in Nat /\ n # 0 /\ n - 1 \in Nat /\ n - 1 < n /\ n - 1 + 1 = n
  OBVIOUS
<1>4. <<n - 1, n>> \in OpToRel(<, Nat)
  <2>1. <<n - 1, n>> \in Nat \X Nat /\ <<n - 1, n>>[1] < <<n - 1, n>>[2]
    BY <1>3
  <2> QED BY <2>1, Zenon DEF OpToRel
<1>5. n - 1 \in S
  BY <1>2, <1>3, <1>4
<1> QED BY <1>3, <1>5

\* A function may be defined by what it takes from arguments of lower order: body says
\* what, and its value at x may depend on the function below x only.
Below(D, order, n, f, g) == \A y \in D : order[y] < n => f[y] = g[y]

Recursive(D, V, N, order, body) ==
  /\ V # {} /\ N \in Nat /\ order \in [D -> 0 .. N]
  /\ \A x \in D : \A f \in [D -> V] : body[x][f] \in V
  /\ \A x \in D : \A f, g \in [D -> V] :
        Below(D, order, order[x], f, g) => body[x][f] = body[x][g]

\* Such a function exists, if it takes its values in V and no more than N steps go down.
LEMMA Recursion ==
  ASSUME NEW D, NEW V, NEW N, NEW order, NEW body, Recursive(D, V, N, order, body)
  PROVE  \E f \in [D -> V] : \A x \in D : f[x] = body[x][f]
<1> USE DEF Recursive
<1>a. PICK v \in V : TRUE
  OBVIOUS
<1> DEFINE Good(n) == \E f \in [D -> V] : \A x \in D : order[x] < n => f[x] = body[x][f]
           S == {n \in Nat : Good(n)}
<1>0. \A x \in D : order[x] \in Nat /\ order[x] < N + 1
  <2>1. \A x \in D : order[x] \in 0 .. N
    OBVIOUS
  <2> QED BY <2>1
<1>1. Good(0)
  <2> DEFINE f == [x \in D |-> v]
  <2>1. f \in [D -> V]
    OBVIOUS
  <2>2. \A x \in D : ~(order[x] < 0)
    BY <1>0
  <2> QED BY <2>1, <2>2
<1>2. ASSUME NEW n \in Nat, Good(n) PROVE Good(n + 1)
  <2>1. PICK f \in [D -> V] : \A x \in D : order[x] < n => f[x] = body[x][f]
    BY <1>2
  <2> HIDE DEF Good
  <2> DEFINE g == [x \in D |-> IF order[x] = n THEN body[x][f] ELSE f[x]]
  <2>2. \A x \in D : body[x][f] \in V /\ f[x] \in V
    OBVIOUS
  <2>3. g \in [D -> V] /\ \A x \in D : g[x] = IF order[x] = n THEN body[x][f] ELSE f[x]
    BY <2>2
  <2> HIDE DEF g
  <2>4. ASSUME NEW x \in D, order[x] < n + 1 PROVE g[x] = body[x][g]
    <3>1. Below(D, order, order[x], f, g)
      <4>1. \A y \in D : order[y] < order[x] => order[y] # n
        BY <1>0, <2>4
      <4>2. \A y \in D : order[y] # n => g[y] = f[y]
        BY <2>3
      <4> QED BY <4>1, <4>2, Zenon DEF Below
    <3>2. body[x][f] = body[x][g]
      BY <2>3, <3>1
    <3>3. CASE order[x] = n
      BY <2>3, <3>2, <3>3
    <3>4. CASE order[x] < n
      BY <1>0, <2>1, <2>3, <3>2, <3>4
    <3>5. order[x] = n \/ order[x] < n
      <4>1. order[x] \in Nat /\ order[x] < n + 1
        BY <1>0, <2>4
      <4> QED BY ONLY <4>1, n \in Nat
    <3> QED BY <3>3, <3>4, <3>5
  <2> QED BY <2>3, <2>4 DEF Good
<1> HIDE DEF Good
<1>3. \A n \in Nat : n \in S
  <2>1. 0 \in S
    BY <1>1
  <2>2. \A n \in Nat : n \in S => n + 1 \in S
    BY <1>2
  <2> HIDE DEF S
  <2> QED BY <2>1, <2>2, Inductive
<1>4. Good(N + 1)
  BY <1>3
<1> QED BY <1>0, <1>4 DEF Good

\* Two functions that agree wherever they agree below are the same.
Alongside(D, N, order, f, g) ==
  /\ N \in Nat /\ order \in [D -> 0 .. N]
  /\ \A x \in D : Below(D, order, order[x], f, g) => f[x] = g[x]
\* Then they agree everywhere.
LEMMA Unique ==
  ASSUME NEW D, NEW N, NEW order, NEW f, NEW g, Alongside(D, N, order, f, g)
  PROVE  \A x \in D : f[x] = g[x]
<1> USE DEF Alongside
<1> DEFINE S == {n \in Nat : \A x \in D : order[x] < n => f[x] = g[x]}
<1>1. \A x \in D : order[x] \in Nat /\ order[x] < N + 1
  <2>1. \A x \in D : order[x] \in 0 .. N
    OBVIOUS
  <2> QED BY <2>1
<1>2. 0 \in S
  BY <1>1
<1>3. ASSUME NEW n \in Nat, n \in S PROVE n + 1 \in S
  <2>1. ASSUME NEW x \in D, order[x] < n + 1 PROVE f[x] = g[x]
    <3>1. ASSUME NEW y \in D, order[y] < order[x] PROVE f[y] = g[y]
      <4>1. order[y] < n
        BY <1>1, <2>1, <3>1
      <4> QED BY <1>3, <4>1
    <3> QED BY <3>1 DEF Below
  <2> QED BY <2>1
<1> HIDE DEF S
<1>4. N + 1 \in S
  <2>1. \A n \in Nat : n \in S
    BY <1>2, <1>3, Inductive
  <2> QED BY <2>1
<1> QED BY <1>1, <1>4 DEF S

\* What is left of the board when some of its squares are taken away is smaller.
LEMMA Shrinks ==
  ASSUME NEW m \in SUBSET Sq
  PROVE  /\ Cardinality(m) \in 0 .. 64
         /\ \A a \in SUBSET m : a # {} => Cardinality(m \ a) \in 0 .. 64 /\ Cardinality(m \ a) < Cardinality(m)
<1> DEFINE all == 0 .. 63
<1>1. IsFiniteSet(all) /\ Cardinality(all) = 64
  <2>1. 0 \in Int /\ 63 \in Int /\ ~(0 > 63) /\ 63 - 0 + 1 = 64
    OBVIOUS
  <2>2. IsFiniteSet(0 .. 63) /\ Cardinality(0 .. 63) = IF 0 > 63 THEN 0 ELSE 63 - 0 + 1
    BY ONLY <2>1, FS_Interval
  <2> QED BY <2>1, <2>2
<1> HIDE DEF all
<1>2. \A S \in SUBSET all : IsFiniteSet(S) /\ Cardinality(S) \in Nat /\ Cardinality(S) <= 64
  <2> SUFFICES ASSUME NEW S \in SUBSET all PROVE IsFiniteSet(S) /\ Cardinality(S) \in Nat /\ Cardinality(S) <= 64
    OBVIOUS
  <2>1. IsFiniteSet(S) /\ Cardinality(S) <= 64
    BY <1>1, FS_Subset
  <2> QED BY <2>1, FS_CardinalityType
<1>3. m \in SUBSET all
  BY DEF all, Sq
<1>4. ASSUME NEW a \in SUBSET m, a # {}
      PROVE  Cardinality(m \ a) \in 0 .. 64 /\ Cardinality(m \ a) < Cardinality(m)
  <2>1. m \ a \in SUBSET m /\ m \ a \in SUBSET all /\ m \ a # m
    BY <1>3, <1>4
  <2>2. Cardinality(m \ a) < Cardinality(m)
    <3>1. IsFiniteSet(m)
      BY <1>2, <1>3
    <3> DEFINE l == m \ a
    <3>2. l \in SUBSET m /\ l # m
      BY <2>1
    <3> HIDE DEF l
    <3>3. Cardinality(l) <= Cardinality(m) /\ Cardinality(l) # Cardinality(m)
      BY ONLY <3>1, <3>2, FS_Subset
    <3>4. Cardinality(l) \in Nat /\ Cardinality(m) \in Nat
      BY <1>2, <1>3, <2>1 DEF l
    <3>5. Cardinality(l) < Cardinality(m)
      BY <3>3, <3>4
    <3> QED BY <3>5 DEF l
  <2>3. Cardinality(m \ a) \in Nat /\ Cardinality(m \ a) <= 64
    BY <1>2, <2>1
  <2> QED BY <2>2, <2>3
<1> QED BY <1>2, <1>3, <1>4

\* The greater and the smaller of two numbers.
LEMMA Larger ==
  /\ \A a, b \in Int : Max({a, b}) = IF a >= b THEN a ELSE b
  /\ \A a, b \in Int : Min({a, b}) = IF a <= b THEN a ELSE b
<1>1. ASSUME NEW a \in Int, NEW b \in Int PROVE Max({a, b}) = IF a >= b THEN a ELSE b
  <2> DEFINE m == IF a >= b THEN a ELSE b
  <2>1. m \in {a, b} /\ \A y \in {a, b} : m >= y
    OBVIOUS
  <2>2. \A x \in {a, b} : (\A y \in {a, b} : x >= y) => x = m
    OBVIOUS
  <2> QED BY <2>1, <2>2 DEF Max
<1>2. ASSUME NEW a \in Int, NEW b \in Int PROVE Min({a, b}) = IF a <= b THEN a ELSE b
  <2> DEFINE m == IF a <= b THEN a ELSE b
  <2>1. m \in {a, b} /\ \A y \in {a, b} : m =< y
    OBVIOUS
  <2>2. \A x \in {a, b} : (\A y \in {a, b} : x =< y) => x = m
    OBVIOUS
  <2> QED BY <2>1, <2>2 DEF Min
<1> QED BY <1>1, <1>2

\* What a piece is worth is never negative.
LEMMA Material == material \in [PieceTypes \cup {"NO_PIECE"} -> Nat]
BY DEF material, PieceTypes

\* What each captor has gained is a number, and what the recursion says it is.
Types(t, n) == DOMAIN t = 1 .. n /\ \A i \in 1 .. n : t[i] \in PieceTypes
\* The gains are numbers and solve their recursion.
LEMMA GainsAre ==
  ASSUME NEW n \in Nat, NEW types, Types(types, n)
  PROVE  /\ Gains(types) \in [1 .. n -> Int]
         /\ \A i \in 1 .. n :
               Gains(types)[i] = material[types[i]] - (IF i = 1 THEN 0 ELSE Gains(types)[i - 1])
<1> DEFINE D == 1 .. n
           order == [i \in D |-> i]
           body == [i \in D |-> [f \in [D -> Int] |-> material[types[i]] - (IF i = 1 THEN 0 ELSE f[i - 1])]]
<1>1. \A i \in D : material[types[i]] \in Int
  BY Material DEF Types
<1>2. order \in [D -> 0 .. n]
  OBVIOUS
<1>3. ASSUME NEW i \in D, NEW f \in [D -> Int]
      PROVE  body[i][f] \in Int /\ body[i][f] = material[types[i]] - (IF i = 1 THEN 0 ELSE f[i - 1])
  BY <1>1
<1>4. ASSUME NEW i \in D, NEW f \in [D -> Int], NEW g \in [D -> Int], Below(D, order, order[i], f, g)
      PROVE  body[i][f] = body[i][g]
  <2>1. CASE i = 1
    BY <1>3, <2>1
  <2>2. CASE i # 1
    <3>1. i - 1 \in D /\ order[i - 1] < order[i]
      BY <2>2
    <3>2. f[i - 1] = g[i - 1]
      BY <1>4, <3>1 DEF Below
    <3> QED BY <1>3, <2>2, <3>2
  <2> QED BY <2>1, <2>2
<1> HIDE DEF order, body
<1>5. PICK f \in [D -> Int] : \A i \in D : f[i] = body[i][f]
  <2>1. Int # {}
    OBVIOUS
  <2> HIDE DEF D
  <2>2. Recursive(D, Int, n, order, body)
    BY <1>2, <1>3, <1>4, <2>1 DEF Recursive
  <2> QED BY <2>2, Recursion
<1>6. \A i \in D : f[i] = material[types[i]] - (IF i = 1 THEN 0 ELSE f[i - 1])
  BY <1>3, <1>5
<1>7. f = [i \in D |-> material[types[i]] - (IF i = 1 THEN 0 ELSE f[i - 1])]
  BY <1>6
<1>8. Gains(types) = [i \in D |-> material[types[i]] - (IF i = 1 THEN 0 ELSE Gains(types)[i - 1])]
  <2>1. DOMAIN types = D
    BY DEF Types
  <2> HIDE DEF D
  <2> QED BY <1>7, <2>1, Zenon DEF Gains
<1> DEFINE G == Gains(types)
<1> HIDE DEF G
<1>9. G = [i \in D |-> material[types[i]] - (IF i = 1 THEN 0 ELSE G[i - 1])]
  BY <1>8 DEF G
<1>10. \A i \in D : G[i] = material[types[i]] - (IF i = 1 THEN 0 ELSE G[i - 1])
  BY <1>9
\* Both solve the recursion, so they are the same.
<1>11. ASSUME NEW i \in D, Below(D, order, order[i], G, f) PROVE G[i] = f[i]
  <2>1. CASE i = 1
    BY <1>6, <1>10, <2>1
  <2>2. CASE i # 1
    <3>1. i - 1 \in D /\ order[i - 1] < order[i]
      BY <2>2 DEF order
    <3>2. G[i - 1] = f[i - 1]
      BY <1>11, <3>1 DEF Below
    <3> QED BY <1>6, <1>10, <2>2, <3>2
  <2> QED BY <2>1, <2>2
<1>12. \A i \in D : G[i] = f[i]
  <2> HIDE DEF D
  <2>1. Alongside(D, n, order, G, f)
    BY <1>2, <1>11 DEF Alongside
  <2> QED BY <2>1, Unique
<1>13. G \in [D -> Int]
  BY <1>9, <1>12
<1> QED BY <1>10, <1>13 DEF G

\* What the fold makes of the gains, likewise.
LEMMA FoldedAre ==
  ASSUME NEW n \in Nat, NEW g \in [1 .. n -> Int]
  PROVE  /\ Folded(g) \in [1 .. n -> Int]
         /\ \A i \in 1 .. n : i >= n - 1 => Folded(g)[i] = g[i]
         /\ \A i \in 1 .. n : i < n - 1 =>
               /\ g[i] <= -Folded(g)[i + 1] => Folded(g)[i] = g[i]
               /\ g[i] > -Folded(g)[i + 1] => Folded(g)[i] = -Folded(g)[i + 1]
<1> DEFINE D == 1 .. n
           order == [i \in D |-> n - i]
           body == [i \in D |-> [f \in [D -> Int] |->
                      IF i >= LastCounted(g) THEN g[i] ELSE Min({g[i], -f[i + 1]})]]
<1>1. LastCounted(g) = n - 1 /\ DOMAIN g = D
  <2>1. g \in Seq(Int) /\ Len(g) = n
    BY LenProperties
  <2> QED BY <2>1 DEF LastCounted
<1>2. order \in [D -> 0 .. n] /\ \A i \in D : order[i] = n - i
  OBVIOUS
<1>3. ASSUME NEW f \in [D -> Int], NEW i \in D
      PROVE  /\ body[i][f] \in Int
             /\ body[i][f] = IF i >= LastCounted(g) THEN g[i] ELSE Min({g[i], -f[i + 1]})
  <2>1. CASE i >= n - 1
    BY <1>1, <2>1
  <2>2. CASE i < n - 1
    <3>1. i + 1 \in D /\ g[i] \in Int /\ f[i + 1] \in Int /\ -f[i + 1] \in Int
      BY <2>2
    <3>2. Min({g[i], -f[i + 1]}) \in Int
      BY <3>1, Larger
    <3> QED BY <1>1, <2>2, <3>2
  <2> QED BY <2>1, <2>2
<1>4. ASSUME NEW i \in D, NEW f \in [D -> Int], NEW h \in [D -> Int], Below(D, order, order[i], f, h)
      PROVE  body[i][f] = body[i][h]
  <2>1. CASE i >= n - 1
    BY <1>1, <1>3, <2>1
  <2>2. CASE i < n - 1
    <3>1. i + 1 \in D /\ order[i + 1] < order[i]
      BY <2>2, <1>2
    <3>2. f[i + 1] = h[i + 1]
      BY <1>4, <3>1 DEF Below
    <3> QED BY <1>3, <3>2
  <2> QED BY <2>1, <2>2
<1> HIDE DEF order, body
<1>5. PICK f \in [D -> Int] : \A i \in D : f[i] = body[i][f]
  <2>1. Int # {}
    OBVIOUS
  <2> HIDE DEF D
  <2>2. Recursive(D, Int, n, order, body)
    BY <1>2, <1>3, <1>4, <2>1 DEF Recursive
  <2> QED BY <2>2, Recursion
<1>6. \A i \in D : f[i] = IF i >= LastCounted(g) THEN g[i] ELSE Min({g[i], -f[i + 1]})
  BY <1>3, <1>5
<1>7. f = [i \in D |-> IF i >= LastCounted(g) THEN g[i] ELSE Min({g[i], -f[i + 1]})]
  BY <1>6
<1>8. Folded(g) = [i \in D |-> IF i >= LastCounted(g) THEN g[i] ELSE Min({g[i], -Folded(g)[i + 1]})]
  <2> HIDE DEF D
  <2> QED BY <1>1, <1>7, Zenon DEF Folded
<1> DEFINE G == Folded(g)
<1> HIDE DEF G
<1>9. G = [i \in D |-> IF i >= LastCounted(g) THEN g[i] ELSE Min({g[i], -G[i + 1]})]
  BY <1>8 DEF G
<1>10. \A i \in D : G[i] = IF i >= LastCounted(g) THEN g[i] ELSE Min({g[i], -G[i + 1]})
  BY <1>9
<1>11. ASSUME NEW i \in D, Below(D, order, order[i], G, f) PROVE G[i] = f[i]
  <2>1. CASE i >= n - 1
    BY <1>1, <1>6, <1>10, <2>1
  <2>2. CASE i < n - 1
    <3>1. i + 1 \in D /\ order[i + 1] < order[i]
      BY <2>2, <1>2
    <3>2. G[i + 1] = f[i + 1]
      BY <1>11, <3>1 DEF Below
    <3> QED BY <1>6, <1>10, <3>2
  <2> QED BY <2>1, <2>2
<1>12. \A i \in D : G[i] = f[i]
  <2> HIDE DEF D
  <2>1. Alongside(D, n, order, G, f)
    BY <1>2, <1>11 DEF Alongside
  <2> QED BY <2>1, Unique
<1>13. G \in [D -> Int]
  BY <1>9, <1>12
<1>14. \A i \in D : i >= n - 1 => G[i] = g[i]
  BY <1>1, <1>10
<1>15. ASSUME NEW i \in D, i < n - 1
       PROVE  /\ g[i] <= -G[i + 1] => G[i] = g[i]
              /\ g[i] > -G[i + 1] => G[i] = -G[i + 1]
  <2>1. i + 1 \in D /\ g[i] \in Int /\ G[i + 1] \in Int /\ -G[i + 1] \in Int
    BY <1>13, <1>15
  <2>2. G[i] = Min({g[i], -G[i + 1]})
    <3>1. ~(i >= LastCounted(g))
      BY <1>1, <1>15
    <3> QED BY <1>10, <3>1
  <2>3. Min({g[i], -G[i + 1]}) = IF g[i] <= -G[i + 1] THEN g[i] ELSE -G[i + 1]
    BY <2>1, Larger
  <2> QED BY <2>1, <2>2, <2>3
<1> QED BY <1>13, <1>14, <1>15 DEF G

\* A series of captures is worth the first element of its fold, or nothing.
LEMMA SettledIs ==
  ASSUME NEW n \in Nat, n > 0, NEW types, Types(types, n)
  PROVE  /\ Settled(Gains(types)) \in Nat
         /\ n = 1 => Settled(Gains(types)) = 0
         /\ n > 1 => /\ Folded(Gains(types))[1] >= 0 => Settled(Gains(types)) = Folded(Gains(types))[1]
                     /\ Folded(Gains(types))[1] < 0 => Settled(Gains(types)) = 0
<1> DEFINE G == Gains(types)
           B == Folded(G)
<1>1. G \in [1 .. n -> Int]
  BY GainsAre
<1> HIDE DEF G
<1>2. B \in [1 .. n -> Int]
  BY <1>1, FoldedAre
<1>3. Len(G) = n
  BY <1>1, LenProperties
<1> HIDE DEF B
<1>4. B[1] \in Int
  BY <1>2
<1>5. Settled(G) = IF n = 1 THEN 0 ELSE Max({B[1], 0})
  BY <1>3 DEF Settled, B
<1>6. Max({B[1], 0}) = IF B[1] >= 0 THEN B[1] ELSE 0
  <2>1. 0 \in Int
    OBVIOUS
  <2> QED BY <1>4, <2>1, Larger
<1>7. /\ Settled(G) \in Nat
      /\ n = 1 => Settled(G) = 0
      /\ n > 1 => /\ B[1] >= 0 => Settled(G) = B[1]
                  /\ B[1] < 0 => Settled(G) = 0
  BY <1>4, <1>5, <1>6
<1> QED BY <1>7 DEF G, B

\* What a series is worth to the one who has the first piece is what that piece is
\* worth, less what the rest is worth to the other, or nothing.
LEMMA SettledStep ==
  ASSUME NEW n \in Nat, n > 1, NEW types, Types(types, n), NEW rest, Types(rest, n - 1),
         \A i \in 1 .. n - 1 : types[i + 1] = rest[i]
  PROVE  Settled(Gains(types)) = IF material[types[1]] >= Settled(Gains(rest))
                                 THEN material[types[1]] - Settled(Gains(rest)) ELSE 0
<1> DEFINE G == Gains(types)
           H == Gains(rest)
           B == Folded(G)
           C == Folded(H)
           K == material[types[1]]
           k == n - 1
<1>1. k \in Nat /\ k > 0
  OBVIOUS
<1>2. /\ G \in [1 .. n -> Int] /\ H \in [1 .. k -> Int]
      /\ \A i \in 1 .. n : G[i] = material[types[i]] - (IF i = 1 THEN 0 ELSE G[i - 1])
      /\ \A i \in 1 .. k : H[i] = material[rest[i]] - (IF i = 1 THEN 0 ELSE H[i - 1])
  <2> HIDE DEF k
  <2>1. Types(rest, k)
    BY DEF k
  <2> QED BY <1>1, <2>1, GainsAre
<1>3. /\ K \in Nat /\ \A i \in 1 .. k : material[rest[i]] \in Int /\ material[types[i + 1]] = material[rest[i]]
  <2>1. types[1] \in PieceTypes /\ \A i \in 1 .. k : rest[i] \in PieceTypes
    BY DEF Types
  <2> QED BY <2>1, Material
<1> HIDE DEF G, H
<1>4. /\ B \in [1 .. n -> Int]
      /\ \A i \in 1 .. n : i >= n - 1 => B[i] = G[i]
      /\ \A i \in 1 .. n : i < n - 1 =>
            /\ G[i] <= -B[i + 1] => B[i] = G[i]
            /\ G[i] > -B[i + 1] => B[i] = -B[i + 1]
  BY <1>2, FoldedAre
<1>5. /\ C \in [1 .. k -> Int]
      /\ \A i \in 1 .. k : i >= k - 1 => C[i] = H[i]
      /\ \A i \in 1 .. k : i < k - 1 =>
            /\ H[i] <= -C[i + 1] => C[i] = H[i]
            /\ H[i] > -C[i + 1] => C[i] = -C[i + 1]
  <2> HIDE DEF k
  <2> QED BY <1>1, <1>2, FoldedAre
<1>6. /\ Settled(G) \in Nat
      /\ B[1] >= 0 => Settled(G) = B[1]
      /\ B[1] < 0 => Settled(G) = 0
  <2>1. n > 0
    OBVIOUS
  <2> QED BY <2>1, SettledIs DEF G
<1>7. /\ Settled(H) \in Nat
      /\ k > 1 => /\ C[1] >= 0 => Settled(H) = C[1]
                  /\ C[1] < 0 => Settled(H) = 0
      /\ k = 1 => Settled(H) = 0
  <2>1. Types(rest, k)
    OBVIOUS
  <2> HIDE DEF k
  <2> QED BY <1>1, <2>1, SettledIs DEF H
<1> HIDE DEF B, C, K
\* The gains of the one are those of the other, a capture later and off by K.
<1> DEFINE off(i) == G[i + 1] - H[i]
<1>8. G[1] = K /\ off(1) = -K
  <2>1. 1 \in 1 .. n /\ 2 \in 1 .. n /\ 1 \in 1 .. k /\ 1 + 1 = 2
    BY <1>1
  <2>2. G[1] = K - 0
    BY <1>2, <2>1 DEF K
  <2>3. H[1] = material[rest[1]] - 0
    BY <1>2, <2>1
  <2>4. G[2] = material[types[2]] - G[1]
    <3>1. \A i \in 1 .. n : i # 1 => G[i] = material[types[i]] - G[i - 1]
      BY <1>2
    <3>2. 2 # 1 /\ 2 - 1 = 1
      OBVIOUS
    <3> QED BY <2>1, <3>1, <3>2
  <2>5. material[types[2]] = material[rest[1]] /\ material[rest[1]] \in Int
    BY <1>3, <2>1
  <2> QED BY <1>3, <2>1, <2>2, <2>3, <2>4, <2>5
<1>9. ASSUME NEW i \in 1 .. k, i < k PROVE off(i + 1) = -off(i)
  <2>1. /\ i + 1 \in 1 .. k /\ i + 1 # 1 /\ i + 1 - 1 = i
        /\ i + 1 + 1 \in 1 .. n /\ i + 1 + 1 # 1 /\ i + 1 + 1 - 1 = i + 1
    BY <1>9
  <2>2. G[i + 1 + 1] = material[types[i + 1 + 1]] - G[i + 1]
    <3>1. \A j \in 1 .. n : j # 1 => G[j] = material[types[j]] - G[j - 1]
      BY <1>2
    <3> HIDE DEF k
    <3> QED BY <2>1, <3>1
  <2>3. H[i + 1] = material[rest[i + 1]] - H[i]
    <3>1. \A j \in 1 .. k : j # 1 => H[j] = material[rest[j]] - H[j - 1]
      BY <1>2
    <3> HIDE DEF k
    <3> QED BY <2>1, <3>1
  <2>4. material[types[i + 1 + 1]] = material[rest[i + 1]] /\ material[rest[i + 1]] \in Int
    BY <1>3, <2>1
  <2>5. G[i + 1] \in Int /\ H[i] \in Int /\ G[i + 1 + 1] \in Int /\ H[i + 1] \in Int
    BY <1>2, <2>1
  <2> QED BY <2>2, <2>3, <2>4, <2>5
<1>10. \A i \in 1 .. k : off(i) \in Int /\ G[i + 1] = H[i] + off(i)
  <2>1. \A i \in 1 .. k : i + 1 \in 1 .. n
    OBVIOUS
  <2>2. \A i \in 1 .. k : G[i + 1] \in Int /\ H[i] \in Int
    BY <1>2, <2>1
  <2> QED BY <2>2
<1> HIDE DEF off
\* So are the folds.
<1> DEFINE order == [i \in 1 .. k |-> k - i]
           f == [i \in 1 .. k |-> B[i + 1]]
           g == [i \in 1 .. k |-> C[i] + off(i)]
<1>11. ASSUME NEW i \in 1 .. k, Below(1 .. k, order, order[i], f, g) PROVE f[i] = g[i]
  <2>1. i + 1 \in 1 .. n /\ (i >= k - 1 <=> i + 1 >= n - 1) /\ (i < k - 1 <=> i + 1 < n - 1)
    OBVIOUS
  <2>2. CASE i >= k - 1
    <3>1. B[i + 1] = G[i + 1] /\ C[i] = H[i]
      BY <1>4, <1>5, <2>1, <2>2
    <3> QED BY <1>10, <3>1
  <2>3. CASE i < k - 1
    <3>1. i + 1 \in 1 .. k /\ i < k /\ order[i + 1] < order[i]
      BY <2>3
    <3>2. B[i + 1 + 1] = C[i + 1] + off(i + 1)
      <4>1. f[i + 1] = g[i + 1]
        BY <1>11, <3>1 DEF Below
      <4> QED BY <3>1, <4>1
    <3>3. /\ G[i + 1] <= -B[i + 1 + 1] => B[i + 1] = G[i + 1]
          /\ G[i + 1] > -B[i + 1 + 1] => B[i + 1] = -B[i + 1 + 1]
      BY <1>4, <2>1, <2>3
    <3>4. /\ H[i] <= -C[i + 1] => C[i] = H[i]
          /\ H[i] > -C[i + 1] => C[i] = -C[i + 1]
      BY <1>5, <2>3
    <3>5. off(i + 1) = -off(i) /\ off(i) \in Int /\ G[i + 1] = H[i] + off(i)
      BY <1>9, <1>10, <3>1
    <3>6. H[i] \in Int /\ C[i + 1] \in Int /\ C[i] \in Int
      BY <1>2, <1>5, <3>1
    <3>7. B[i + 1] = C[i] + off(i)
      BY <3>2, <3>3, <3>4, <3>5, <3>6
    <3> QED BY <3>7
  <2>4. i >= k - 1 \/ i < k - 1
    OBVIOUS
  <2> QED BY <2>2, <2>3, <2>4
<1>12. \A i \in 1 .. k : B[i + 1] = C[i] + off(i)
  <2>1. order \in [1 .. k -> 0 .. k]
    OBVIOUS
  <2> DEFINE D == 1 .. k
  <2> HIDE DEF order, f, g, k
  <2>2. Alongside(D, k, order, f, g)
    BY <1>1, <1>11, <2>1 DEF Alongside
  <2> HIDE DEF D
  <2>3. \A i \in D : f[i] = g[i]
    BY ONLY <2>2, Unique
  <2> QED BY <2>3 DEF f, g, D
<1>13. CASE k = 1
  <2>1. B[1] = G[1]
    BY <1>4, <1>13
  <2>2. Settled(G) = IF K >= Settled(H) THEN K - Settled(H) ELSE 0
    BY <1>3, <1>6, <1>7, <1>8, <1>13, <2>1
  <2> QED BY <2>2 DEF G, H, K
<1>14. CASE k > 1
  <2>1. 1 \in 1 .. n /\ 1 < n - 1 /\ 1 \in 1 .. k /\ 1 + 1 = 2
    BY <1>14
  <2>2. /\ G[1] <= -B[2] => B[1] = G[1]
        /\ G[1] > -B[2] => B[1] = -B[2]
    BY <1>4, <2>1
  <2>3. B[2] = C[1] - K /\ C[1] \in Int
    <3>1. B[2] = C[1] + off(1) /\ C[1] \in Int
      BY <1>5, <1>12, <2>1
    <3> QED BY <1>3, <1>8, <3>1
  <2>4. Settled(G) = IF K >= Settled(H) THEN K - Settled(H) ELSE 0
    BY <1>3, <1>6, <1>7, <1>8, <1>14, <2>2, <2>3
  <2> QED BY <2>4 DEF G, H, K
<1> QED BY <1>1, <1>13, <1>14

\* The pieces that capture are those of one type, and among those in the mask.
LEMMA SmallestIs ==
  ASSUME NEW b, b \in Boards, NEW t, NEW m, NEW c
  PROVE  /\ get_smallest_attacker(b, t, m, c) \subseteq m
         /\ get_smallest_attacker(b, t, m, c) # {} => Kind(b, get_smallest_attacker(b, t, m, c)) \in PieceTypes
<1> DEFINE A == [p \in PieceTypes |-> AttackersOf(b, t, m, c, p)]
           atk == get_smallest_attacker(b, t, m, c)
<1>1. atk = FirstOf(A)
  BY DEF get_smallest_attacker
<1>2. \A p \in PieceTypes : A[p] \subseteq m /\ A[p] \subseteq b.piece_bb[p]
  BY DEF AttackersOf, pieces
<1> HIDE DEF A, atk
<1>3. \A s \in atk : \E p \in PieceTypes : s \in A[p]
  BY <1>1 DEF FirstOf
<1>4. atk \subseteq m
  BY <1>2, <1>3
<1>5. ASSUME atk # {} PROVE Kind(b, atk) \in PieceTypes
  <2> DEFINE s == CHOOSE x \in atk : TRUE
  <2>1. s \in atk
    BY <1>5
  <2> HIDE DEF s
  <2>2. \E p \in PieceTypes : s \in b.piece_bb[p]
    BY <1>2, <1>3, <2>1
  <2>3. piece_type(b, s) \in PieceTypes
    BY <2>2 DEF piece_type
  <2> QED BY <2>3 DEF Kind, s
<1> QED BY <1>4, <1>5 DEF atk

\* The recursions over the mask have no more than 64 steps.
Smaller(order) ==
  /\ order \in [SUBSET Sq -> 0 .. 64]
  /\ \A m \in SUBSET Sq : \A a \in SUBSET m : a # {} => m \ a \in SUBSET Sq /\ order[m \ a] < order[m]

\* The number of squares is such an order.
LEMMA MasksShrink == Smaller([m \in SUBSET Sq |-> Cardinality(m)])
<1> DEFINE order == [m \in SUBSET Sq |-> Cardinality(m)]
<1>1. \A m \in SUBSET Sq : order[m] \in 0 .. 64
  BY Shrinks
<1>2. ASSUME NEW m \in SUBSET Sq, NEW a \in SUBSET m, a # {}
      PROVE  m \ a \in SUBSET Sq /\ order[m \ a] < order[m]
  <2>1. m \ a \in SUBSET Sq
    BY <1>2
  <2>2. Cardinality(m \ a) < Cardinality(m)
    BY <1>2, Shrinks
  <2> QED BY <2>1, <2>2
<1>3. order \in [SUBSET Sq -> 0 .. 64]
  BY <1>1
<1> HIDE DEF order
<1>4. Smaller(order)
  BY <1>2, <1>3 DEF Smaller
<1> QED BY <1>4 DEF order

\* The captors are the first of them and then those of what it leaves.
CaptorsFollow(b, t, m, c) ==
    LET atk == get_smallest_attacker(b, t, m, c)
    IN /\ Captors(b, t)[m][c] \in Seq(PieceTypes)
       /\ atk = {} => Captors(b, t)[m][c] = <<>>
       /\ atk # {} => Captors(b, t)[m][c] = <<Kind(b, atk)>> \o Captors(b, t)[m \ atk][Other(c)]
\* They do for every mask and both sides.
LEMMA CaptorsAre ==
  ASSUME NEW b, b \in Boards, NEW t
  PROVE  \A m \in SUBSET Sq, c \in Colours : CaptorsFollow(b, t, m, c)
<1> DEFINE D == SUBSET Sq
           V == [Colours -> Seq(PieceTypes)]
           gsa(m, c) == get_smallest_attacker(b, t, m, c)
           order == [m \in SUBSET Sq |-> Cardinality(m)]
           kind(m, c) == Kind(b, gsa(m, c))
           body == [m \in D |-> [f \in [D -> V] |->
                      [c \in Colours |-> IF gsa(m, c) = {} THEN <<>>
                                         ELSE <<kind(m, c)>> \o f[m \ gsa(m, c)][Other(c)]]]]
<1>1. \A m \in D, c \in Colours : gsa(m, c) \in SUBSET m /\ (gsa(m, c) # {} => kind(m, c) \in PieceTypes)
  BY SmallestIs
<1>2. Smaller(order)
  BY MasksShrink
<1>3. \A c \in Colours : Other(c) \in Colours
  BY DEF Colours, Other
<1> HIDE DEF order, gsa, kind
<1>4. ASSUME NEW m \in D, NEW f \in [D -> V]
      PROVE  /\ body[m][f] \in V
             /\ body[m][f] = [c \in Colours |-> IF gsa(m, c) = {} THEN <<>>
                                                ELSE <<kind(m, c)>> \o f[m \ gsa(m, c)][Other(c)]]
  <2>1. ASSUME NEW c \in Colours, gsa(m, c) # {}
        PROVE  <<kind(m, c)>> \o f[m \ gsa(m, c)][Other(c)] \in Seq(PieceTypes)
    <3>1. m \ gsa(m, c) \in D
      OBVIOUS
    <3>2. f[m \ gsa(m, c)] \in [Colours -> Seq(PieceTypes)]
      <4> HIDE DEF D
      <4> QED BY <3>1
    <3>3. f[m \ gsa(m, c)][Other(c)] \in Seq(PieceTypes)
      BY <1>3, <3>2
    <3>4. <<kind(m, c)>> \in Seq(PieceTypes)
      BY <1>1, <2>1
    <3> QED BY <3>3, <3>4
  <2>2. <<>> \in Seq(PieceTypes)
    OBVIOUS
  <2> QED BY <2>1, <2>2
<1>5. ASSUME NEW m \in D, NEW f, NEW g, Below(D, order, order[m], f, g), NEW c \in Colours, gsa(m, c) # {}
      PROVE  f[m \ gsa(m, c)] = g[m \ gsa(m, c)]
  <2>1. m \ gsa(m, c) \in D /\ order[m \ gsa(m, c)] < order[m]
    BY <1>1, <1>2, <1>5 DEF Smaller
  <2> HIDE DEF D
  <2> QED BY <1>5, <2>1 DEF Below
<1>6. ASSUME NEW m \in D, NEW f \in [D -> V], NEW g \in [D -> V], Below(D, order, order[m], f, g)
      PROVE  body[m][f] = body[m][g]
  <2>1. \A c \in Colours : gsa(m, c) # {} => f[m \ gsa(m, c)] = g[m \ gsa(m, c)]
    BY <1>5, <1>6
  <2> HIDE DEF D, V, body
  <2>2. body[m][f] = [c \in Colours |-> IF gsa(m, c) = {} THEN <<>>
                                        ELSE <<kind(m, c)>> \o f[m \ gsa(m, c)][Other(c)]]
    BY <1>4
  <2>3. body[m][g] = [c \in Colours |-> IF gsa(m, c) = {} THEN <<>>
                                        ELSE <<kind(m, c)>> \o g[m \ gsa(m, c)][Other(c)]]
    BY <1>4
  <2> QED BY <2>1, <2>2, <2>3
<1> HIDE DEF body
<1>7. PICK f \in [D -> V] : \A m \in D : f[m] = body[m][f]
  <2>1. V # {}
    <3>1. [c \in Colours |-> <<>>] \in V
      OBVIOUS
    <3> QED BY <3>1
  <2> HIDE DEF D, V
  <2>2. Recursive(D, V, 64, order, body)
    <3>1. 64 \in Nat
      OBVIOUS
    <3>2. order \in [D -> 0 .. 64]
      BY <1>2 DEF Smaller, D
    <3> QED BY <1>4, <1>6, <2>1, <3>1, <3>2 DEF Recursive
  <2> QED BY <2>2, Recursion
<1>8. f = [m \in D |-> [c \in Colours |-> IF gsa(m, c) = {} THEN <<>>
                                          ELSE <<kind(m, c)>> \o f[m \ gsa(m, c)][Other(c)]]]
  <2> HIDE DEF D, V
  <2> QED BY <1>4, <1>7
<1>9. Captors(b, t) = [m \in D |-> [c \in Colours |-> IF gsa(m, c) = {} THEN <<>>
                                          ELSE <<kind(m, c)>> \o Captors(b, t)[m \ gsa(m, c)][Other(c)]]]
  BY <1>8, Zenon DEF Captors, gsa, kind
<1> DEFINE G == Captors(b, t)
<1> HIDE DEF G
<1>10. G = [m \in D |-> [c \in Colours |-> IF gsa(m, c) = {} THEN <<>>
                                          ELSE <<kind(m, c)>> \o G[m \ gsa(m, c)][Other(c)]]]
  BY <1>9 DEF G
<1> HIDE DEF D
<1>11. ASSUME NEW m \in D, Below(D, order, order[m], G, f) PROVE G[m] = f[m]
  <2>1. \A c \in Colours : gsa(m, c) # {} => G[m \ gsa(m, c)] = f[m \ gsa(m, c)]
    BY <1>5, <1>11
  <2>2. G[m] = [c \in Colours |-> IF gsa(m, c) = {} THEN <<>>
                                  ELSE <<kind(m, c)>> \o G[m \ gsa(m, c)][Other(c)]]
    BY <1>10
  <2>3. f[m] = [c \in Colours |-> IF gsa(m, c) = {} THEN <<>>
                                  ELSE <<kind(m, c)>> \o f[m \ gsa(m, c)][Other(c)]]
    BY <1>8
  <2> QED BY <2>1, <2>2, <2>3
<1>12. \A m \in D : G[m] = f[m]
  <2>1. Alongside(D, 64, order, G, f)
    <3>1. 64 \in Nat
      OBVIOUS
    <3>2. order \in [D -> 0 .. 64]
      BY <1>2 DEF Smaller, D
    <3> QED BY <1>11, <3>1, <3>2 DEF Alongside
  <2> QED BY <2>1, Unique
<1>13. ASSUME NEW m \in D, NEW c \in Colours
       PROVE  /\ G[m][c] \in Seq(PieceTypes)
              /\ gsa(m, c) = {} => G[m][c] = <<>>
              /\ gsa(m, c) # {} => G[m][c] = <<kind(m, c)>> \o G[m \ gsa(m, c)][Other(c)]
  <2>1. f[m] \in V
    <3> HIDE DEF V
    <3> QED BY <1>7
  <2>2. G[m][c] \in Seq(PieceTypes)
    BY <1>12, <2>1
  <2>3. G[m] = [d \in Colours |-> IF gsa(m, d) = {} THEN <<>>
                                  ELSE <<kind(m, d)>> \o G[m \ gsa(m, d)][Other(d)]]
    BY <1>10
  <2> QED BY <2>2, <2>3
<1> QED BY <1>13 DEF G, gsa, kind, D, CaptorsFollow

\* What see returns: nothing if no piece captures, else what the piece on the square is
\* worth less what the answer to its capture is worth, if that is more than nothing.
WorthFollows(b, t, c, p, m) ==
    LET atk == get_smallest_attacker(b, t, m, c)
        worth == see_square(b, t, c, p, m)
        answer == see_square(b, t, Other(c), Kind(b, atk), m \ atk)
    IN /\ worth \in Nat /\ worth <= material[p]
       /\ atk = {} => worth = 0
       /\ atk # {} => worth = IF material[p] >= answer THEN material[p] - answer ELSE 0
\* It does for every mask, either side and whatever stands on the square.
LEMMA WorthIs ==
  ASSUME NEW b, b \in Boards, NEW t, NEW m \in SUBSET Sq, NEW c \in Colours, NEW p \in PieceTypes
  PROVE  WorthFollows(b, t, c, p, m)
<1> DEFINE W == Captors(b, t)[m][c]
           types == <<p>> \o W
           n == Len(W) + 1
           atk == get_smallest_attacker(b, t, m, c)
           q == Kind(b, atk)
           worth == see_square(b, t, c, p, m)
           answer == see_square(b, t, Other(c), q, m \ atk)
<1>1. /\ W \in Seq(PieceTypes)
      /\ atk = {} => W = <<>>
      /\ atk # {} => W = <<q>> \o Captors(b, t)[m \ atk][Other(c)]
  <2>1. CaptorsFollow(b, t, m, c)
    BY CaptorsAre
  <2> QED BY <2>1 DEF CaptorsFollow
<1>2. worth = Settled(Gains(types))
  BY DEF see_square
<1>3. atk # {} => answer = Settled(Gains(W))
  BY <1>1 DEF see_square
<1>4. material[p] \in Nat
  BY Material
<1> HIDE DEF W, atk, q, worth, answer
<1>5. n \in Nat /\ n > 0 /\ Types(types, n) /\ types[1] = p /\ \A i \in 1 .. n - 1 : types[i + 1] = W[i]
  BY <1>1 DEF Types
<1>6. Types(W, n - 1)
  BY <1>1 DEF Types
<1>7. worth \in Nat /\ (n = 1 => worth = 0)
  <2> HIDE DEF types, n
  <2> QED BY <1>2, <1>5, SettledIs
<1>8. atk = {} => worth = 0
  BY <1>1, <1>7
<1>9. ASSUME n > 1
      PROVE  LET less == Settled(Gains(W))
             IN less \in Nat /\ worth = IF material[p] >= less THEN material[p] - less ELSE 0
  <2>1. n - 1 \in Nat /\ n - 1 > 0
    BY <1>5, <1>9
  <2> HIDE DEF types, n
  <2>2. Settled(Gains(W)) \in Nat
    BY <1>6, <2>1, SettledIs
  <2>3. worth = IF material[types[1]] >= Settled(Gains(W)) THEN material[types[1]] - Settled(Gains(W)) ELSE 0
    BY <1>2, <1>5, <1>6, <1>9, SettledStep
  <2> QED BY <1>5, <2>2, <2>3
<1>10. worth <= material[p]
  BY <1>4, <1>5, <1>7, <1>9
<1>11. ASSUME atk # {} PROVE n > 1
  <2>1. Captors(b, t)[m \ atk][Other(c)] \in Seq(PieceTypes)
    <3>1. m \ atk \in SUBSET Sq /\ Other(c) \in Colours
      BY DEF Other, Colours
    <3>2. CaptorsFollow(b, t, m \ atk, Other(c))
      BY <3>1, CaptorsAre
    <3> QED BY <3>2 DEF CaptorsFollow
  <2>2. q \in PieceTypes
    BY <1>11, SmallestIs DEF q, atk
  <2> QED BY <1>1, <1>11, <2>1, <2>2
<1>12. atk # {} => worth = IF material[p] >= answer THEN material[p] - answer ELSE 0
  BY <1>3, <1>9, <1>11
<1> QED BY <1>7, <1>8, <1>10, <1>12 DEF atk, q, worth, answer, WorthFollows

\* The recursion of the threshold test.
Stages == [mask : SUBSET Sq, side : Colours, last : Int, gain : Int]
Onward(x, atk, kind) ==
    [mask |-> x.mask \ atk, side |-> Other(x.side), last |-> material[kind],
     gain |-> Answer(x.last, x.gain)]
\* It ends with the answer, or goes on to a stage with fewer pieces left.
LEMMA ExceedsIs ==
  ASSUME NEW b, b \in Boards, NEW t, NEW us
  PROVE  \A x \in Stages :
            LET atk == get_smallest_attacker(b, t, x.mask, x.side)
            IN /\ atk = {} => (Exceeds(b, t, us)[x] <=> x.side # us)
               /\ atk # {} =>
                    IF Answer(x.last, x.gain) >= material[Kind(b, atk)]
                    THEN Exceeds(b, t, us)[x] <=> Other(x.side) # us
                    ELSE /\ Onward(x, atk, Kind(b, atk)) \in Stages
                         /\ Exceeds(b, t, us)[x] = Exceeds(b, t, us)[Onward(x, atk, Kind(b, atk))]
<1> DEFINE D == Stages
           atk(x) == get_smallest_attacker(b, t, x.mask, x.side)
           kind(x) == Kind(b, atk(x))
           masks == [m \in SUBSET Sq |-> Cardinality(m)]
           order == [x \in D |-> masks[x.mask]]
           body == [x \in D |-> [f \in [D -> BOOLEAN] |->
                      IF atk(x) = {} THEN x.side # us
                      ELSE IF Answer(x.last, x.gain) >= material[kind(x)] THEN Other(x.side) # us
                      ELSE f[Onward(x, atk(x), kind(x))]]]
<1>1. \A x \in D : x.mask \in SUBSET Sq /\ x.side \in Colours /\ x.last \in Int /\ x.gain \in Int
  BY DEF Stages
<1>2. \A x \in D : atk(x) \in SUBSET x.mask /\ (atk(x) # {} => kind(x) \in PieceTypes)
  BY SmallestIs
<1>3. Smaller(masks)
  BY MasksShrink
<1> HIDE DEF masks, atk, kind
<1>4. order \in [D -> 0 .. 64] /\ \A x \in D : order[x] = masks[x.mask]
  BY <1>1, <1>3 DEF Smaller
<1> HIDE DEF order
<1>5. ASSUME NEW x \in D, atk(x) # {}
      PROVE  /\ Onward(x, atk(x), kind(x)) \in D
             /\ order[Onward(x, atk(x), kind(x))] < order[x]
  <2>1. x.mask \ atk(x) \in SUBSET Sq /\ masks[x.mask \ atk(x)] < masks[x.mask]
    BY <1>1, <1>2, <1>3, <1>5 DEF Smaller
  <2>2. Other(x.side) \in Colours /\ material[kind(x)] \in Int /\ Answer(x.last, x.gain) \in Int
    BY <1>1, <1>2, <1>5, Material DEF Other, Colours, Answer
  <2>3. Onward(x, atk(x), kind(x)) \in D
    BY <2>1, <2>2 DEF Onward, Stages
  <2>4. Onward(x, atk(x), kind(x)).mask = x.mask \ atk(x)
    BY DEF Onward
  <2> QED BY <1>4, <2>1, <2>3, <2>4
<1>6. ASSUME NEW x \in D, NEW f \in [D -> BOOLEAN]
      PROVE  /\ body[x][f] \in BOOLEAN
             /\ body[x][f] = IF atk(x) = {} THEN x.side # us
                             ELSE IF Answer(x.last, x.gain) >= material[kind(x)] THEN Other(x.side) # us
                             ELSE f[Onward(x, atk(x), kind(x))]
  <2> HIDE DEF D
  <2>1. atk(x) # {} => f[Onward(x, atk(x), kind(x))] \in BOOLEAN
    BY <1>5
  <2>2. (x.side # us) \in BOOLEAN /\ (Other(x.side) # us) \in BOOLEAN
    OBVIOUS
  <2>3. body[x][f] = IF atk(x) = {} THEN x.side # us
                     ELSE IF Answer(x.last, x.gain) >= material[kind(x)] THEN Other(x.side) # us
                     ELSE f[Onward(x, atk(x), kind(x))]
    BY Zenon
  <2> QED BY <2>1, <2>2, <2>3, Zenon
<1> HIDE DEF D
<1>7. ASSUME NEW x \in D, NEW f \in [D -> BOOLEAN], NEW g \in [D -> BOOLEAN], Below(D, order, order[x], f, g)
      PROVE  body[x][f] = body[x][g]
  <2>1. atk(x) # {} => f[Onward(x, atk(x), kind(x))] = g[Onward(x, atk(x), kind(x))]
    BY <1>5, <1>7 DEF Below
  <2> HIDE DEF body
  <2> QED BY <1>6, <2>1, Zenon
<1> HIDE DEF body
<1>8. PICK f \in [D -> BOOLEAN] : \A x \in D : f[x] = body[x][f]
  <2>1. BOOLEAN # {} /\ 64 \in Nat
    OBVIOUS
  <2>2. Recursive(D, BOOLEAN, 64, order, body)
    BY <1>4, <1>6, <1>7, <2>1, Zenon DEF Recursive
  <2> QED BY <2>2, Recursion
<1>9. f = [x \in D |-> IF atk(x) = {} THEN x.side # us
                       ELSE IF Answer(x.last, x.gain) >= material[kind(x)] THEN Other(x.side) # us
                       ELSE f[Onward(x, atk(x), kind(x))]]
  <2>1. f = [x \in D |-> f[x]]
    OBVIOUS
  <2>2. \A x \in D : f[x] = IF atk(x) = {} THEN x.side # us
                            ELSE IF Answer(x.last, x.gain) >= material[kind(x)] THEN Other(x.side) # us
                            ELSE f[Onward(x, atk(x), kind(x))]
    BY <1>6, <1>8, Zenon
  <2> QED BY <2>1, <2>2, Zenon
<1> DEFINE G == Exceeds(b, t, us)
<1>10. G = [x \in D |-> IF atk(x) = {} THEN x.side # us
                       ELSE IF Answer(x.last, x.gain) >= material[kind(x)] THEN Other(x.side) # us
                       ELSE G[Onward(x, atk(x), kind(x))]]
  BY <1>9, Zenon DEF Exceeds, D, Stages, atk, kind, Onward
<1> HIDE DEF G
<1>11. \A x \in D : G[x] = IF atk(x) = {} THEN x.side # us
                           ELSE IF Answer(x.last, x.gain) >= material[kind(x)] THEN Other(x.side) # us
                           ELSE G[Onward(x, atk(x), kind(x))]
  BY <1>10, Zenon
<1>12. ASSUME NEW x \in D, atk(x) = {} PROVE G[x] <=> x.side # us
  BY <1>11, <1>12, Zenon
<1>13. ASSUME NEW x \in D, atk(x) # {}, Answer(x.last, x.gain) >= material[kind(x)]
       PROVE  G[x] <=> Other(x.side) # us
  BY <1>11, <1>13, Zenon
<1>14. ASSUME NEW x \in D, atk(x) # {}, ~(Answer(x.last, x.gain) >= material[kind(x)])
       PROVE  /\ Onward(x, atk(x), kind(x)) \in D
              /\ G[x] = G[Onward(x, atk(x), kind(x))]
  BY <1>5, <1>11, <1>14, Zenon
<1> QED BY <1>12, <1>13, <1>14, Zenon DEF G, D, atk, kind

\* The threshold test reckons what see does, as long as the gain so far decides nothing.
Open(x, p) == x.last = material[p] /\ 0 <= x.gain /\ x.gain < x.last
Agreed(b, t, us, x) ==
    \A p \in PieceTypes : Open(x, p) =>
        (Exceeds(b, t, us)[x] <=>
            (see_square(b, t, x.side, p, x.mask) <= x.gain <=> Other(x.side) = us))
\* It does at every stage, by induction over the number of squares left.
LEMMA StagesAgree ==
  ASSUME NEW b, b \in Boards, NEW t, NEW us \in Colours
  PROVE  \A x \in Stages : Agreed(b, t, us, x)
<1> DEFINE masks == [m \in SUBSET Sq |-> Cardinality(m)]
           S == {n \in Nat : \A x \in Stages : masks[x.mask] < n => Agreed(b, t, us, x)}
<1>1. Smaller(masks)
  BY MasksShrink
<1> HIDE DEF masks
<1>2. \A x \in Stages : masks[x.mask] \in Nat /\ masks[x.mask] < 65
  <2>1. ASSUME NEW x \in Stages PROVE masks[x.mask] \in 0 .. 64
    <3>1. x.mask \in SUBSET Sq
      BY DEF Stages
    <3> QED BY <1>1, <3>1 DEF Smaller
  <2> QED BY <2>1
<1>3. 0 \in S
  BY <1>2
<1>4. ASSUME NEW n \in Nat, n \in S PROVE n + 1 \in S
  <2>1. ASSUME NEW x \in Stages, masks[x.mask] < n + 1, NEW p \in PieceTypes, Open(x, p)
        PROVE  Exceeds(b, t, us)[x] <=>
                  (see_square(b, t, x.side, p, x.mask) <= x.gain <=> Other(x.side) = us)
    <3> DEFINE c == x.side
               m == x.mask
               atk == get_smallest_attacker(b, t, m, c)
               q == Kind(b, atk)
               K == material[p]
               next == Onward(x, atk, q)
               worth == see_square(b, t, c, p, m)
               answer == see_square(b, t, Other(c), q, m \ atk)
               above == Answer(x.last, x.gain)
    <3>1. m \in SUBSET Sq /\ c \in Colours /\ x.last \in Int /\ x.gain \in Int
      BY DEF Stages
    <3>2. Other(c) \in Colours /\ (Other(c) = us <=> c # us) /\ Other(Other(c)) = c
      BY <3>1 DEF Other, Colours
    <3>3. K \in Nat /\ x.last = K /\ 0 <= x.gain /\ x.gain < K
      BY <2>1, Material DEF Open
    <3>4. above = K - x.gain - 1
      BY <3>3 DEF Answer
    <3>5. /\ worth \in Nat
          /\ atk = {} => worth = 0
          /\ atk # {} => worth = IF K >= answer THEN K - answer ELSE 0
      <4>1. WorthFollows(b, t, c, p, m)
        BY <3>1, WorthIs
      <4> QED BY <4>1, Zenon DEF WorthFollows
    <3>6. /\ atk = {} => (Exceeds(b, t, us)[x] <=> c # us)
          /\ atk # {} =>
                IF above >= material[q]
                THEN Exceeds(b, t, us)[x] <=> Other(c) # us
                ELSE next \in Stages /\ Exceeds(b, t, us)[x] = Exceeds(b, t, us)[next]
      BY ExceedsIs, Zenon
    <3>7. CASE atk = {}
      <4>1. worth <= x.gain
        BY <3>3, <3>5, <3>7
      <4> QED BY <3>2, <3>6, <3>7, <4>1, Zenon
    <3>8. CASE atk # {}
      <4>1. atk \in SUBSET m /\ q \in PieceTypes
        BY <3>8, SmallestIs
      <4>2. m \ atk \in SUBSET Sq /\ masks[m \ atk] < masks[m]
        BY <1>1, <3>1, <3>8, <4>1 DEF Smaller
      <4>3. answer \in Nat /\ answer <= material[q] /\ material[q] \in Nat
        <5>1. material[q] \in Nat
          BY <4>1, Material
        <5>2. WorthFollows(b, t, Other(c), q, m \ atk)
          BY <3>2, <4>1, <4>2, WorthIs
        <5> QED BY <5>1, <5>2, Zenon DEF WorthFollows
      <4> HIDE DEF worth, answer, atk, q, K, above, m, c
      <4>4. worth <= x.gain <=> ~(answer <= above)
        BY <3>1, <3>3, <3>4, <3>5, <3>8, <4>3
      <4>5. CASE above >= material[q]
        <5>1. answer <= above
          BY <3>1, <3>3, <3>4, <4>3, <4>5
        <5> QED BY <3>6, <3>8, <4>4, <4>5, <5>1, Zenon DEF worth, m, c
      <4>6. CASE ~(above >= material[q])
        <5>1. next \in Stages /\ Exceeds(b, t, us)[x] = Exceeds(b, t, us)[next]
          BY <3>6, <3>8, <4>6
        <5>2. next.mask = m \ atk /\ next.side = Other(c) /\ next.last = material[q] /\ next.gain = above
          BY DEF Onward, m, c, above
        <5>3. Open(next, q)
          BY <3>1, <3>3, <3>4, <4>3, <4>6, <5>2 DEF Open
        <5>4. masks[next.mask] < n
          <6>1. masks[m] \in Nat /\ masks[m] < n + 1
            BY <1>2, <2>1 DEF m
          <6>2. masks[next.mask] \in Nat
            BY <1>2, <5>1
          <6> QED BY <4>2, <5>2, <6>1, <6>2
        <5>5. Agreed(b, t, us, next)
          BY <1>4, <5>1, <5>4
        <5>6. Exceeds(b, t, us)[next] <=> (answer <= above <=> Other(Other(c)) = us)
          BY <4>1, <5>2, <5>3, <5>5, Zenon DEF Agreed, answer
        <5> QED BY <3>2, <4>4, <5>1, <5>6, Zenon DEF worth, m, c
      <4> QED BY <4>5, <4>6
    <3> QED BY <3>7, <3>8
  <2>2. \A x \in Stages : masks[x.mask] < n + 1 => Agreed(b, t, us, x)
    BY <2>1 DEF Agreed
  <2> QED BY <2>2
<1>5. 65 \in S
  <2> HIDE DEF S
  <2>1. \A n \in Nat : n \in S
    BY <1>3, <1>4, Inductive
  <2> QED BY <2>1
<1> QED BY <1>2, <1>5

\* So the two forms agree on every capture and every threshold.
LEMMA FormsAgree ==
  ASSUME NEW b, b \in Boards, b.whos_move \in Colours, NEW m, m.moving_piece \in PieceTypes,
         Gained(b, m) \in Int, NEW threshold \in Int
  PROVE  see_threshold(b, m, threshold) <=> see_capture(b, m) >= threshold
<1> DEFINE us == b.whos_move
           K == material[m.moving_piece]
           over == Gained(b, m) - threshold
           worth == see_square(b, m.target, Other(us), m.moving_piece, Mask(m))
           x == [mask |-> Mask(m), side |-> Other(us), last |-> K, gain |-> over]
           ex == Exceeds(b, m.target, us)[x]
<1>1. Mask(m) \in SUBSET Sq /\ Other(us) \in Colours /\ Other(Other(us)) = us
  BY DEF Mask, Other, Colours
<1>2. K \in Nat
  BY Material
<1>3. worth \in Nat /\ worth <= K
  <2>1. WorthFollows(b, m.target, Other(us), m.moving_piece, Mask(m))
    BY <1>1, WorthIs
  <2> QED BY <2>1 DEF WorthFollows
<1>4. see_capture(b, m) = Gained(b, m) - worth
  BY DEF see_capture
<1>5. see_threshold(b, m, threshold) <=> Gained(b, m) >= threshold /\ (over >= K \/ ex)
  BY DEF see_threshold
<1>6. x \in Stages
  BY <1>1, <1>2 DEF Stages
<1>7. ASSUME 0 <= over, over < K PROVE ex <=> worth <= over
  <2>1. Open(x, m.moving_piece)
    BY <1>7 DEF Open
  <2>2. Agreed(b, m.target, us, x)
    BY <1>6, StagesAgree
  <2>3. x.side = Other(us) /\ x.mask = Mask(m) /\ x.gain = over
    OBVIOUS
  <2> HIDE DEF x
  <2> QED BY <1>1, <2>1, <2>2, <2>3, Zenon DEF Agreed
<1>8. over \in Int
  OBVIOUS
<1> HIDE DEF K, worth, ex
<1>9. CASE Gained(b, m) < threshold
  BY <1>3, <1>4, <1>5, <1>9
<1>10. CASE over >= K
  BY <1>2, <1>3, <1>4, <1>5, <1>10
<1>11. CASE 0 <= over /\ over < K
  BY <1>2, <1>3, <1>4, <1>5, <1>7, <1>11
<1>12. Gained(b, m) < threshold \/ over >= K \/ (0 <= over /\ over < K)
  BY <1>2
<1> QED BY <1>9, <1>10, <1>11, <1>12

-----------------------------------------------------------------------------
\* A finite family of numbers and zero have a greatest.
LEMMA Greatest ==
  ASSUME NEW T, IsFiniteSet(T), NEW h, h \in [T -> Int]
  PROVE  Max({0} \cup {h[s] : s \in T}) \in Int
<1> DEFINE Of(X) == {0} \cup {h[s] : s \in X}
           Topped(X) == \E z \in Of(X) : \A y \in Of(X) : z >= y
           S == {n \in Nat : \A X \in SUBSET T : Cardinality(X) = n => Topped(X)}
<1>1. \A X \in SUBSET T : IsFiniteSet(X) /\ Cardinality(X) \in Nat
  BY FS_Subset, FS_CardinalityType
<1>2. 0 \in S
  <2>1. ASSUME NEW X \in SUBSET T, Cardinality(X) = 0 PROVE Topped(X)
    <3>1. X = {}
      BY <1>1, <2>1, FS_EmptySet
    <3>2. Of(X) = {0}
      BY <3>1
    <3> QED BY <3>2
  <2> HIDE DEF Topped
  <2> QED BY <2>1
<1>3. ASSUME NEW n \in Nat, n \in S PROVE n + 1 \in S
  <2>1. ASSUME NEW X \in SUBSET T, Cardinality(X) = n + 1 PROVE Topped(X)
    <3>1. X # {}
      BY <2>1, FS_EmptySet
    <3>2. PICK e \in X : TRUE
      BY <3>1
    <3> DEFINE Y == X \ {e}
    <3>3. Y \in SUBSET T /\ X = Y \cup {e} /\ e \in T
      BY <3>2
    <3>4. Cardinality(Y) = n
      <4>1. Cardinality(Y) = Cardinality(X) - 1
        BY <1>1, <3>2, FS_RemoveElement
      <4> QED BY <2>1, <4>1
    <3> HIDE DEF Y
    <3>5. Topped(Y)
      <4> HIDE DEF Topped
      <4> QED BY <1>3, <3>3, <3>4
    <3>6. PICK z \in Of(Y) : \A y \in Of(Y) : z >= y
      BY <3>5
    <3>7. Of(X) = Of(Y) \cup {h[e]} /\ h[e] \in Int /\ \A y \in Of(Y) : y \in Int
      BY <3>3
    <3>8. CASE z >= h[e]
      <4>1. z \in Of(X) /\ \A y \in Of(X) : z >= y
        <5> HIDE DEF Of
        <5> QED BY <3>6, <3>7, <3>8
      <4> QED BY <4>1
    <3>9. CASE ~(z >= h[e])
      <4>1. h[e] \in Of(X) /\ \A y \in Of(X) : h[e] >= y
        <5> HIDE DEF Of
        <5> QED BY <3>6, <3>7, <3>9
      <4> QED BY <4>1
    <3> QED BY <3>8, <3>9
  <2> HIDE DEF Topped
  <2> QED BY <2>1
<1>4. Topped(T)
  <2> HIDE DEF Topped
  <2>1. Cardinality(T) \in S
    <3>1. Cardinality(T) \in Nat
      BY <1>1
    <3>2. \A n \in Nat : n \in S
      <4> HIDE DEF S
      <4> QED BY <1>2, <1>3, Inductive
    <3> HIDE DEF S
    <3> QED BY <3>1, <3>2
  <2> QED BY <2>1
<1>5. Max(Of(T)) \in Of(T)
  <2> HIDE DEF Of
  <2> QED BY <1>4 DEF Max
<1>6. \A y \in Of(T) : y \in Int
  OBVIOUS
<1> QED BY <1>5, <1>6

\* Both recursions over the pieces left have a solution, and so solve their equations.
Pool(at) == DOMAIN at \in SUBSET Sq /\ \A s \in DOMAIN at : at[s][2] \in PieceTypes
Reckons(F, at, t) ==
    F = [on \in SUBSET DOMAIN at |->
            [c \in Colours |-> [value \in Int |->
                Max({0} \cup {value - F[on \ {s}][Other(c)][material[at[s][2]]] :
                              s \in Takers(On(at, on), c, t)})]]]
Chooses(G, at, t) ==
    G = [on \in SUBSET DOMAIN at |->
            [c \in Colours |->
                \E from \in {Takers(On(at, on), c, t)} :
                    \/ Cardinality(from) > 1
                    \/ \E s \in from : G[on \ {s}][Other(c)]]]

\* The side to capture has finitely many to choose from, each of which leaves fewer.
LEMMA PoolShrinks ==
  ASSUME NEW at, Pool(at), NEW t, NEW on \in SUBSET DOMAIN at, NEW c
  PROVE  /\ IsFiniteSet(Takers(On(at, on), c, t))
         /\ \A s \in Takers(On(at, on), c, t) :
              /\ s \in on /\ on \ {s} \in SUBSET DOMAIN at
              /\ Cardinality(on \ {s}) < Cardinality(on)
              /\ at[s][2] \in PieceTypes /\ material[at[s][2]] \in Int
<1> DEFINE T == Takers(On(at, on), c, t)
<1>1. T \subseteq on
  BY DEF Takers, Least, On
<1> HIDE DEF T
<1>2. on \in SUBSET Sq /\ T \in SUBSET Sq
  BY <1>1 DEF Pool
<1>3. IsFiniteSet(T)
  <2> DEFINE all == 0 .. 63
  <2>1. 0 \in Int /\ 63 \in Int
    OBVIOUS
  <2>2. IsFiniteSet(0 .. 63)
    BY ONLY <2>1, FS_Interval
  <2>3. IsFiniteSet(all) /\ T \in SUBSET all
    BY <1>2, <2>2 DEF Sq
  <2> HIDE DEF all
  <2> QED BY <2>3, FS_Subset
<1>4. ASSUME NEW s \in T
      PROVE  /\ s \in on /\ on \ {s} \in SUBSET DOMAIN at
             /\ Cardinality(on \ {s}) < Cardinality(on)
             /\ at[s][2] \in PieceTypes /\ material[at[s][2]] \in Int
  <2>1. s \in on /\ on \ {s} \in SUBSET DOMAIN at
    BY <1>1
  <2>2. at[s][2] \in PieceTypes
    BY <2>1 DEF Pool
  <2>3. Cardinality(on \ {s}) < Cardinality(on)
    <3>1. {s} \in SUBSET on /\ {s} # {}
      BY <2>1
    <3> HIDE DEF T
    <3> QED BY <1>2, <3>1, Shrinks
  <2> QED BY <2>1, <2>2, <2>3, Material
<1> QED BY <1>3, <1>4 DEF T

\* The best of an exchange by the rules solves its equation.
LEMMA ReckonedIs ==
  ASSUME NEW at, Pool(at), NEW t
  PROVE  \E F : /\ Reckons(F, at, t)
                /\ \A side, worth : Reckoned(at, t, side, worth) = F[DOMAIN at][side][worth]
<1> DEFINE D == SUBSET DOMAIN at
           R == [Int -> Int]
           V == [Colours -> R]
           T(on, c) == Takers(On(at, on), c, t)
           worth(s) == material[at[s][2]]
           order == [on \in D |-> Cardinality(on)]
           best(f, on, c, value) == Max({0} \cup {value - f[on \ {s}][Other(c)][worth(s)] : s \in T(on, c)})
           body == [on \in D |-> [f \in [D -> V] |->
                      [c \in Colours |-> [value \in Int |-> best(f, on, c, value)]]]]
<1>1. \A on \in D, c \in Colours :
         /\ IsFiniteSet(T(on, c))
         /\ \A s \in T(on, c) : on \ {s} \in D /\ Cardinality(on \ {s}) < Cardinality(on) /\ worth(s) \in Int
  BY PoolShrinks
<1>2. order \in [D -> 0 .. 64]
  <2>1. \A on \in D : Cardinality(on) \in 0 .. 64
    <3>1. \A on \in D : on \in SUBSET Sq
      BY DEF Pool
    <3> QED BY <3>1, Shrinks
  <2> HIDE DEF D
  <2> QED BY <2>1
<1>3. \A c \in Colours : Other(c) \in Colours
  BY DEF Other, Colours
<1> HIDE DEF D, T, worth
<1>4. ASSUME NEW f \in [D -> V], NEW on \in D, NEW c \in Colours, NEW value \in Int
      PROVE  best(f, on, c, value) \in Int
  <2> DEFINE h == [s \in T(on, c) |-> value - f[on \ {s}][Other(c)][worth(s)]]
  <2>1. ASSUME NEW s \in T(on, c) PROVE value - f[on \ {s}][Other(c)][worth(s)] \in Int
    <3>1. on \ {s} \in D /\ worth(s) \in Int
      BY <1>1
    <3>2. f[on \ {s}] \in V
      <4> HIDE DEF V
      <4> QED BY <3>1
    <3>3. f[on \ {s}][Other(c)] \in R
      <4> HIDE DEF R
      <4> QED BY <1>3, <3>2
    <3>4. f[on \ {s}][Other(c)][worth(s)] \in Int
      BY <3>1, <3>3
    <3> QED BY <3>4
  <2>2. h \in [T(on, c) -> Int]
    BY <2>1
  <2>3. {h[s] : s \in T(on, c)} = {value - f[on \ {s}][Other(c)][worth(s)] : s \in T(on, c)}
    OBVIOUS
  <2>4. IsFiniteSet(T(on, c))
    BY <1>1
  <2> HIDE DEF h
  <2>5. Max({0} \cup {h[s] : s \in T(on, c)}) \in Int
    BY <2>2, <2>4, Greatest
  <2> QED BY <2>3, <2>5
<1>5. ASSUME NEW f, NEW g, NEW on \in D, Below(D, order, order[on], f, g), NEW c \in Colours, NEW value \in Int
      PROVE  best(f, on, c, value) = best(g, on, c, value)
  <2>1. ASSUME NEW s \in T(on, c) PROVE f[on \ {s}] = g[on \ {s}]
    <3>1. on \ {s} \in D /\ order[on \ {s}] < order[on]
      BY <1>1
    <3> HIDE DEF order
    <3> QED BY <1>5, <3>1 DEF Below
  <2>2. {value - f[on \ {s}][Other(c)][worth(s)] : s \in T(on, c)} =
        {value - g[on \ {s}][Other(c)][worth(s)] : s \in T(on, c)}
    BY <2>1
  <2> QED BY <2>2
<1> HIDE DEF best, order
<1>6. ASSUME NEW f \in [D -> V], NEW on \in D
      PROVE  /\ body[on][f] \in V
             /\ body[on][f] = [c \in Colours |-> [value \in Int |-> best(f, on, c, value)]]
  <2>1. body[on][f] = [c \in Colours |-> [value \in Int |-> best(f, on, c, value)]]
    <3> HIDE DEF V
    <3> QED BY Zenon
  <2>2. \A c \in Colours : [value \in Int |-> best(f, on, c, value)] \in R
    BY <1>4
  <2> HIDE DEF R, body
  <2> QED BY <2>1, <2>2
<1> HIDE DEF body
<1>7. ASSUME NEW on \in D, NEW f \in [D -> V], NEW g \in [D -> V], Below(D, order, order[on], f, g)
      PROVE  body[on][f] = body[on][g]
  <2> HIDE DEF V
  <2>1. \A c \in Colours, value \in Int : best(f, on, c, value) = best(g, on, c, value)
    BY <1>5, <1>7
  <2>2. \A c \in Colours : [value \in Int |-> best(f, on, c, value)] = [value \in Int |-> best(g, on, c, value)]
    BY <2>1
  <2>3. body[on][f] = [c \in Colours |-> [value \in Int |-> best(f, on, c, value)]]
    BY <1>6, Zenon
  <2>4. body[on][g] = [c \in Colours |-> [value \in Int |-> best(g, on, c, value)]]
    BY <1>6, Zenon
  <2> QED BY <2>2, <2>3, <2>4, Zenon
<1>8. PICK f \in [D -> V] : \A on \in D : f[on] = body[on][f]
  <2>1. V # {}
    <3>1. [c \in Colours |-> [value \in Int |-> 0]] \in V
      OBVIOUS
    <3> QED BY <3>1
  <2>2. 64 \in Nat
    OBVIOUS
  <2> HIDE DEF V, order
  <2>3. Recursive(D, V, 64, order, body)
    BY <1>2, <1>6, <1>7, <2>1, <2>2, Zenon DEF Recursive
  <2> QED BY <2>3, Recursion
<1> DEFINE is(F) == F = [on \in D |-> [c \in Colours |-> [value \in Int |-> best(F, on, c, value)]]]
           F == CHOOSE g : is(g)
<1>9. is(f)
  <2> HIDE DEF V
  <2>1. f = [on \in D |-> f[on]]
    OBVIOUS
  <2> QED BY <1>6, <1>8, <2>1, Zenon
<1>10. is(F)
  <2> HIDE DEF is
  <2> QED BY <1>9, Zenon
<1>11. \A side, value : Reckoned(at, t, side, value) = F[DOMAIN at][side][value]
  BY Zenon DEF Reckoned, D, T, worth, best
<1>12. Reckons(F, at, t)
  <2> HIDE DEF F
  <2> QED BY <1>10, Zenon DEF Reckons, D, T, worth, best
<1> HIDE DEF F
<1> QED BY <1>11, <1>12

\* So does the question whether a side ever has two alike to choose from.
LEMMA AlikeIs ==
  ASSUME NEW at, Pool(at), NEW t
  PROVE  \E G : /\ Chooses(G, at, t)
                /\ \A side : Alike(at, t, side) = G[DOMAIN at][side]
<1> DEFINE D == SUBSET DOMAIN at
           V == [Colours -> BOOLEAN]
           T(on, c) == Takers(On(at, on), c, t)
           order == [on \in D |-> Cardinality(on)]
           some(f, on, c) == \E from \in {T(on, c)} : \/ Cardinality(from) > 1
                                                      \/ \E s \in from : f[on \ {s}][Other(c)]
           body == [on \in D |-> [f \in [D -> V] |-> [c \in Colours |-> some(f, on, c)]]]
<1>1. \A on \in D, c \in Colours :
         \A s \in T(on, c) : on \ {s} \in D /\ Cardinality(on \ {s}) < Cardinality(on)
  BY PoolShrinks
<1>2. order \in [D -> 0 .. 64]
  <2>1. \A on \in D : Cardinality(on) \in 0 .. 64
    <3>1. \A on \in D : on \in SUBSET Sq
      BY DEF Pool
    <3> QED BY <3>1, Shrinks
  <2> HIDE DEF D
  <2> QED BY <2>1
<1> HIDE DEF D, T
<1>3. ASSUME NEW f, NEW g, NEW on \in D, Below(D, order, order[on], f, g), NEW c \in Colours
      PROVE  some(f, on, c) <=> some(g, on, c)
  <2>1. ASSUME NEW s \in T(on, c) PROVE f[on \ {s}] = g[on \ {s}]
    <3>1. on \ {s} \in D /\ order[on \ {s}] < order[on]
      BY <1>1
    <3> HIDE DEF order
    <3> QED BY <1>3, <3>1 DEF Below
  <2> QED BY <2>1
<1>4. \A f, on, c : some(f, on, c) \in BOOLEAN
  BY Zenon
<1> HIDE DEF some, order
<1>5. ASSUME NEW f \in [D -> V], NEW on \in D
      PROVE  /\ body[on][f] \in V
             /\ body[on][f] = [c \in Colours |-> some(f, on, c)]
  <2>1. body[on][f] = [c \in Colours |-> some(f, on, c)]
    <3> HIDE DEF V
    <3> QED BY Zenon
  <2>2. [c \in Colours |-> some(f, on, c)] \in V
    BY <1>4
  <2> HIDE DEF body, V
  <2> QED BY <2>1, <2>2, Zenon
<1> HIDE DEF body
<1>6. ASSUME NEW on \in D, NEW f \in [D -> V], NEW g \in [D -> V], Below(D, order, order[on], f, g)
      PROVE  body[on][f] = body[on][g]
  <2> HIDE DEF V
  <2>1. \A c \in Colours : some(f, on, c) = some(g, on, c)
    BY <1>3, <1>4, <1>6, Zenon
  <2>2. body[on][f] = [c \in Colours |-> some(f, on, c)]
    BY <1>5, Zenon
  <2>3. body[on][g] = [c \in Colours |-> some(g, on, c)]
    BY <1>5, Zenon
  <2> QED BY <2>1, <2>2, <2>3, Zenon
<1>7. PICK f \in [D -> V] : \A on \in D : f[on] = body[on][f]
  <2>1. V # {}
    <3>1. [c \in Colours |-> TRUE] \in V
      OBVIOUS
    <3> QED BY <3>1
  <2>2. 64 \in Nat
    OBVIOUS
  <2> HIDE DEF V
  <2>3. Recursive(D, V, 64, order, body)
    BY <1>2, <1>5, <1>6, <2>1, <2>2, Zenon DEF Recursive
  <2> QED BY <2>3, Recursion
<1> DEFINE is(G) == G = [on \in D |-> [c \in Colours |-> some(G, on, c)]]
           G == CHOOSE g : is(g)
<1>8. is(f)
  <2> HIDE DEF V
  <2>1. f = [on \in D |-> f[on]]
    OBVIOUS
  <2> QED BY <1>5, <1>7, <2>1, Zenon
<1>9. is(G)
  <2> HIDE DEF is
  <2> QED BY <1>8, Zenon
<1>10. \A side : Alike(at, t, side) = G[DOMAIN at][side]
  BY Zenon DEF Alike, D, T, some
<1>11. Chooses(G, at, t)
  <2> HIDE DEF G
  <2> QED BY <1>9, Zenon DEF Chooses, D, T, some
<1> HIDE DEF G
<1> QED BY <1>10, <1>11

\* The engine's captors are those of the rules, of what the mask leaves.
LEMMA TakersSeen ==
  ASSUME NEW b \in Boards, Views(b), NEW m \in SUBSET Sq, NEW c \in Colours, NEW t \in Sq
  PROVE  Takers(On(AtOf(b), b.occupied_bb \cap m), c, t) = get_smallest_attacker(b, t, m, c)
<1> DEFINE occ == b.occupied_bb \cap m
           at == On(AtOf(b), occ)
           of == [p \in PieceTypes |-> AttackersOf(b, t, m, c, p)]
           from == {s \in DOMAIN at : at[s][1] = c /\ Strikes(at, s, t)}
<1>1. /\ DOMAIN at = occ /\ occ \subseteq Sq
      /\ \A s \in occ : /\ at[s][2] \in PieceTypes
                        /\ at[s][1] = c <=> s \in b.colour_bb[c]
                        /\ \A p \in PieceTypes : at[s][2] = p <=> s \in b.piece_bb[p]
  BY BoardSeen DEF On
<1>2. b.colour_bb[c] \subseteq b.occupied_bb
  BY DEF Views, Colours
<1> HIDE DEF at
<1>3. ASSUME NEW p \in PieceTypes, NEW s \in occ, s \in pieces(b, c, p)
      PROVE  s \in of[p] <=> Strikes(at, s, t)
  <2>1. s \in Sq /\ at[s][2] = p /\ at[s][1] = c /\ s \in m
    BY <1>1, <1>3 DEF pieces
  <2>2. CASE p = "PAWN"
    <3>1. s \in of[p] <=> s \in pawn_attacks(Other(c), t)
      BY <1>3, <2>1, <2>2 DEF AttackersOf, pawn_attacks
    <3>2. Strikes(at, s, t) <=> t \in pawn_attacks(c, s)
      BY <2>1, <2>2 DEF Strikes, pawn_attacks
    <3> QED BY <2>1, <3>1, <3>2, Sym
  <2>3. CASE p # "PAWN"
    <3>1. Strikes(at, s, t) <=> t \in attacks(p, occ, s)
      BY <1>1, <2>1, <2>3, StrikesSeen
    <3>2. s \in of[p] <=> s \in attacks(p, occ, t)
      BY <1>3, <2>1, <2>3 DEF AttackersOf, attacks, PieceTypes
    <3>3. t \in attacks(p, occ, s) <=> s \in attacks(p, occ, t)
      <4>1. /\ Between[s][t] = Between[t][s]
            /\ t \in RookLines[s] <=> s \in RookLines[t]
            /\ t \in BishopLines[s] <=> s \in BishopLines[t]
            /\ t \in KnightAttacks[s] <=> s \in KnightAttacks[t]
            /\ t \in KingAttacks[s] <=> s \in KingAttacks[t]
        BY <2>1, Sym
      <4> HIDE DEF occ
      <4> QED BY <2>3, <4>1 DEF attacks, rook_attacks, bishop_attacks, PieceTypes
    <3> QED BY <3>1, <3>2, <3>3
  <2> QED BY <2>2, <2>3
<1>4. \A p \in PieceTypes : of[p] \subseteq pieces(b, c, p) \cap occ
  BY <1>2 DEF AttackersOf, pieces
<1> HIDE DEF of
<1>5. \A s \in occ, p \in PieceTypes : s \in of[p] <=> s \in from /\ at[s][2] = p
  <2>1. ASSUME NEW s \in occ, NEW p \in PieceTypes PROVE s \in of[p] <=> s \in from /\ at[s][2] = p
    <3>1. s \in pieces(b, c, p) <=> at[s][1] = c /\ at[s][2] = p
      BY <1>1 DEF pieces
    <3> QED BY <1>1, <1>3, <1>4, <3>1
  <2> QED BY <2>1
<1>6. from \subseteq occ /\ \A s \in from : at[s][2] \in PieceTypes
  BY <1>1
<1> HIDE DEF from
<1>7. get_smallest_attacker(b, t, m, c) = FirstOf(of)
  BY DEF get_smallest_attacker, of
<1>8. ASSUME NEW s \in FirstOf(of) PROVE s \in Least(at, from)
  <2>1. PICK p \in PieceTypes : s \in of[p] /\ \A r \in PieceTypes : of[r] # {} => material[p] <= material[r]
    BY DEF FirstOf
  <2>2. s \in from /\ at[s][2] = p
    BY <1>4, <1>5, <2>1
  <2>3. \A r \in from : material[p] <= material[at[r][2]]
    BY <1>5, <1>6, <2>1
  <2> QED BY <2>2, <2>3 DEF Least
<1>9. ASSUME NEW s \in Least(at, from) PROVE s \in FirstOf(of)
  <2> DEFINE p == at[s][2]
  <2>1. s \in from /\ p \in PieceTypes /\ s \in of[p] /\ \A r \in from : material[p] <= material[at[r][2]]
    BY <1>5, <1>6, <1>9 DEF Least
  <2>2. ASSUME NEW q \in PieceTypes, of[q] # {} PROVE material[p] <= material[q]
    <3>1. PICK r \in of[q] : TRUE
      BY <2>2
    <3>2. r \in from /\ at[r][2] = q
      BY <1>4, <1>5, <3>1
    <3> QED BY <2>1, <3>2
  <2> HIDE DEF p
  <2> DEFINE have == {q \in PieceTypes : of[q] # {}}
  <2>3. p \in {q \in have : \A r \in have : material[q] <= material[r]}
    BY <2>1, <2>2
  <2> QED BY <2>1, <2>3, Zenon DEF FirstOf
<1>10. Takers(at, c, t) = Least(at, from)
  BY DEF Takers, from
<1>11. Takers(at, c, t) = get_smallest_attacker(b, t, m, c)
  <2>1. FirstOf(of) = Least(at, from)
    BY <1>8, <1>9, Zenon
  <2> QED BY <1>7, <1>10, <2>1
<1> QED BY <1>11 DEF at

\* Where no side ever has two alike, see reckons what the rules do.
LEMMA ExchangeReckoned ==
  ASSUME NEW b \in Boards, Views(b), NEW M \in SUBSET Sq, NEW t \in Sq, NEW side \in Colours,
         NEW worth \in PieceTypes, ~Alike(On(AtOf(b), b.occupied_bb \cap M), t, side)
  PROVE  see_square(b, t, side, worth, M) =
            Reckoned(On(AtOf(b), b.occupied_bb \cap M), t, side, material[worth])
<1> DEFINE occ == b.occupied_bb
           at == On(AtOf(b), occ \cap M)
           masks == [m \in SUBSET Sq |-> Cardinality(m)]
<1>1. /\ DOMAIN at = occ \cap M /\ \A s \in DOMAIN at : at[s] = AtOf(b)[s]
      /\ \A s \in occ \cap M : /\ at[s][2] \in PieceTypes
                        /\ \A p \in PieceTypes : at[s][2] = p <=> s \in b.piece_bb[p]
  BY BoardSeen DEF On
<1>2. Smaller(masks)
  BY MasksShrink
<1>3. ASSUME NEW m \in SUBSET M
      PROVE  /\ occ \cap m \in SUBSET DOMAIN at
             /\ On(at, occ \cap m) = On(AtOf(b), occ \cap m)
  BY <1>1 DEF On
<1> HIDE DEF at, masks
<1>4. Pool(at)
  BY <1>1 DEF Pool
<1>5. PICK F : /\ Reckons(F, at, t)
               /\ \A c, value : Reckoned(at, t, c, value) = F[DOMAIN at][c][value]
  BY <1>4, ReckonedIs
<1>6. PICK G : /\ Chooses(G, at, t)
               /\ \A c : Alike(at, t, c) = G[DOMAIN at][c]
  BY <1>4, AlikeIs
<1> DEFINE Holds(m) == \A c \in Colours, p \in PieceTypes :
              ~G[occ \cap m][c] => see_square(b, t, c, p, m) = F[occ \cap m][c][material[p]]
           S == {n \in Nat : \A m \in SUBSET M : masks[m] < n => Holds(m)}
<1>7. \A m \in SUBSET M : m \in SUBSET Sq /\ masks[m] \in Nat /\ masks[m] < 65
  <2>1. \A m \in SUBSET M : m \in SUBSET Sq
    OBVIOUS
  <2>2. \A m \in SUBSET Sq : masks[m] \in 0 .. 64
    BY <1>2 DEF Smaller
  <2> QED BY <2>1, <2>2
<1>8. 0 \in S
  BY <1>7
<1>9. ASSUME NEW n \in Nat, n \in S PROVE n + 1 \in S
  <2>1. ASSUME NEW m \in SUBSET M, masks[m] < n + 1, NEW c \in Colours, NEW p \in PieceTypes,
               ~G[occ \cap m][c]
        PROVE  see_square(b, t, c, p, m) = F[occ \cap m][c][material[p]]
    <3> DEFINE on == occ \cap m
               T == Takers(On(at, on), c, t)
               K == material[p]
               V == see_square(b, t, c, p, m)
    <3>1. on \in SUBSET DOMAIN at /\ m \in SUBSET Sq /\ K \in Int
      BY <1>3, <1>7, Material
    <3>2. T = get_smallest_attacker(b, t, m, c)
      <4>1. On(at, on) = On(AtOf(b), on)
        BY <1>3
      <4>2. Takers(On(AtOf(b), on), c, t) = get_smallest_attacker(b, t, m, c)
        BY <3>1, TakersSeen
      <4> QED BY <4>1, <4>2
    <3>3. /\ IsFiniteSet(T) /\ \A s \in T : s \in on
      BY <1>4, <3>1, PoolShrinks
    <3>4. F[on][c][K] = Max({0} \cup {K - F[on \ {s}][Other(c)][material[at[s][2]]] : s \in T})
      <4> DEFINE fc == [value \in Int |->
                Max({0} \cup {value - F[on \ {s}][Other(c)][material[at[s][2]]] : s \in T})]
      <4>1. F[on][c] = fc
        <5> HIDE DEF on, occ
        <5>1. F = [x \in SUBSET DOMAIN at |-> [y \in Colours |-> [value \in Int |->
                     Max({0} \cup {value - F[x \ {s}][Other(y)][material[at[s][2]]] :
                                   s \in Takers(On(at, x), y, t)})]]]
          BY <1>5 DEF Reckons
        <5>2. F[on] = [y \in Colours |-> [value \in Int |->
                     Max({0} \cup {value - F[on \ {s}][Other(y)][material[at[s][2]]] :
                                   s \in Takers(On(at, on), y, t)})]]
          BY <3>1, <5>1, Zenon
        <5> QED BY <5>2, Zenon
      <4> QED BY <3>1, <4>1
    <3>5. ~(\E from \in {T} : \/ Cardinality(from) > 1
                              \/ \E s \in from : G[on \ {s}][Other(c)])
      <4>1. G[on][c] = \E from \in {T} : \/ Cardinality(from) > 1
                                         \/ \E s \in from : G[on \ {s}][Other(c)]
        <5> HIDE DEF on, occ
        <5> QED BY <1>6, <3>1, Zenon DEF Chooses
      <4> QED BY <2>1, <4>1
    <3>6. WorthFollows(b, t, c, p, m)
      BY <3>1, WorthIs DEF Boards
    <3> HIDE DEF on, T, K, V, Holds
    <3>7. CASE T = {}
      <4>1. V = 0
        BY <3>2, <3>6, <3>7 DEF WorthFollows, V
      <4>2. {0} \cup {K - F[on \ {s}][Other(c)][material[at[s][2]]] : s \in T} = {0}
        BY <3>7
      <4>3. Max({0}) = 0
        BY DEF Max
      <4> QED BY <3>4, <4>1, <4>2, <4>3 DEF V, on, K
    <3>8. CASE T # {}
      <4>1. PICK s : T = {s}
        <5>1. Cardinality(T) = 1
          <6>1. Cardinality(T) \in Nat /\ Cardinality(T) # 0
            BY <3>3, <3>8, FS_EmptySet, FS_CardinalityType
          <6>2. ~(Cardinality(T) > 1)
            BY <3>5
          <6> QED BY <6>1, <6>2
        <5> QED BY <3>3, <5>1, FS_Singleton
      <4> DEFINE d == Other(c)
                 q == at[s][2]
                 rest == m \ {s}
                 v == see_square(b, t, d, q, rest)
      <4>2. s \in on /\ s \in m /\ s \in occ /\ q \in PieceTypes /\ s \in b.piece_bb[q] /\ d \in Colours
        <5>1. s \in on
          BY <3>3, <4>1
        <5> QED BY <1>1, <5>1 DEF on, Other, Colours
      <4>3. Kind(b, T) = q
        <5>1. (CHOOSE x \in {s} : TRUE) = s
          OBVIOUS
        <5>2. piece_type(b, s) = q
          <6>1. \A r \in PieceTypes : s \in b.piece_bb[r] => r = q
            BY <1>1, <4>2
          <6> QED BY <4>2, <6>1 DEF piece_type
        <5> QED BY <4>1, <5>1, <5>2 DEF Kind
      <4>4. rest \in SUBSET M /\ occ \cap rest = on \ {s} /\ masks[rest] < n
        <5>1. masks[rest] < masks[m]
          <6>1. {s} \in SUBSET m /\ {s} # {}
            BY <4>2
          <6> QED BY <1>2, <3>1, <6>1 DEF Smaller
        <5>2. rest \in SUBSET M
          OBVIOUS
        <5>3. masks[rest] \in Nat /\ masks[m] \in Nat
          BY <1>7, <5>2
        <5> QED BY <2>1, <5>1, <5>2, <5>3 DEF on
      <4>5. ~G[occ \cap rest][d]
        BY <3>5, <4>1, <4>4
      <4>6. Holds(rest)
        BY <1>9, <4>4
      <4>7. v = F[on \ {s}][d][material[q]]
        BY <4>2, <4>4, <4>5, <4>6 DEF Holds
      <4>8. v \in Nat
        <5>1. rest \in SUBSET Sq
          BY <4>4
        <5>2. WorthFollows(b, t, d, q, rest)
          BY <4>2, <5>1, WorthIs DEF Boards
        <5> QED BY <5>2 DEF WorthFollows
      <4>9. V = IF K >= v THEN K - v ELSE 0
        <5>1. m \ T = rest
          BY <4>1
        <5> HIDE DEF rest
        <5> QED BY <3>2, <3>6, <3>8, <4>3, <5>1, Zenon DEF WorthFollows, V, K
      <4>10. F[on][c][K] = Max({K - v, 0})
        <5>1. {0} \cup {K - F[on \ {x}][Other(c)][material[at[x][2]]] : x \in T} = {K - v, 0}
          BY <4>1, <4>7
        <5> QED BY <3>4, <5>1
      <4>11. Max({K - v, 0}) = IF K - v >= 0 THEN K - v ELSE 0
        <5>1. K - v \in Int /\ 0 \in Int
          BY <3>1, <4>8
        <5> QED BY <5>1, Larger
      <4>12. V = F[on][c][K]
        BY <3>1, <4>8, <4>9, <4>10, <4>11
      <4> QED BY <4>12 DEF V, on, K
    <3> QED BY <3>7, <3>8
  <2> QED BY <2>1
<1>10. Holds(M)
  <2>1. 65 \in S
    <3> HIDE DEF S
    <3>1. \A n \in Nat : n \in S
      BY <1>8, <1>9, Inductive
    <3> QED BY <3>1
  <2> HIDE DEF Holds
  <2> QED BY <1>7, <2>1
<1>11. ~G[occ \cap M][side]
  BY <1>1, <1>6 DEF at
<1>12. see_square(b, t, side, worth, M) = F[occ \cap M][side][material[worth]]
  BY <1>10, <1>11
<1>13. see_square(b, t, side, worth, M) = Reckoned(at, t, side, material[worth])
  <2>1. DOMAIN at = occ \cap M
    BY <1>1
  <2>2. Reckoned(at, t, side, material[worth]) = F[DOMAIN at][side][material[worth]]
    BY <1>5, Zenon
  <2> QED BY <1>12, <2>1, <2>2
<1> QED BY <1>13 DEF at

\* What see takes for granted of a capture.
Capturing(b, m) ==
    /\ b \in Boards /\ Views(b) /\ b.whos_move \in Colours
    /\ m.moving_piece \in PieceTypes /\ m.target \in Sq /\ Gained(b, m) \in Int
\* Every capture that the generator makes in a game is of that kind.
LEMMA CapturesAre ==
  ASSUME IInv, NEW m \in get_moves(board, aux_info), is_capture(m)
  PROVE  Capturing(board, m)
<1>1. /\ Lawful(board, aux_info.castling_rights, aux_info.en_passent_target)
      /\ Informed(board, aux_info)
  BY GameMoves DEF IInv, Ply, aux_info
<1>2. board \in Boards /\ Views(board) /\ board.whos_move \in Colours
  BY <1>1 DEF Lawful, Boards
<1>3. Sound(board, m)
  BY <1>1, Generated DEF Described
<1>4. m.moving_piece \in PieceTypes /\ m.target \in Sq
  BY <1>3 DEF Sound, Blank
<1>5. ASSUME m.type # "EN_PASSENT" PROVE piece_type(board, m.target) \in PieceTypes
  <2>1. m.target \in board.colour_bb[Other(board.whos_move)]
    BY <1>3, <1>5 DEF Sound
  <2>2. \E p \in PieceTypes : m.target \in board.piece_bb[p]
    BY <1>2, <2>1 DEF Views, Other, Colours
  <2> QED BY <2>2 DEF piece_type
<1>6. "PAWN" \in PieceTypes
  BY DEF PieceTypes
<1>7. Gained(board, m) \in Int
  BY <1>5, <1>6, Material DEF Gained
<1> QED BY <1>2, <1>4, <1>7 DEF Capturing

AtAnyThreshold ==
    \A m \in CaptureMoves, t \in Int : see_threshold(board, m, t) <=> see_capture(board, m) >= t

\* On every capture of every position of a game the threshold form of see says what the
\* full form does, whatever the threshold: ending as soon as the answer is known loses
\* nothing.
THEOREM AnyThresholdAgrees == Spec => []AtAnyThreshold
<1>1. IInv => AtAnyThreshold
  <2> SUFFICES ASSUME IInv, NEW m \in CaptureMoves, NEW t \in Int
               PROVE  see_threshold(board, m, t) <=> see_capture(board, m) >= t
    BY DEF AtAnyThreshold
  <2>1. Capturing(board, m)
    BY CapturesAre DEF CaptureMoves
  <2> QED BY <2>1, FormsAgree DEF Capturing
<1> QED BY <1>1, GameIsKept, PTL

\* So they do at the thresholds that the runs try, those around the value of the exchange
\* and of each piece.
THEOREM FormsOfSeeAgree == Spec => []ThresholdAgrees
<1>1. IInv /\ AtAnyThreshold => ThresholdAgrees
  <2> SUFFICES ASSUME IInv, AtAnyThreshold, NEW m \in CaptureMoves,
                      NEW t \in Thresholds(board, m, see_capture(board, m))
               PROVE  see_threshold(board, m, t) <=> see_capture(board, m) >= t
    BY DEF ThresholdAgrees, AgreesWith
  <2>1. Capturing(board, m)
    BY CapturesAre DEF CaptureMoves
  <2>2. see_capture(board, m) \in Int
    <3>1. Mask(m) \in SUBSET Sq /\ Other(board.whos_move) \in Colours
      BY <2>1 DEF Mask, Other, Colours
    <3>2. WorthFollows(board, m.target, Other(board.whos_move), m.moving_piece, Mask(m))
      BY <2>1, <3>1, WorthIs DEF Capturing
    <3>3. see_square(board, m.target, Other(board.whos_move), m.moving_piece, Mask(m)) \in Nat
      BY <3>2 DEF WorthFollows
    <3> QED BY <2>1, <3>3 DEF see_capture, Capturing
  <2>3. t \in Int
    <3>1. \A p \in PieceTypes : Gained(board, m) - material[p] \in Int
      BY <2>1, Material DEF Capturing
    <3>2. \A d \in {-1, 0, 1} : see_capture(board, m) + d \in Int
      BY <2>2
    <3>3. \A p \in PieceTypes, d \in {0, 1} : Gained(board, m) - material[p] + d \in Int
      BY <3>1
    <3>4. -50 \in Int /\ 0 \in Int
      OBVIOUS
    <3> QED BY <3>2, <3>3, <3>4 DEF Thresholds
  <2> QED BY <2>3 DEF AtAnyThreshold
<1> QED BY <1>1, GameIsKept, AnyThresholdAgrees, PTL

\* Where no side ever has two equal pieces to choose from, see is worth what the side to
\* move gains by the rules if either side captures or stops as it likes best.
THEOREM ExchangesAreBest == Spec => []ExchangeIsBest
<1>1. IInv => ExchangeIsBest
  <2> SUFFICES ASSUME IInv, NEW m \in CaptureMoves PROVE BestFor(board, m, On(At, DOMAIN At \cap Mask(m)))
    BY DEF ExchangeIsBest
  <2>1. m \in get_moves(board, aux_info) /\ is_capture(m)
    BY DEF CaptureMoves
  <2>2. Capturing(board, m)
    BY <2>1, CapturesAre
  <2>3. Mask(m) \in SUBSET Sq /\ Other(board.whos_move) \in Colours
    BY DEF Mask, Other, Colours
  <2>4. At = AtOf(board) /\ DOMAIN At = board.occupied_bb
    BY <2>2, BoardSeen DEF At, Capturing
  <2> DEFINE at == On(At, DOMAIN At \cap Mask(m))
             side == Other(board.whos_move)
  <2>5. ASSUME ~Alike(at, m.target, side)
        PROVE  see_square(board, m.target, side, m.moving_piece, Mask(m)) =
                  Reckoned(at, m.target, side, material[m.moving_piece])
    BY <2>2, <2>3, <2>4, <2>5, ExchangeReckoned DEF Capturing
  <2> QED BY <2>5 DEF BestFor, see_capture
<1> QED BY <1>1, GameIsKept, PTL
=============================================================================
