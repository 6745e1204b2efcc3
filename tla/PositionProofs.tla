---------------------------- MODULE PositionProofs ----------------------------
(***************************************************************************)
(* make_move and unmake_move, on every board and for every move.  What the *)
(* one does the other takes back: the bitboards because each change is an  *)
(* exclusive or with the same squares, in whatever order, the counters     *)
(* because each is moved by as much as it was (UnmakeUndoesMake).  On a    *)
(* board whose views agree, the exclusive ors take the pieces from where   *)
(* they were to where they go (MadeBoard), and the counters, the kings'    *)
(* squares and the hash follow them (MadeCounts, MadeHash).                *)
(***************************************************************************)
EXTENDS Position, FiniteSetTheorems, TLAPS

Boards ==
    [colour_bb : [Colours -> SUBSET Sq], piece_bb : [PieceTypes -> SUBSET Sq],
     occupied_bb : SUBSET Sq, piece_counts : [Colours -> [PieceTypes -> Int]],
     phase_material : Int, king_square : [Colours -> Sq], whos_move : Colours,
     fullmove_counter : Int]

\* Moves as make_move leaves them: what is captured and promoted is filled in.
MadeMoves ==
    {m \in [moving_piece : PieceTypes, origin : Sq, target : Sq, type : MoveTypes,
            promoted : PieceTypes \cup {NO_PIECE},
            captured_piece : PieceTypes \cup {NO_PIECE}] :
        /\ is_capture(m) => m.captured_piece \in PieceTypes
        /\ is_promotion(m) => m.promoted \in PieceTypes}

-----------------------------------------------------------------------------
\* Flipping the same squares twice changes nothing, and flips commute.
LEMMA Flips ==
  /\ \A A, B : Xor(Xor(A, B), B) = A
  /\ \A A, B, C : Xor(Xor(A, B), C) = Xor(A, Xor(B, C))
  /\ \A A : Xor(A, {}) = A
BY DEF Xor

-----------------------------------------------------------------------------
\* The squares a move flips of the board, of a colour and of a piece type.
OccupiedFlips(us, m) ==
    CASE is_castle(m) -> Xor({m.origin, m.target}, rook_from_to(us, get_castleside(m)))
      [] m.type = "EN_PASSENT" -> Xor({m.origin, m.target}, {CapturedSquare(m)})
      [] is_capture(m) /\ m.type # "EN_PASSENT" -> {m.origin}
      [] OTHER -> {m.origin, m.target}

\* Every occupied square comes back.
LEMMA OccupiedBack ==
  ASSUME NEW occ, NEW us, NEW m
  PROVE  /\ FlipOccupied(occ, us, m) = Xor(occ, OccupiedFlips(us, m))
         /\ FlipOccupied(FlipOccupied(occ, us, m), us, m) = occ
<1>1. \A o : FlipOccupied(o, us, m) = Xor(o, OccupiedFlips(us, m))
  BY Flips DEF FlipOccupied, OccupiedFlips, is_castle, is_capture
<1> QED  BY <1>1, Flips

OwnFlips(us, m) ==
    IF is_castle(m) THEN Xor({m.origin, m.target}, rook_from_to(us, get_castleside(m)))
    ELSE {m.origin, m.target}
TheirFlips(m) ==
    CASE m.type = "EN_PASSENT" -> {CapturedSquare(m)}
      [] is_capture(m) /\ m.type # "EN_PASSENT" -> {m.target}
      [] OTHER -> {}

\* FlipColours flips those squares and no others.
LEMMA ColoursFlipped ==
  ASSUME NEW bb, bb = [c \in Colours |-> bb[c]], NEW us \in Colours, NEW m
  PROVE  FlipColours(bb, us, m)
         = [c \in Colours |-> Xor(bb[c], IF c = us THEN OwnFlips(us, m) ELSE TheirFlips(m))]
<1> DEFINE fl == [c \in Colours |->
                    Xor(bb[c], IF c = us THEN OwnFlips(us, m) ELSE TheirFlips(m))]
<1>1. Other(us) \in Colours /\ Other(us) # us /\ \A c \in Colours : c = us \/ c = Other(us)
  BY DEF Colours, Other
<1>2. CASE is_castle(m)
  <2>1. ~is_capture(m) /\ m.type # "EN_PASSENT"
    BY <1>2 DEF is_castle, is_capture
  <2>2. TheirFlips(m) = {}
    BY <2>1 DEF TheirFlips
  <2>3. FlipColours(bb, us, m)
        = [bb EXCEPT ![us] = Xor(Xor(@, {m.origin, m.target}),
                                 rook_from_to(us, get_castleside(m)))]
    BY <1>2, <2>1 DEF FlipColours
  <2>4. OwnFlips(us, m) = Xor({m.origin, m.target}, rook_from_to(us, get_castleside(m)))
    BY <1>2 DEF OwnFlips
  <2>5. Xor(Xor(bb[us], {m.origin, m.target}), rook_from_to(us, get_castleside(m)))
        = Xor(bb[us], OwnFlips(us, m))
    BY <2>4, Flips
  <2>6. FlipColours(bb, us, m) = [bb EXCEPT ![us] = Xor(@, OwnFlips(us, m))]
    BY <2>3, <2>5
  <2> QED  BY <1>1, <2>2, <2>6, Flips
<1>3. CASE m.type = "EN_PASSENT"
  <2>1. ~is_castle(m)
    BY <1>3 DEF is_castle
  <2>2. TheirFlips(m) = {CapturedSquare(m)} /\ OwnFlips(us, m) = {m.origin, m.target}
    BY <1>3, <2>1 DEF TheirFlips, OwnFlips
  <2>3. FlipColours(bb, us, m)
        = [bb EXCEPT ![us] = Xor(@, {m.origin, m.target}),
                     ![Other(us)] = Xor(@, {CapturedSquare(m)})]
    BY <1>3, <2>1 DEF FlipColours
  <2> QED  BY <1>1, <2>2, <2>3
<1>4. CASE is_capture(m) /\ m.type # "EN_PASSENT"
  <2>1. ~is_castle(m)
    BY <1>4 DEF is_castle, is_capture
  <2>2. TheirFlips(m) = {m.target} /\ OwnFlips(us, m) = {m.origin, m.target}
    BY <1>4, <2>1 DEF TheirFlips, OwnFlips
  <2>3. FlipColours(bb, us, m)
        = [bb EXCEPT ![us] = Xor(@, {m.origin, m.target}), ![Other(us)] = Xor(@, {m.target})]
    BY <1>4, <2>1 DEF FlipColours
  <2> QED  BY <1>1, <2>2, <2>3
<1>5. CASE ~is_castle(m) /\ m.type # "EN_PASSENT" /\ ~is_capture(m)
  <2>1. TheirFlips(m) = {} /\ OwnFlips(us, m) = {m.origin, m.target}
    BY <1>5 DEF TheirFlips, OwnFlips
  <2>2. FlipColours(bb, us, m) = [bb EXCEPT ![us] = Xor(@, {m.origin, m.target})]
    BY <1>5 DEF FlipColours
  <2> QED  BY <1>1, <2>1, <2>2, Flips
<1> QED  BY <1>2, <1>3, <1>4, <1>5

\* Every square of a colour comes back.
LEMMA ColoursBack ==
  ASSUME NEW bb \in [Colours -> SUBSET Sq], NEW us \in Colours, NEW m
  PROVE  FlipColours(FlipColours(bb, us, m), us, m) = bb
<1> DEFINE d == [c \in Colours |-> IF c = us THEN OwnFlips(us, m) ELSE TheirFlips(m)]
           once == [c \in Colours |-> Xor(bb[c], d[c])]
<1>1. FlipColours(bb, us, m) = once
  BY ColoursFlipped
<1>2. once = [c \in Colours |-> once[c]]
  OBVIOUS
<1>3. FlipColours(once, us, m) = [c \in Colours |-> Xor(once[c], d[c])]
  <2> HIDE DEF once
  <2> QED  BY <1>2, ColoursFlipped
<1>4. \A c \in Colours : Xor(once[c], d[c]) = bb[c]
  BY Flips
<1> QED  BY <1>1, <1>3, <1>4

MovedFlips(m, p) == IF p = m.moving_piece THEN {m.origin, m.target} ELSE {}
TakenFlips(us, m, p) ==
    CASE is_castle(m) -> IF p = "ROOK" THEN rook_from_to(us, get_castleside(m)) ELSE {}
      [] m.type = "EN_PASSENT" -> IF p = "PAWN" THEN {CapturedSquare(m)} ELSE {}
      [] is_capture(m) /\ m.type # "EN_PASSENT" ->
           IF p = m.captured_piece THEN {m.target} ELSE {}
      [] OTHER -> {}
PromotedFlips(m, p) ==
    IF is_promotion(m)
    THEN Xor(IF p = "PAWN" THEN {m.target} ELSE {}, IF p = m.promoted THEN {m.target} ELSE {})
    ELSE {}
PieceFlips(us, m, p) ==
    Xor(Xor(MovedFlips(m, p), TakenFlips(us, m, p)), PromotedFlips(m, p))

\* FlipPieces flips those squares of each type, one change after another, and no others.
LEMMA PiecesFlipped ==
  ASSUME NEW bb, bb = [p \in PieceTypes |-> bb[p]], NEW us \in Colours, NEW m \in MadeMoves
  PROVE  FlipPieces(bb, us, m) = [p \in PieceTypes |-> Xor(bb[p], PieceFlips(us, m, p))]
<1> DEFINE moved == [bb EXCEPT ![m.moving_piece] = Xor(@, {m.origin, m.target})]
           taken == CASE is_castle(m) ->
                           [moved EXCEPT !["ROOK"] = Xor(@, rook_from_to(us, get_castleside(m)))]
                      [] m.type = "EN_PASSENT" ->
                           [moved EXCEPT !["PAWN"] = Xor(@, {CapturedSquare(m)})]
                      [] is_capture(m) /\ m.type # "EN_PASSENT" ->
                           [moved EXCEPT ![m.captured_piece] = Xor(@, {m.target})]
                      [] OTHER -> moved
           pawn == [taken EXCEPT !["PAWN"] = Xor(@, {m.target})]
<1>1. FlipPieces(bb, us, m)
      = IF is_promotion(m) THEN [pawn EXCEPT ![m.promoted] = Xor(@, {m.target})] ELSE taken
  BY DEF FlipPieces
<1>2. moved = [p \in PieceTypes |-> Xor(bb[p], MovedFlips(m, p))]
  BY Flips DEF MovedFlips
<1>3. taken = [p \in PieceTypes |-> Xor(moved[p], TakenFlips(us, m, p))]
  <2> moved = [p \in PieceTypes |-> moved[p]]
    BY <1>2
  <2> "ROOK" \in PieceTypes /\ "PAWN" \in PieceTypes
    BY DEF PieceTypes
  <2> HIDE DEF moved
  <2>1. CASE is_castle(m)
    <3>1. ~is_capture(m) /\ m.type # "EN_PASSENT"
      BY <2>1 DEF is_castle, is_capture
    <3>2. \A p : TakenFlips(us, m, p)
                 = IF p = "ROOK" THEN rook_from_to(us, get_castleside(m)) ELSE {}
      BY <2>1, <3>1 DEF TakenFlips
    <3>3. taken = [moved EXCEPT !["ROOK"] = Xor(@, rook_from_to(us, get_castleside(m)))]
      BY <2>1, <3>1
    <3> QED  BY <3>2, <3>3, Flips
  <2>2. CASE m.type = "EN_PASSENT"
    <3>1. ~is_castle(m)
      BY <2>2 DEF is_castle
    <3>2. \A p : TakenFlips(us, m, p) = IF p = "PAWN" THEN {CapturedSquare(m)} ELSE {}
      BY <2>2, <3>1 DEF TakenFlips
    <3>3. taken = [moved EXCEPT !["PAWN"] = Xor(@, {CapturedSquare(m)})]
      BY <2>2, <3>1
    <3> QED  BY <3>2, <3>3, Flips
  <2>3. CASE is_capture(m) /\ m.type # "EN_PASSENT"
    <3>1. ~is_castle(m)
      BY <2>3 DEF is_castle, is_capture
    <3>2. \A p : TakenFlips(us, m, p) = IF p = m.captured_piece THEN {m.target} ELSE {}
      BY <2>3, <3>1 DEF TakenFlips
    <3>3. taken = [moved EXCEPT ![m.captured_piece] = Xor(@, {m.target})]
      BY <2>3, <3>1
    <3> QED  BY <3>2, <3>3, Flips
  <2>4. CASE ~is_castle(m) /\ m.type # "EN_PASSENT" /\ ~is_capture(m)
    <3>1. \A p : TakenFlips(us, m, p) = {}
      BY <2>4 DEF TakenFlips
    <3>2. taken = moved
      BY <2>4
    <3> QED  BY <3>1, <3>2, Flips
  <2> QED  BY <2>1, <2>2, <2>3, <2>4
<1>4. FlipPieces(bb, us, m) = [p \in PieceTypes |-> Xor(taken[p], PromotedFlips(m, p))]
  <2> taken = [p \in PieceTypes |-> taken[p]]
    BY <1>3
  <2> HIDE DEF taken
  <2>1. CASE is_promotion(m)
    <3>1. m.promoted \in PieceTypes /\ "PAWN" \in PieceTypes
      BY <2>1 DEF MadeMoves, PieceTypes
    <3>2. \A p : Xor(taken[p], PromotedFlips(m, p))
                 = Xor(Xor(taken[p], IF p = "PAWN" THEN {m.target} ELSE {}),
                       IF p = m.promoted THEN {m.target} ELSE {})
      BY <2>1, Flips DEF PromotedFlips
    <3>3. FlipPieces(bb, us, m) = [pawn EXCEPT ![m.promoted] = Xor(@, {m.target})]
      BY <1>1, <2>1
    <3>4. pawn = [p \in PieceTypes |-> Xor(taken[p], IF p = "PAWN" THEN {m.target} ELSE {})]
      BY <3>1, Flips
    <3> HIDE DEF pawn
    <3>5. [pawn EXCEPT ![m.promoted] = Xor(@, {m.target})]
          = [p \in PieceTypes |-> Xor(pawn[p], IF p = m.promoted THEN {m.target} ELSE {})]
      BY <3>1, <3>4, Flips
    <3>6. \A p \in PieceTypes :
             Xor(pawn[p], IF p = m.promoted THEN {m.target} ELSE {})
             = Xor(taken[p], PromotedFlips(m, p))
      BY <3>2, <3>4
    <3> QED  BY <3>3, <3>5, <3>6
  <2>2. CASE ~is_promotion(m)
    BY <1>1, <2>2, Flips DEF PromotedFlips
  <2> QED  BY <2>1, <2>2
<1>5. \A p \in PieceTypes : Xor(taken[p], PromotedFlips(m, p)) = Xor(bb[p], PieceFlips(us, m, p))
  <2> HIDE DEF moved, taken
  <2> QED  BY <1>2, <1>3, Flips DEF PieceFlips
<1> HIDE DEF moved, taken
<1> QED  BY <1>4, <1>5

\* Every piece of every type comes back.
LEMMA PiecesBack ==
  ASSUME NEW bb \in [PieceTypes -> SUBSET Sq], NEW us \in Colours, NEW m \in MadeMoves
  PROVE  FlipPieces(FlipPieces(bb, us, m), us, m) = bb
<1> DEFINE once == [p \in PieceTypes |-> Xor(bb[p], PieceFlips(us, m, p))]
<1>1. FlipPieces(bb, us, m) = once
  BY PiecesFlipped
<1>2. once = [p \in PieceTypes |-> once[p]]
  OBVIOUS
<1>3. FlipPieces(once, us, m) = [p \in PieceTypes |-> Xor(once[p], PieceFlips(us, m, p))]
  <2> HIDE DEF once
  <2> QED  BY <1>2, PiecesFlipped
<1>4. \A p \in PieceTypes : Xor(once[p], PieceFlips(us, m, p)) = bb[p]
  BY Flips
<1> QED  BY <1>1, <1>3, <1>4

-----------------------------------------------------------------------------
\* How much a move takes from, and a promotion adds to, the count of a piece.
TakenOf(them, m, c, p) ==
    IF is_capture(m) /\ c = them /\ p = m.captured_piece THEN 1 ELSE 0
GainOf(us, m, c, p) ==
    (IF is_promotion(m) /\ c = us /\ p = m.promoted THEN 1 ELSE 0)
    - (IF is_promotion(m) /\ c = us /\ p = "PAWN" THEN 1 ELSE 0)

Counts == [Colours -> [PieceTypes -> Int]]

\* One counter set, with the others left as they are.
SetCount(counts, c, p, v) == [counts EXCEPT ![c][p] = v]

\* Setting one counter changes that one.
LEMMA OneSet ==
  \A counts \in Counts, c0 \in Colours, p0 \in PieceTypes, v \in Int :
     /\ SetCount(counts, c0, p0, v) \in Counts
     /\ \A c \in Colours, p \in PieceTypes :
          SetCount(counts, c0, p0, v)[c][p] = IF c = c0 /\ p = p0 THEN v ELSE counts[c][p]
BY DEF Counts, SetCount

\* Two tables of counters are the same if they hold the same numbers.
LEMMA SameCounts ==
  ASSUME NEW x \in Counts, NEW y \in Counts,
         \A c \in Colours, p \in PieceTypes : x[c][p] = y[c][p]
  PROVE  x = y
<1>1. ASSUME NEW c \in Colours PROVE x[c] = y[c]
  <2>1. x[c] \in [PieceTypes -> Int] /\ y[c] \in [PieceTypes -> Int]
    BY DEF Counts
  <2> QED  BY <2>1
<1> QED  BY <1>1 DEF Counts

\* CountCaptured and UncountCaptured move the counter of what is captured by one.
LEMMA TakenCounted ==
  ASSUME NEW counts \in Counts, NEW them \in Colours, NEW m \in MadeMoves
  PROVE  /\ CountCaptured(counts, them, m) \in Counts
         /\ UncountCaptured(counts, them, m) \in Counts
         /\ \A c \in Colours, p \in PieceTypes :
              /\ CountCaptured(counts, them, m)[c][p] = counts[c][p] - TakenOf(them, m, c, p)
              /\ UncountCaptured(counts, them, m)[c][p] = counts[c][p] + TakenOf(them, m, c, p)
<1>1. \A c \in Colours, p \in PieceTypes : counts[c][p] \in Int
  BY DEF Counts
<1>2. CASE is_capture(m)
  <2>1. m.captured_piece \in PieceTypes
    BY <1>2 DEF MadeMoves
  <2>2. \A c, p : TakenOf(them, m, c, p) = IF c = them /\ p = m.captured_piece THEN 1 ELSE 0
    BY <1>2 DEF TakenOf
  <2> DEFINE old == counts[them][m.captured_piece]
             low == old - 1
             high == old + 1
  <2>3. CountCaptured(counts, them, m) = SetCount(counts, them, m.captured_piece, low)
    BY <1>2 DEF CountCaptured, SetCount
  <2>4. UncountCaptured(counts, them, m) = SetCount(counts, them, m.captured_piece, high)
    BY <1>2 DEF UncountCaptured, SetCount
  <2>5. /\ low \in Int /\ high \in Int
        /\ low = counts[them][m.captured_piece] - 1
        /\ high = counts[them][m.captured_piece] + 1
    BY <1>1, <2>1
  <2> HIDE DEF old, low, high
  <2>6. /\ CountCaptured(counts, them, m) \in Counts
        /\ \A c \in Colours, p \in PieceTypes :
             CountCaptured(counts, them, m)[c][p]
             = IF c = them /\ p = m.captured_piece THEN low ELSE counts[c][p]
    <3>1. counts \in Counts /\ low \in Int
      BY <2>5
    <3>2. /\ SetCount(counts, them, m.captured_piece, low) \in Counts
          /\ \A c \in Colours, p \in PieceTypes :
               SetCount(counts, them, m.captured_piece, low)[c][p]
               = IF c = them /\ p = m.captured_piece THEN low ELSE counts[c][p]
      BY <2>1, <3>1, OneSet
    <3> QED  BY <2>3, <3>2
  <2>7. /\ UncountCaptured(counts, them, m) \in Counts
        /\ \A c \in Colours, p \in PieceTypes :
             UncountCaptured(counts, them, m)[c][p]
             = IF c = them /\ p = m.captured_piece THEN high ELSE counts[c][p]
    <3>1. counts \in Counts /\ high \in Int
      BY <2>5
    <3>2. /\ SetCount(counts, them, m.captured_piece, high) \in Counts
          /\ \A c \in Colours, p \in PieceTypes :
               SetCount(counts, them, m.captured_piece, high)[c][p]
               = IF c = them /\ p = m.captured_piece THEN high ELSE counts[c][p]
      BY <2>1, <3>1, OneSet
    <3> QED  BY <2>4, <3>2
  <2>8. ASSUME NEW c \in Colours, NEW p \in PieceTypes
        PROVE  /\ CountCaptured(counts, them, m)[c][p] = counts[c][p] - TakenOf(them, m, c, p)
               /\ UncountCaptured(counts, them, m)[c][p] = counts[c][p] + TakenOf(them, m, c, p)
    <3>1. CASE c = them /\ p = m.captured_piece
      BY <1>1, <2>2, <2>5, <2>6, <2>7, <3>1
    <3>2. CASE ~(c = them /\ p = m.captured_piece)
      BY <1>1, <2>2, <2>6, <2>7, <3>2
    <3> QED  BY <3>1, <3>2
  <2> QED  BY <2>6, <2>7, <2>8
<1>3. CASE ~is_capture(m)
  <2>1. \A c, p : TakenOf(them, m, c, p) = 0
    BY <1>3 DEF TakenOf
  <2>2. CountCaptured(counts, them, m) = counts /\ UncountCaptured(counts, them, m) = counts
    BY <1>3 DEF CountCaptured, UncountCaptured
  <2> QED  BY <1>1, <2>1, <2>2
<1> QED  BY <1>2, <1>3

\* CountPromoted and UncountPromoted move those of the pawn and of what it becomes.
LEMMA GainCounted ==
  ASSUME NEW counts \in Counts, NEW us \in Colours, NEW m \in MadeMoves
  PROVE  /\ CountPromoted(counts, us, m) \in Counts
         /\ UncountPromoted(counts, us, m) \in Counts
         /\ \A c \in Colours, p \in PieceTypes :
              /\ CountPromoted(counts, us, m)[c][p] = counts[c][p] + GainOf(us, m, c, p)
              /\ UncountPromoted(counts, us, m)[c][p] = counts[c][p] - GainOf(us, m, c, p)
<1>1. \A c \in Colours, p \in PieceTypes : counts[c][p] \in Int
  BY DEF Counts
<1>2. CASE is_promotion(m)
  <2>1. m.promoted \in PieceTypes /\ "PAWN" \in PieceTypes
    BY <1>2 DEF MadeMoves, PieceTypes
  <2>2. \A c, p : GainOf(us, m, c, p)
                = (IF c = us /\ p = m.promoted THEN 1 ELSE 0)
                  - (IF c = us /\ p = "PAWN" THEN 1 ELSE 0)
    BY <1>2 DEF GainOf
  <2> DEFINE low == counts[us]["PAWN"] - 1
             high == counts[us]["PAWN"] + 1
             less == SetCount(counts, us, "PAWN", low)
             more == SetCount(counts, us, "PAWN", high)
             gained == less[us][m.promoted] + 1
             lost == more[us][m.promoted] - 1
  <2>3. CountPromoted(counts, us, m) = SetCount(less, us, m.promoted, gained)
    BY <1>2 DEF CountPromoted, SetCount
  <2>4. UncountPromoted(counts, us, m) = SetCount(more, us, m.promoted, lost)
    BY <1>2 DEF UncountPromoted, SetCount
  <2>5. /\ low \in Int /\ high \in Int
        /\ low = counts[us]["PAWN"] - 1 /\ high = counts[us]["PAWN"] + 1
    BY <1>1, <2>1
  <2> HIDE DEF low, high
  <2>6. /\ less \in Counts
        /\ \A c \in Colours, p \in PieceTypes :
             less[c][p] = IF c = us /\ p = "PAWN" THEN low ELSE counts[c][p]
    <3>1. "PAWN" \in PieceTypes /\ low \in Int
      BY <2>1, <2>5
    <3>2. /\ SetCount(counts, us, "PAWN", low) \in Counts
          /\ \A c \in Colours, p \in PieceTypes :
               SetCount(counts, us, "PAWN", low)[c][p]
               = IF c = us /\ p = "PAWN" THEN low ELSE counts[c][p]
      BY <3>1, OneSet
    <3> QED  BY <3>2
  <2>7. /\ more \in Counts
        /\ \A c \in Colours, p \in PieceTypes :
             more[c][p] = IF c = us /\ p = "PAWN" THEN high ELSE counts[c][p]
    <3>1. "PAWN" \in PieceTypes /\ high \in Int
      BY <2>1, <2>5
    <3>2. /\ SetCount(counts, us, "PAWN", high) \in Counts
          /\ \A c \in Colours, p \in PieceTypes :
               SetCount(counts, us, "PAWN", high)[c][p]
               = IF c = us /\ p = "PAWN" THEN high ELSE counts[c][p]
      BY <3>1, OneSet
    <3> QED  BY <3>2
  <2> HIDE DEF less, more
  <2>8. /\ gained \in Int /\ lost \in Int
        /\ gained = less[us][m.promoted] + 1 /\ lost = more[us][m.promoted] - 1
    BY <2>1, <2>6, <2>7 DEF Counts
  <2> HIDE DEF gained, lost
  <2>9. /\ CountPromoted(counts, us, m) \in Counts
        /\ \A c \in Colours, p \in PieceTypes :
             CountPromoted(counts, us, m)[c][p]
             = IF c = us /\ p = m.promoted THEN gained ELSE less[c][p]
    <3>1. less \in Counts /\ gained \in Int
      BY <2>8, <2>6
    <3>2. /\ SetCount(less, us, m.promoted, gained) \in Counts
          /\ \A c \in Colours, p \in PieceTypes :
               SetCount(less, us, m.promoted, gained)[c][p]
               = IF c = us /\ p = m.promoted THEN gained ELSE less[c][p]
      BY <2>1, <3>1, OneSet
    <3> QED  BY <2>3, <3>2
  <2>10. /\ UncountPromoted(counts, us, m) \in Counts
         /\ \A c \in Colours, p \in PieceTypes :
              UncountPromoted(counts, us, m)[c][p]
              = IF c = us /\ p = m.promoted THEN lost ELSE more[c][p]
    <3>1. more \in Counts /\ lost \in Int
      BY <2>8, <2>7
    <3>2. /\ SetCount(more, us, m.promoted, lost) \in Counts
          /\ \A c \in Colours, p \in PieceTypes :
               SetCount(more, us, m.promoted, lost)[c][p]
               = IF c = us /\ p = m.promoted THEN lost ELSE more[c][p]
      BY <2>1, <3>1, OneSet
    <3> QED  BY <2>4, <3>2
  <2>11. ASSUME NEW c \in Colours, NEW p \in PieceTypes
         PROVE  /\ CountPromoted(counts, us, m)[c][p] = counts[c][p] + GainOf(us, m, c, p)
                /\ UncountPromoted(counts, us, m)[c][p] = counts[c][p] - GainOf(us, m, c, p)
    <3>1. CASE c = us /\ p = "PAWN" /\ p # m.promoted
      BY <1>1, <2>2, <2>5, <2>6, <2>7, <2>9, <2>10, <3>1
    <3>2. CASE c = us /\ p = m.promoted /\ p # "PAWN"
      BY <1>1, <2>1, <2>2, <2>6, <2>7, <2>8, <2>9, <2>10, <3>2
    <3>3. CASE c = us /\ p = m.promoted /\ p = "PAWN"
      BY <1>1, <2>1, <2>2, <2>5, <2>6, <2>7, <2>8, <2>9, <2>10, <3>3
    <3>4. CASE c # us \/ (p # "PAWN" /\ p # m.promoted)
      BY <1>1, <2>2, <2>6, <2>7, <2>9, <2>10, <3>4
    <3> QED  BY <3>1, <3>2, <3>3, <3>4
  <2> QED  BY <2>9, <2>10, <2>11
<1>3. CASE ~is_promotion(m)
  <2>1. \A c, p : GainOf(us, m, c, p) = 0
    BY <1>3 DEF GainOf
  <2>2. CountPromoted(counts, us, m) = counts /\ UncountPromoted(counts, us, m) = counts
    BY <1>3 DEF CountPromoted, UncountPromoted
  <2> QED  BY <1>1, <2>1, <2>2
<1> QED  BY <1>2, <1>3

\* Every counter comes back.
LEMMA CountsBack ==
  ASSUME NEW counts \in Counts, NEW us \in Colours, NEW them \in Colours, NEW m \in MadeMoves
  PROVE  UncountPromoted(UncountCaptured(
           CountPromoted(CountCaptured(counts, them, m), us, m), them, m), us, m) = counts
<1> DEFINE c1 == CountCaptured(counts, them, m)
           c2 == CountPromoted(c1, us, m)
           c3 == UncountCaptured(c2, them, m)
           c4 == UncountPromoted(c3, us, m)
<1>1. \A c, p : TakenOf(them, m, c, p) \in Int /\ GainOf(us, m, c, p) \in Int
  BY DEF TakenOf, GainOf
<1>2. c1 \in Counts /\ \A c \in Colours, p \in PieceTypes :
                        c1[c][p] = counts[c][p] - TakenOf(them, m, c, p)
  BY <1>1, TakenCounted DEF Counts
<1>3. c2 \in Counts /\ \A c \in Colours, p \in PieceTypes :
                        c2[c][p] = c1[c][p] + GainOf(us, m, c, p)
  <2> HIDE DEF c1
  <2> QED  BY <1>1, <1>2, GainCounted DEF Counts
<1>4. c3 \in Counts /\ \A c \in Colours, p \in PieceTypes :
                        c3[c][p] = c2[c][p] + TakenOf(them, m, c, p)
  <2> HIDE DEF c2
  <2> QED  BY <1>1, <1>3, TakenCounted DEF Counts
<1>5. c4 \in Counts /\ \A c \in Colours, p \in PieceTypes :
                        c4[c][p] = c3[c][p] - GainOf(us, m, c, p)
  <2> HIDE DEF c3
  <2> QED  BY <1>1, <1>4, GainCounted DEF Counts
<1> HIDE DEF c1, c2, c3, c4
<1>6. \A c \in Colours, p \in PieceTypes : c4[c][p] = counts[c][p]
  BY <1>1, <1>2, <1>3, <1>4, <1>5 DEF Counts
<1>7. c4 = counts
  BY <1>5, <1>6, SameCounts
<1> QED  BY <1>7 DEF c1, c2, c3, c4

\* The change to phase_material is a number: no counter is of a piece that is none.
LEMMA ChangeIsInt == ASSUME NEW m \in MadeMoves PROVE MaterialChange(m) \in Int
<1>1. \A p \in PieceTypes : piece_phase_material(p) \in Int
  BY DEF PieceTypes, piece_phase_material
<1>2. "PAWN" \in PieceTypes
  BY DEF PieceTypes
<1> QED  BY <1>1, <1>2 DEF MaterialChange, MadeMoves

-----------------------------------------------------------------------------
\* The whole of it: unmake_move undoes make_move, if the king is where the
\* board says (a king's move starts from king_square).
THEOREM UnmakeUndoesMake ==
  ASSUME NEW b \in Boards, NEW m \in MadeMoves,
         m.moving_piece = "KING" => b.king_square[b.whos_move] = m.origin
  PROVE  UnmakeBoard(MakeBoard(b, m), m) = b
<1> DEFINE us == b.whos_move
           them == Other(us)
           made == MakeBoard(b, m)
           back == UnmakeBoard(made, m)
<1>1. us \in Colours /\ them \in Colours /\ Other(them) = us
  BY DEF Boards, Colours, Other
<1>2. made.whos_move = them
  BY DEF MakeBoard
<1>3. back.colour_bb = b.colour_bb
  BY <1>1, <1>2, ColoursBack DEF MakeBoard, UnmakeBoard, Boards
<1>4. back.piece_bb = b.piece_bb
  BY <1>1, <1>2, PiecesBack DEF MakeBoard, UnmakeBoard, Boards
<1>5. back.occupied_bb = b.occupied_bb
  BY <1>1, <1>2, OccupiedBack DEF MakeBoard, UnmakeBoard, Boards
<1>6. back.piece_counts = b.piece_counts
  BY <1>1, <1>2, CountsBack DEF MakeBoard, UnmakeBoard, Boards, Counts
<1>7. back.phase_material = b.phase_material
  <2>1. MaterialChange(m) \in Int
    BY ChangeIsInt
  <2>2. b.phase_material \in Int
    BY DEF Boards
  <2>3. back.phase_material = (b.phase_material + MaterialChange(m)) - MaterialChange(m)
    BY DEF MakeBoard, UnmakeBoard
  <2> QED  BY <2>1, <2>2, <2>3
<1>8. back.king_square = b.king_square
  <2>1. CASE m.moving_piece = "KING"
    <3>1. back.king_square = [[b.king_square EXCEPT ![us] = m.target] EXCEPT ![us] = m.origin]
      BY <1>1, <1>2, <2>1 DEF MakeBoard, UnmakeBoard, RestoreKing
    <3> QED  BY <1>1, <2>1, <3>1 DEF Boards
  <2>2. CASE m.moving_piece # "KING"
    BY <2>2 DEF MakeBoard, UnmakeBoard, RestoreKing
  <2> QED  BY <2>1, <2>2
<1>9. back.whos_move = us
  BY <1>1, <1>2 DEF UnmakeBoard
<1>10. back.fullmove_counter = b.fullmove_counter
  <2>1. b.fullmove_counter \in Int
    BY DEF Boards
  <2>2. us = "BLACK" <=> them = "WHITE"
    BY <1>1 DEF Colours, Other
  <2>3. back.fullmove_counter = (b.fullmove_counter + (IF us = "BLACK" THEN 1 ELSE 0))
                                - (IF them = "WHITE" THEN 1 ELSE 0)
    BY <1>2 DEF MakeBoard, UnmakeBoard
  <2> QED  BY <2>1, <2>2, <2>3
<1>11. back = [colour_bb |-> back.colour_bb, piece_bb |-> back.piece_bb,
               occupied_bb |-> back.occupied_bb, piece_counts |-> back.piece_counts,
               phase_material |-> back.phase_material, king_square |-> back.king_square,
               whos_move |-> back.whos_move, fullmove_counter |-> back.fullmove_counter]
  BY DEF UnmakeBoard
<1>12. b = [colour_bb |-> b.colour_bb, piece_bb |-> b.piece_bb,
            occupied_bb |-> b.occupied_bb, piece_counts |-> b.piece_counts,
            phase_material |-> b.phase_material, king_square |-> b.king_square,
            whos_move |-> b.whos_move, fullmove_counter |-> b.fullmove_counter]
  BY DEF Boards
<1> HIDE DEF back
<1>13. back = b
  BY <1>3, <1>4, <1>5, <1>6, <1>7, <1>8, <1>9, <1>10, <1>11, <1>12
<1> QED  BY <1>13 DEF back

\* A pass is taken back too.
THEOREM UnnullUndoesNull ==
  ASSUME NEW b \in Boards
  PROVE  UnnullBoard(NullBoard(b)) = b
<1> DEFINE us == b.whos_move
           them == Other(us)
           next == b.fullmove_counter + (IF us = "BLACK" THEN 1 ELSE 0)
           prior == next - (IF them = "WHITE" THEN 1 ELSE 0)
<1>1. us \in Colours /\ b.fullmove_counter \in Int
  BY DEF Boards
<1>2. Other(them) = us /\ (them = "WHITE" <=> us = "BLACK")
  BY <1>1 DEF Colours, Other
<1>3. prior = b.fullmove_counter
  BY <1>1, <1>2
<1>4. NullBoard(b) = [b EXCEPT !.whos_move = them, !.fullmove_counter = next]
  BY DEF NullBoard
<1> HIDE DEF them, next
<1>5. NullBoard(b).whos_move = them /\ NullBoard(b).fullmove_counter = next
  BY <1>4 DEF Boards
<1>6. UnnullBoard(NullBoard(b))
      = [NullBoard(b) EXCEPT !.whos_move = Other(them), !.fullmove_counter = prior]
  BY <1>5 DEF UnnullBoard
<1> HIDE DEF prior, us
<1>7. UnnullBoard(NullBoard(b)) = [b EXCEPT !.whos_move = us, !.fullmove_counter = prior]
  BY <1>2, <1>4, <1>6 DEF Boards
<1> QED  BY <1>3, <1>7 DEF Boards, us

-----------------------------------------------------------------------------
\* Each occupied square is of one colour and one type.
Views(b) ==
    /\ b.occupied_bb = b.colour_bb["WHITE"] \cup b.colour_bb["BLACK"]
    /\ b.colour_bb["WHITE"] \cap b.colour_bb["BLACK"] = {}
    /\ UNION {b.piece_bb[p] : p \in PieceTypes} = b.occupied_bb
    /\ \A p, q \in PieceTypes : p # q => b.piece_bb[p] \cap b.piece_bb[q] = {}

Home(us, m) == RookSquares(us, get_castleside(m))
Castled(us, m) == RookCastleSquares(us, get_castleside(m))
TakenSquare(m) == IF m.type = "EN_PASSENT" THEN CapturedSquare(m) ELSE m.target
Becomes(m) == IF is_promotion(m) THEN m.promoted ELSE m.moving_piece

\* What make_move takes for granted of a move, its captured piece filled in: the mover
\* stands at the origin, what is captured is there and is no king, and the squares it
\* comes to are otherwise empty.
Playable(b, m) ==
    LET us == b.whos_move
        them == Other(us)
    IN /\ m \in MadeMoves
       /\ m.origin \in pieces(b, us, m.moving_piece)
       /\ is_capture(m) =>
            /\ TakenSquare(m) \in pieces(b, them, m.captured_piece)
            /\ m.captured_piece # "KING"
       /\ m.type = "EN_PASSENT" => m.captured_piece = "PAWN" /\ m.moving_piece = "PAWN"
       /\ ~is_capture(m) \/ m.type = "EN_PASSENT" => m.target \notin b.occupied_bb
       /\ is_promotion(m) => m.moving_piece = "PAWN" /\ m.promoted \in PieceTypes \ {"PAWN", "KING"}
       /\ is_castle(m) =>
            /\ m.moving_piece = "KING" /\ m.origin = KingSquare(us)
            /\ m.target = KingCastleSquare(us, get_castleside(m))
            /\ Home(us, m) \in pieces(b, us, "ROOK")
            /\ Castled(us, m) \notin b.occupied_bb

\* The squares a move empties and fills, by colour and type.
OwnLeft(us, m) == {m.origin} \cup (IF is_castle(m) THEN {Home(us, m)} ELSE {})
OwnFilled(us, m) == {m.target} \cup (IF is_castle(m) THEN {Castled(us, m)} ELSE {})
TheirsLost(m) == IF is_capture(m) THEN {TakenSquare(m)} ELSE {}
Left(us, m, c, p) ==
    IF c = us
    THEN (IF p = m.moving_piece THEN {m.origin} ELSE {})
         \cup (IF is_castle(m) /\ p = "ROOK" THEN {Home(us, m)} ELSE {})
    ELSE IF is_capture(m) /\ p = m.captured_piece THEN {TakenSquare(m)} ELSE {}
Filled(us, m, c, p) ==
    IF c = us
    THEN (IF p = Becomes(m) THEN {m.target} ELSE {})
         \cup (IF is_castle(m) /\ p = "ROOK" THEN {Castled(us, m)} ELSE {})
    ELSE {}

\* What make_move's exclusive ors come to.
LEMMA MadeBoard ==
  ASSUME NEW b \in Boards, Views(b), NEW m, Playable(b, m)
  PROVE  LET us == b.whos_move
             them == Other(us)
             made == MakeBoard(b, m)
         IN /\ made \in Boards
            /\ Views(made)
            /\ made.colour_bb[us] = (b.colour_bb[us] \ OwnLeft(us, m)) \cup OwnFilled(us, m)
            /\ made.colour_bb[them] = b.colour_bb[them] \ TheirsLost(m)
            /\ made.occupied_bb = (b.occupied_bb \ (OwnLeft(us, m) \cup TheirsLost(m)))
                                  \cup OwnFilled(us, m)
            /\ m.origin # m.target /\ OwnFilled(us, m) \cap b.colour_bb[us] = {}
            /\ \A c \in Colours, p \in PieceTypes :
                  /\ pieces(made, c, p)
                     = (pieces(b, c, p) \ Left(us, m, c, p)) \cup Filled(us, m, c, p)
                  /\ Left(us, m, c, p) \subseteq pieces(b, c, p)
                  /\ Filled(us, m, c, p) \cap pieces(b, c, p) = {}
<1> DEFINE us == b.whos_move
           them == Other(us)
           made == MakeBoard(b, m)
           o == m.origin
           t == m.target
           x == TakenSquare(m)
<1>1. us \in Colours /\ them \in Colours /\ them # us /\ \A c \in Colours : c = us \/ c = them
  BY DEF Boards, Colours, Other
<1>2. /\ m \in MadeMoves /\ m.moving_piece \in PieceTypes /\ o \in Sq /\ t \in Sq
      /\ o \in b.colour_bb[us] /\ o \in b.piece_bb[m.moving_piece]
  BY DEF Playable, MadeMoves, pieces
<1>3. /\ b.occupied_bb = b.colour_bb[us] \cup b.colour_bb[them]
      /\ b.colour_bb[us] \cap b.colour_bb[them] = {}
      /\ \A s : s \in b.occupied_bb <=> \E p \in PieceTypes : s \in b.piece_bb[p]
      /\ \A p, q \in PieceTypes : \A s : s \in b.piece_bb[p] /\ s \in b.piece_bb[q] => p = q
  BY <1>1 DEF Views, Colours
<1>4. /\ b.colour_bb \in [Colours -> SUBSET Sq] /\ b.piece_bb \in [PieceTypes -> SUBSET Sq]
      /\ b.occupied_bb \subseteq Sq
  BY DEF Boards
<1>5. /\ \A c \in Colours : made.colour_bb[c]
             = Xor(b.colour_bb[c], IF c = us THEN OwnFlips(us, m) ELSE TheirFlips(m))
      /\ \A p \in PieceTypes : made.piece_bb[p] = Xor(b.piece_bb[p], PieceFlips(us, m, p))
      /\ made.occupied_bb = Xor(b.occupied_bb, OccupiedFlips(us, m))
      /\ made.colour_bb = [c \in Colours |-> made.colour_bb[c]]
      /\ made.piece_bb = [p \in PieceTypes |-> made.piece_bb[p]]
  <2>1. /\ made.colour_bb = FlipColours(b.colour_bb, us, m)
        /\ made.piece_bb = FlipPieces(b.piece_bb, us, m)
        /\ made.occupied_bb = FlipOccupied(b.occupied_bb, us, m)
    BY DEF MakeBoard
  <2> HIDE DEF made, us
  <2>2. FlipColours(b.colour_bb, us, m)
        = [c \in Colours |-> Xor(b.colour_bb[c], IF c = us THEN OwnFlips(us, m) ELSE TheirFlips(m))]
    BY <1>1, <1>4, ColoursFlipped
  <2>3. FlipPieces(b.piece_bb, us, m)
        = [p \in PieceTypes |-> Xor(b.piece_bb[p], PieceFlips(us, m, p))]
    BY <1>1, <1>2, <1>4, PiecesFlipped
  <2>4. FlipOccupied(b.occupied_bb, us, m) = Xor(b.occupied_bb, OccupiedFlips(us, m))
    BY OccupiedBack
  <2> QED BY <2>1, <2>2, <2>3, <2>4
<1>6. t \notin b.colour_bb[us] /\ o # t /\ (is_capture(m) => x \in b.colour_bb[them] /\ x # o)
  BY <1>2, <1>3 DEF Playable, pieces, TakenSquare
<1> DEFINE
      Shape == /\ made.colour_bb[us] = (b.colour_bb[us] \ OwnLeft(us, m)) \cup OwnFilled(us, m)
               /\ made.colour_bb[them] = b.colour_bb[them] \ TheirsLost(m)
               /\ made.occupied_bb = (b.occupied_bb \ (OwnLeft(us, m) \cup TheirsLost(m)))
                                     \cup OwnFilled(us, m)
               /\ \A p \in PieceTypes :
                    made.piece_bb[p]
                    = (b.piece_bb[p] \ (Left(us, m, us, p) \cup Left(us, m, them, p)))
                      \cup Filled(us, m, us, p)
<1>7. Shape
  <2>1. CASE is_castle(m)
    <3> DEFINE h == Home(us, m)
               r == Castled(us, m)
    <3>1. ~is_capture(m) /\ ~is_promotion(m) /\ m.type # "EN_PASSENT"
      BY <2>1 DEF is_castle, is_capture, is_promotion
    <3>2. /\ m.moving_piece = "KING" /\ t \notin b.occupied_bb /\ r \notin b.occupied_bb
          /\ h \in b.colour_bb[us] /\ h \in b.piece_bb["ROOK"]
      BY <2>1, <3>1 DEF Playable, pieces
    <3>3. h # t /\ h # r /\ o # h /\ o # r /\ t # r
      BY <2>1, <1>1 DEF Playable, Home, Castled, RookSquares, RookCastleSquares, KingSquare,
         KingCastleSquare, Square, BackRank, relative_rank, get_castleside, Colours
    <3>4. rook_from_to(us, get_castleside(m)) = {h, r}
      BY DEF rook_from_to, Home, Castled
    <3> HIDE DEF h, r
    <3>5. OwnFlips(us, m) = {o, t, h, r} /\ TheirFlips(m) = {} /\ OccupiedFlips(us, m) = {o, t, h, r}
      BY <2>1, <3>1, <3>3, <3>4 DEF OwnFlips, TheirFlips, OccupiedFlips, Xor
    <3>6. OwnLeft(us, m) = {o, h} /\ OwnFilled(us, m) = {t, r} /\ TheirsLost(m) = {}
      BY <2>1, <3>1 DEF OwnLeft, OwnFilled, TheirsLost, h, r
    <3>7. \A p \in PieceTypes :
            PieceFlips(us, m, p) = IF p = "KING" THEN {o, t} ELSE IF p = "ROOK" THEN {h, r} ELSE {}
      BY <2>1, <3>1, <3>2, <3>4 DEF PieceFlips, MovedFlips, TakenFlips, PromotedFlips, Xor
    <3>8. \A p \in PieceTypes :
            /\ Left(us, m, us, p) = IF p = "KING" THEN {o} ELSE IF p = "ROOK" THEN {h} ELSE {}
            /\ Left(us, m, them, p) = {}
            /\ Filled(us, m, us, p) = IF p = "KING" THEN {t} ELSE IF p = "ROOK" THEN {r} ELSE {}
      BY <1>1, <2>1, <3>1, <3>2 DEF Left, Filled, Becomes, h, r
    <3>9. made.colour_bb[us] = (b.colour_bb[us] \ {o, h}) \cup {t, r}
      <4>1. made.colour_bb[us] = Xor(b.colour_bb[us], {o, t, h, r})
        BY <1>1, <1>5, <3>5
      <4>2. t \notin b.colour_bb[us] /\ r \notin b.colour_bb[us]
        BY <1>3, <3>2
      <4> HIDE DEF made, us
      <4> QED BY <1>2, <3>2, <4>1, <4>2 DEF Xor
    <3>10. made.colour_bb[them] = b.colour_bb[them]
      <4>1. made.colour_bb[them] = Xor(b.colour_bb[them], {})
        BY <1>1, <1>5, <3>5
      <4> QED BY <4>1, Flips
    <3>11. made.occupied_bb = (b.occupied_bb \ {o, h}) \cup {t, r}
      BY <1>2, <1>3, <1>5, <3>2, <3>5 DEF Xor
    <3>12. ASSUME NEW p \in PieceTypes
           PROVE  made.piece_bb[p] = (b.piece_bb[p] \ (Left(us, m, us, p) \cup Left(us, m, them, p)))
                                     \cup Filled(us, m, us, p)
      <4>1. made.piece_bb[p] = Xor(b.piece_bb[p], PieceFlips(us, m, p))
        BY <1>5
      <4>2. t \notin b.piece_bb[p] /\ r \notin b.piece_bb[p]
        BY <1>3, <3>2
      <4>3. CASE p = "KING"
        BY <1>2, <3>2, <3>7, <3>8, <4>1, <4>2, <4>3 DEF Xor
      <4>4. CASE p = "ROOK"
        BY <3>2, <3>7, <3>8, <4>1, <4>2, <4>4 DEF Xor
      <4>5. CASE p # "KING" /\ p # "ROOK"
        BY <3>7, <3>8, <4>1, <4>5 DEF Xor
      <4> QED BY <4>3, <4>4, <4>5
    <3> QED BY <3>6, <3>9, <3>10, <3>11, <3>12
  <2>2. CASE ~is_castle(m) /\ is_capture(m)
    <3>1. /\ x \in b.colour_bb[them] /\ x \in b.piece_bb[m.captured_piece] /\ x # o
          /\ m.captured_piece \in PieceTypes
      BY <2>2, <1>6 DEF Playable, pieces, MadeMoves
    <3>2. /\ OwnFlips(us, m) = {o, t} /\ TheirFlips(m) = {x}
          /\ OccupiedFlips(us, m) = IF m.type = "EN_PASSENT" THEN Xor({o, t}, {x}) ELSE {o}
      BY <2>2 DEF OwnFlips, TheirFlips, OccupiedFlips, TakenSquare
    <3>3. OwnLeft(us, m) = {o} /\ OwnFilled(us, m) = {t} /\ TheirsLost(m) = {x}
      BY <2>2 DEF OwnLeft, OwnFilled, TheirsLost
    <3>4. m.type = "EN_PASSENT" => t \notin b.occupied_bb /\ m.captured_piece = "PAWN"
      BY DEF Playable
    <3>5. m.type # "EN_PASSENT" => x = t
      BY DEF TakenSquare
    <3>6. made.colour_bb[us] = (b.colour_bb[us] \ {o}) \cup {t}
      BY <1>1, <1>2, <1>5, <1>6, <3>2 DEF Xor
    <3>7. made.colour_bb[them] = b.colour_bb[them] \ {x}
      BY <1>1, <1>5, <3>1, <3>2 DEF Xor
    <3>8. made.occupied_bb = (b.occupied_bb \ {o, x}) \cup {t}
      BY <1>2, <1>3, <1>5, <1>6, <3>1, <3>2, <3>4, <3>5 DEF Xor
    <3>9. ASSUME NEW p \in PieceTypes
          PROVE  made.piece_bb[p] = (b.piece_bb[p] \ (Left(us, m, us, p) \cup Left(us, m, them, p)))
                                    \cup Filled(us, m, us, p)
      <4> DEFINE A == IF p = m.moving_piece THEN {o, t} ELSE {}
                 B == IF p = m.captured_piece THEN {x} ELSE {}
      <4>1. /\ MovedFlips(m, p) = A /\ TakenFlips(us, m, p) = B
            /\ Left(us, m, us, p) = IF p = m.moving_piece THEN {o} ELSE {}
            /\ Left(us, m, them, p) = B
            /\ Filled(us, m, us, p) = IF p = Becomes(m) THEN {t} ELSE {}
        BY <1>1, <2>2, <3>4 DEF MovedFlips, TakenFlips, TakenSquare, Left, Filled
      <4>2. made.piece_bb[p] = Xor(b.piece_bb[p], Xor(Xor(A, B), PromotedFlips(m, p)))
        BY <1>5, <4>1 DEF PieceFlips
      <4>3. \A q \in PieceTypes : /\ o \in b.piece_bb[q] <=> q = m.moving_piece
                                  /\ x \in b.piece_bb[q] <=> q = m.captured_piece
        BY <1>2, <1>3, <3>1
      <4>4. x # t => t \notin b.piece_bb[p]
        BY <1>3, <3>4, <3>5
      <4>5. CASE is_promotion(m)
        <5>1. m.moving_piece = "PAWN" /\ m.promoted \in PieceTypes \ {"PAWN"} /\ Becomes(m) = m.promoted
          BY <4>5 DEF Playable, Becomes
        <5>2. x = t
          BY <4>5, <3>5 DEF is_promotion
        <5>3. PromotedFlips(m, p) = IF p = "PAWN" \/ p = m.promoted THEN {t} ELSE {}
          BY <4>5, <5>1 DEF PromotedFlips, Xor
        <5> QED BY <1>6, <4>1, <4>2, <4>3, <5>1, <5>2, <5>3 DEF Xor
      <4>6. CASE ~is_promotion(m)
        <5>1. PromotedFlips(m, p) = {} /\ Becomes(m) = m.moving_piece
          BY <4>6 DEF PromotedFlips, Becomes
        <5> QED BY <1>6, <4>1, <4>2, <4>3, <4>4, <3>1, <5>1 DEF Xor
      <4> QED BY <4>5, <4>6
    <3> QED BY <3>3, <3>6, <3>7, <3>8, <3>9
  <2>3. CASE ~is_castle(m) /\ ~is_capture(m)
    <3>1. m.type # "EN_PASSENT" /\ t \notin b.occupied_bb
      BY <2>3 DEF is_capture, Playable
    <3>2. /\ OwnFlips(us, m) = {o, t} /\ TheirFlips(m) = {} /\ OccupiedFlips(us, m) = {o, t}
          /\ OwnLeft(us, m) = {o} /\ OwnFilled(us, m) = {t} /\ TheirsLost(m) = {}
      BY <2>3, <3>1 DEF OwnFlips, TheirFlips, OccupiedFlips, OwnLeft, OwnFilled, TheirsLost
    <3>3. made.colour_bb[us] = (b.colour_bb[us] \ {o}) \cup {t}
      BY <1>1, <1>2, <1>5, <1>6, <3>2 DEF Xor
    <3>4. made.colour_bb[them] = b.colour_bb[them]
      <4>1. made.colour_bb[them] = Xor(b.colour_bb[them], {})
        BY <1>1, <1>5, <3>2
      <4> QED BY <4>1, Flips
    <3>5. made.occupied_bb = (b.occupied_bb \ {o}) \cup {t}
      BY <1>2, <1>3, <1>5, <1>6, <3>1, <3>2 DEF Xor
    <3>6. ASSUME NEW p \in PieceTypes
          PROVE  made.piece_bb[p] = (b.piece_bb[p] \ (Left(us, m, us, p) \cup Left(us, m, them, p)))
                                    \cup Filled(us, m, us, p)
      <4>1. /\ MovedFlips(m, p) = IF p = m.moving_piece THEN {o, t} ELSE {}
            /\ TakenFlips(us, m, p) = {}
            /\ Left(us, m, us, p) = IF p = m.moving_piece THEN {o} ELSE {}
            /\ Left(us, m, them, p) = {}
            /\ Filled(us, m, us, p) = IF p = Becomes(m) THEN {t} ELSE {}
        BY <1>1, <2>3, <3>1 DEF MovedFlips, TakenFlips, Left, Filled
      <4>2. made.piece_bb[p]
            = Xor(b.piece_bb[p], Xor(Xor(MovedFlips(m, p), TakenFlips(us, m, p)), PromotedFlips(m, p)))
        BY <1>5 DEF PieceFlips
      <4>3. \A q \in PieceTypes : (o \in b.piece_bb[q] <=> q = m.moving_piece) /\ t \notin b.piece_bb[q]
        BY <1>2, <1>3, <3>1
      <4>4. CASE is_promotion(m)
        <5>1. m.moving_piece = "PAWN" /\ m.promoted \in PieceTypes \ {"PAWN"} /\ Becomes(m) = m.promoted
          BY <4>4 DEF Playable, Becomes
        <5>2. PromotedFlips(m, p) = IF p = "PAWN" \/ p = m.promoted THEN {t} ELSE {}
          BY <4>4, <5>1 DEF PromotedFlips, Xor
        <5> QED BY <1>6, <4>1, <4>2, <4>3, <5>1, <5>2 DEF Xor
      <4>5. CASE ~is_promotion(m)
        <5>1. PromotedFlips(m, p) = {} /\ Becomes(m) = m.moving_piece
          BY <4>5 DEF PromotedFlips, Becomes
        <5> QED BY <1>6, <4>1, <4>2, <4>3, <5>1 DEF Xor
      <4> QED BY <4>4, <4>5
    <3> QED BY <3>2, <3>3, <3>4, <3>5, <3>6
  <2> QED BY <2>1, <2>2, <2>3
<1> DEFINE gone == OwnLeft(us, m)
           come == OwnFilled(us, m)
           lost == TheirsLost(m)
           L(p) == Left(us, m, us, p)
           T(p) == Left(us, m, them, p)
           F(p) == Filled(us, m, us, p)
<1>8. /\ gone \subseteq b.colour_bb[us] /\ lost \subseteq b.colour_bb[them]
      /\ come \cap b.occupied_bb \subseteq lost /\ come \cap gone = {}
      /\ come \subseteq Sq
      /\ \A p \in PieceTypes : gone \cap b.piece_bb[p] = L(p) /\ lost \cap b.piece_bb[p] = T(p)
      /\ \A s \in come : \E p \in PieceTypes : s \in F(p)
      /\ \A p \in PieceTypes : F(p) \subseteq come
      /\ \A p, q \in PieceTypes : p # q => F(p) \cap F(q) = {}
  <2>0. Becomes(m) \in PieceTypes
    BY <1>2 DEF Becomes, Playable
  <2>1. CASE is_castle(m)
    <3> DEFINE h == Home(us, m)
               r == Castled(us, m)
    <3>1. ~is_capture(m) /\ ~is_promotion(m) /\ m.type # "EN_PASSENT"
      BY <2>1 DEF is_castle, is_capture, is_promotion
    <3>2. /\ m.moving_piece = "KING" /\ t \notin b.occupied_bb /\ r \notin b.occupied_bb
          /\ h \in b.colour_bb[us] /\ h \in b.piece_bb["ROOK"]
      BY <2>1, <3>1 DEF Playable, pieces
    <3>3. h # t /\ h # r /\ o # h /\ o # r /\ t # r /\ r \in Sq
      BY <2>1, <1>1 DEF Playable, Home, Castled, RookSquares, RookCastleSquares, KingSquare,
         KingCastleSquare, Square, BackRank, relative_rank, get_castleside, Colours, Sq
    <3>4. gone = {o, h} /\ come = {t, r} /\ lost = {}
      BY <2>1, <3>1 DEF OwnLeft, OwnFilled, TheirsLost
    <3> HIDE DEF h, r
    <3>5. \A p \in PieceTypes :
            /\ L(p) = IF p = "KING" THEN {o} ELSE IF p = "ROOK" THEN {h} ELSE {}
            /\ T(p) = {}
            /\ F(p) = IF p = "KING" THEN {t} ELSE IF p = "ROOK" THEN {r} ELSE {}
      BY <1>1, <2>1, <3>1, <3>2 DEF Left, Filled, Becomes, h, r
    <3>6. "KING" \in PieceTypes /\ "ROOK" \in PieceTypes
      BY DEF PieceTypes
    <3> HIDE DEF L, T, F, gone, come, lost
    <3> QED BY <1>2, <1>3, <1>6, <3>2, <3>3, <3>4, <3>5, <3>6
  <2>2. CASE ~is_castle(m) /\ is_capture(m)
    <3>1. /\ x \in b.colour_bb[them] /\ x \in b.piece_bb[m.captured_piece] /\ x # o
          /\ m.captured_piece \in PieceTypes
      BY <2>2, <1>6 DEF Playable, pieces, MadeMoves
    <3>2. gone = {o} /\ come = {t} /\ lost = {x}
      BY <2>2 DEF OwnLeft, OwnFilled, TheirsLost
    <3>3. t \notin b.occupied_bb \/ t = x
      BY DEF Playable, TakenSquare
    <3>4. \A p \in PieceTypes :
            /\ L(p) = IF p = m.moving_piece THEN {o} ELSE {}
            /\ T(p) = IF p = m.captured_piece THEN {x} ELSE {}
            /\ F(p) = IF p = Becomes(m) THEN {t} ELSE {}
      BY <1>1, <2>2 DEF Left, Filled
    <3> HIDE DEF L, T, F, gone, come, lost
    <3> QED BY <1>2, <1>3, <1>6, <2>0, <3>1, <3>2, <3>3, <3>4
  <2>3. CASE ~is_castle(m) /\ ~is_capture(m)
    <3>1. t \notin b.occupied_bb
      BY <2>3 DEF Playable
    <3>2. gone = {o} /\ come = {t} /\ lost = {}
      BY <2>3 DEF OwnLeft, OwnFilled, TheirsLost
    <3>3. \A p \in PieceTypes :
            /\ L(p) = IF p = m.moving_piece THEN {o} ELSE {}
            /\ T(p) = {}
            /\ F(p) = IF p = Becomes(m) THEN {t} ELSE {}
      BY <1>1, <2>3 DEF Left, Filled
    <3> HIDE DEF L, T, F, gone, come, lost
    <3> QED BY <1>2, <1>3, <1>6, <2>0, <3>1, <3>2, <3>3
  <2> QED BY <2>1, <2>2, <2>3
<1>9. /\ made.colour_bb[us] = (b.colour_bb[us] \ gone) \cup come
      /\ made.colour_bb[them] = b.colour_bb[them] \ lost
      /\ made.occupied_bb = (b.occupied_bb \ (gone \cup lost)) \cup come
      /\ \A p \in PieceTypes : made.piece_bb[p] = (b.piece_bb[p] \ (L(p) \cup T(p))) \cup F(p)
  BY <1>7
<1>10. \A p : /\ Filled(us, m, them, p) = {}
              /\ pieces(made, us, p) = made.colour_bb[us] \cap made.piece_bb[p]
              /\ pieces(made, them, p) = made.colour_bb[them] \cap made.piece_bb[p]
              /\ pieces(b, us, p) = b.colour_bb[us] \cap b.piece_bb[p]
              /\ pieces(b, them, p) = b.colour_bb[them] \cap b.piece_bb[p]
  BY <1>1 DEF Filled, pieces
<1> HIDE DEF gone, come, lost, L, T, F, made, us, them
<1>11. ASSUME NEW p \in PieceTypes
       PROVE  /\ pieces(made, us, p) = (pieces(b, us, p) \ L(p)) \cup F(p)
              /\ pieces(made, them, p) = (pieces(b, them, p) \ T(p)) \cup Filled(us, m, them, p)
              /\ L(p) \subseteq pieces(b, us, p) /\ T(p) \subseteq pieces(b, them, p)
              /\ F(p) \cap pieces(b, us, p) = {} /\ Filled(us, m, them, p) = {}
  <2>1. /\ pieces(made, us, p) = (pieces(b, us, p) \ L(p)) \cup F(p)
        /\ pieces(made, them, p) = (pieces(b, them, p) \ T(p)) \cup Filled(us, m, them, p)
    BY <1>3, <1>8, <1>9, <1>10
  <2>2. L(p) \subseteq pieces(b, us, p) /\ T(p) \subseteq pieces(b, them, p)
    BY <1>8, <1>10
  <2>3. F(p) \cap pieces(b, us, p) = {} /\ Filled(us, m, them, p) = {}
    BY <1>3, <1>8, <1>10
  <2> QED BY <2>1, <2>2, <2>3
<1>12. Views(made)
  <2>1. made.occupied_bb = made.colour_bb[us] \cup made.colour_bb[them]
    BY <1>3, <1>8, <1>9
  <2>2. made.colour_bb[us] \cap made.colour_bb[them] = {}
    BY <1>3, <1>8, <1>9
  <2>3. UNION {made.piece_bb[p] : p \in PieceTypes} = made.occupied_bb
    <3>1. ASSUME NEW s PROVE s \in made.occupied_bb <=> \E p \in PieceTypes : s \in made.piece_bb[p]
      <4>1. CASE s \in come
        BY <1>8, <1>9, <4>1
      <4>2. CASE s \notin come
        <5>1. s \in made.occupied_bb <=> s \in b.occupied_bb /\ s \notin gone /\ s \notin lost
          BY <1>9, <4>2
        <5>2. \A p \in PieceTypes :
                s \in made.piece_bb[p] <=> s \in b.piece_bb[p] /\ s \notin gone /\ s \notin lost
          BY <1>8, <1>9, <4>2
        <5> QED BY <1>3, <5>1, <5>2
      <4> QED BY <4>1, <4>2
    <3> QED BY <3>1
  <2>4. ASSUME NEW p \in PieceTypes, NEW q \in PieceTypes, p # q
        PROVE  made.piece_bb[p] \cap made.piece_bb[q] = {}
    <3>1. ASSUME NEW s, s \in made.piece_bb[p], s \in made.piece_bb[q]
          PROVE  FALSE
      <4>1. CASE s \in come
        <5>1. s \in b.occupied_bb => s \in lost
          BY <1>8, <4>1
        <5>2. \A u \in PieceTypes : s \in made.piece_bb[u] => s \in F(u)
          BY <1>3, <1>8, <1>9, <5>1
        <5> QED BY <1>8, <2>4, <3>1, <5>2
      <4>2. CASE s \notin come
        BY <1>3, <1>8, <1>9, <2>4, <3>1, <4>2
      <4> QED BY <4>1, <4>2
    <3> QED BY <3>1
  <2> QED BY <1>1, <2>1, <2>2, <2>3, <2>4 DEF Views, Colours
<1>13. made \in Boards
  <2>1. made.occupied_bb \subseteq Sq /\ \A p \in PieceTypes : F(p) \subseteq Sq
    BY <1>4, <1>8, <1>9
  <2>2. made.colour_bb \in [Colours -> SUBSET Sq]
    BY <1>1, <1>4, <1>5, <1>8, <1>9
  <2>3. made.piece_bb \in [PieceTypes -> SUBSET Sq]
    <3>1. \A p \in PieceTypes : made.piece_bb[p] \in SUBSET Sq
      BY <1>4, <1>9, <2>1
    <3> QED BY <1>5, <3>1
  <2>4. made.piece_counts \in Counts
    <3>1. made.piece_counts = CountPromoted(CountCaptured(b.piece_counts, them, m), us, m)
      BY DEF made, us, them, MakeBoard
    <3>2. CountCaptured(b.piece_counts, them, m) \in Counts
      BY <1>1, <1>2, TakenCounted DEF Boards, Counts
    <3> QED BY <1>1, <1>2, <3>1, <3>2, GainCounted
  <2>5. made.phase_material \in Int
    <3>1. MaterialChange(m) \in Int
      BY <1>2, ChangeIsInt
    <3> QED BY <3>1 DEF Boards, made, MakeBoard
  <2>6. made.king_square \in [Colours -> Sq]
    BY <1>1, <1>2 DEF Boards, made, MakeBoard, us
  <2>7. made.whos_move = them /\ made.fullmove_counter \in Int
    BY DEF Boards, made, MakeBoard, us, them
  <2>8. made = [colour_bb |-> made.colour_bb, piece_bb |-> made.piece_bb,
                occupied_bb |-> made.occupied_bb, piece_counts |-> made.piece_counts,
                phase_material |-> made.phase_material, king_square |-> made.king_square,
                whos_move |-> made.whos_move, fullmove_counter |-> made.fullmove_counter]
    BY DEF made, MakeBoard
  <2> QED BY <1>1, <2>1, <2>2, <2>3, <2>4, <2>5, <2>6, <2>7, <2>8 DEF Boards, Counts
<1>14. OwnFilled(us, m) \cap b.colour_bb[us] = {}
  BY <1>3, <1>8 DEF come
<1> QED BY <1>1, <1>6, <1>7, <1>11, <1>12, <1>13, <1>14 DEF us, them, made, L, T, F

-----------------------------------------------------------------------------
Valued == {"PAWN", "KNIGHT", "BISHOP", "ROOK", "QUEEN"}
Weight(counts) ==
    LET total(p) == piece_phase_material(p) * (counts["WHITE"][p] + counts["BLACK"][p])
    IN total("PAWN") + total("KNIGHT") + total("BISHOP") + total("ROOK") + total("QUEEN")

\* What is counted along the way.
Counted(b) ==
    /\ \A c \in Colours, p \in PieceTypes : b.piece_counts[c][p] = Cardinality(pieces(b, c, p))
    /\ \A c \in Colours : pieces(b, c, "KING") = {b.king_square[c]}
    /\ b.phase_material = Weight(b.piece_counts)

\* The counters follow the bitboards, and the kings' squares the kings.
LEMMA MadeCounts ==
  ASSUME NEW b \in Boards, Views(b), Counted(b), NEW m, Playable(b, m)
  PROVE  Counted(MakeBoard(b, m))
<1> DEFINE us == b.whos_move
           them == Other(us)
           made == MakeBoard(b, m)
           o == m.origin
           t == m.target
           x == TakenSquare(m)
           less == CountCaptured(b.piece_counts, them, m)
<1>1. us \in Colours /\ them \in Colours /\ them # us /\ \A c \in Colours : c = us \/ c = them
  BY DEF Boards, Colours, Other
<1>2. m \in MadeMoves /\ b.piece_counts \in Counts /\ made \in Boards
  BY MadeBoard DEF Playable, Boards, Counts
<1>3. \A c \in Colours, p \in PieceTypes :
         pieces(made, c, p) = (pieces(b, c, p) \ Left(us, m, c, p)) \cup Filled(us, m, c, p)
  BY MadeBoard
<1>4. /\ made.piece_counts = CountPromoted(less, us, m)
      /\ made.phase_material = b.phase_material + MaterialChange(m)
      /\ made.king_square = IF m.moving_piece = "KING" THEN [b.king_square EXCEPT ![us] = t]
                            ELSE b.king_square
  BY DEF MakeBoard
<1>5. /\ less \in Counts
      /\ \A c \in Colours, p \in PieceTypes :
            less[c][p] = b.piece_counts[c][p] - TakenOf(them, m, c, p)
  BY <1>1, <1>2, TakenCounted
<1>6. \A c \in Colours, p \in PieceTypes :
         made.piece_counts[c][p] = less[c][p] + GainOf(us, m, c, p)
  <2> HIDE DEF less, made
  <2> QED BY <1>1, <1>2, <1>4, <1>5, GainCounted
<1> HIDE DEF made, less
<1>7. /\ o \in pieces(b, us, m.moving_piece) /\ \A p : o \in pieces(b, us, p) => p = m.moving_piece \/ p \notin PieceTypes
      /\ \A p : t \notin pieces(b, us, p)
      /\ is_capture(m) => x \in pieces(b, them, m.captured_piece)
  BY <1>1 DEF Playable, Views, pieces, TakenSquare, MadeMoves, Colours
<1>8. ASSUME NEW S \in SUBSET Sq
      PROVE  /\ Cardinality(S) \in Nat
             /\ \A y \in S : Cardinality(S \ {y}) = Cardinality(S) - 1
             /\ \A z : z \notin S => Cardinality(S \cup {z}) = Cardinality(S) + 1
             /\ \A y \in S : \A z : z \notin S => Cardinality((S \ {y}) \cup {z}) = Cardinality(S)
  <2>1. IsFiniteSet(S)
    <3>1. IsFiniteSet(Sq)
      <4>1. Sq = 0 .. 63 /\ 0 \in Int /\ 63 \in Int
        BY DEF Sq
      <4> QED BY <4>1, FS_Interval
    <3> QED BY <3>1, FS_Subset
  <2>2. Cardinality(S) \in Nat
    BY <2>1, FS_CardinalityType
  <2>3. \A y \in S : IsFiniteSet(S \ {y}) /\ Cardinality(S \ {y}) = Cardinality(S) - 1
    BY <2>1, FS_RemoveElement
  <2>4. \A z : z \notin S => Cardinality(S \cup {z}) = Cardinality(S) + 1
    BY <2>1, FS_AddElement
  <2>5. ASSUME NEW y \in S, NEW z, z \notin S
        PROVE  Cardinality((S \ {y}) \cup {z}) = Cardinality(S)
    <3>1. Cardinality((S \ {y}) \cup {z}) = Cardinality(S \ {y}) + 1
      BY <2>3, <2>5, FS_AddElement
    <3> QED BY <2>2, <2>3, <3>1
  <2> QED BY <2>2, <2>3, <2>4, <2>5
<1>9. ASSUME NEW c \in Colours, NEW p \in PieceTypes
      PROVE  made.piece_counts[c][p] = Cardinality(pieces(made, c, p))
  <2> DEFINE S == pieces(b, c, p)
             T == pieces(made, c, p)
             n == b.piece_counts[c][p]
  <2>1. n = Cardinality(S) /\ S \in SUBSET Sq
    BY DEF Counted, pieces, Boards
  <2>2. T = (S \ Left(us, m, c, p)) \cup Filled(us, m, c, p)
    BY <1>3
  <2>3. made.piece_counts[c][p] = n - TakenOf(them, m, c, p) + GainOf(us, m, c, p)
    BY <1>5, <1>6
  <2> SUFFICES made.piece_counts[c][p] = Cardinality(T)
    OBVIOUS
  <2> HIDE DEF n, S, T
  <2>4. CASE c = them
    <3>1. GainOf(us, m, c, p) = 0
      BY <1>1, <2>4 DEF GainOf
    <3>2. CASE is_capture(m) /\ p = m.captured_piece
      <4>1. T = S \ {x} /\ x \in S /\ TakenOf(them, m, c, p) = 1
        BY <1>1, <1>7, <2>2, <2>4, <3>2 DEF Left, Filled, TakenOf, S
      <4> QED BY <1>8, <2>1, <2>3, <3>1, <4>1
    <3>3. CASE ~(is_capture(m) /\ p = m.captured_piece)
      <4>1. T = S /\ TakenOf(them, m, c, p) = 0
        BY <1>1, <2>2, <2>4, <3>3 DEF Left, Filled, TakenOf
      <4> QED BY <1>8, <2>1, <2>3, <3>1, <4>1
    <3> QED BY <3>2, <3>3
  <2>5. CASE c = us
    <3>1. TakenOf(them, m, c, p) = 0
      BY <1>1, <2>5 DEF TakenOf
    <3>2. CASE is_promotion(m)
      <4>1. m.moving_piece = "PAWN" /\ m.promoted # "PAWN" /\ Becomes(m) = m.promoted /\ ~is_castle(m)
        BY <3>2 DEF Playable, Becomes, is_promotion, is_castle
      <4>2. CASE p = "PAWN"
        <5>1. T = S \ {o} /\ o \in S /\ GainOf(us, m, c, p) = -1
          BY <1>7, <2>2, <2>5, <3>2, <4>1, <4>2 DEF Left, Filled, GainOf, S
        <5> QED BY <1>8, <2>1, <2>3, <3>1, <5>1
      <4>3. CASE p = m.promoted
        <5>1. T = S \cup {t} /\ t \notin S /\ GainOf(us, m, c, p) = 1
          BY <1>7, <2>2, <2>5, <3>2, <4>1, <4>3 DEF Left, Filled, GainOf, S
        <5> QED BY <1>8, <2>1, <2>3, <3>1, <5>1
      <4>4. CASE p # "PAWN" /\ p # m.promoted
        <5>1. T = S /\ GainOf(us, m, c, p) = 0
          BY <2>2, <2>5, <3>2, <4>1, <4>4 DEF Left, Filled, GainOf
        <5> QED BY <1>8, <2>1, <2>3, <3>1, <5>1
      <4> QED BY <4>2, <4>3, <4>4
    <3>3. CASE ~is_promotion(m)
      <4>1. GainOf(us, m, c, p) = 0 /\ Becomes(m) = m.moving_piece
        BY <3>3 DEF GainOf, Becomes
      <4>2. CASE is_castle(m) /\ p = "ROOK"
        <5> DEFINE h == Home(us, m)
                   r == Castled(us, m)
        <5>1. m.moving_piece = "KING" /\ h \in pieces(b, us, "ROOK") /\ r \notin b.occupied_bb
          BY <4>2 DEF Playable
        <5>2. \A s \in S : s \in b.occupied_bb
          BY DEF S, pieces, Views, Colours
        <5>3. T = (S \ {h}) \cup {r} /\ h \in S
          BY <2>2, <2>5, <4>1, <4>2, <5>1 DEF Left, Filled, S
        <5> HIDE DEF h, r
        <5> QED BY <1>8, <2>1, <2>3, <3>1, <4>1, <5>1, <5>2, <5>3
      <4>3. CASE p = m.moving_piece /\ ~(is_castle(m) /\ p = "ROOK")
        <5>1. T = (S \ {o}) \cup {t} /\ o \in S /\ t \notin S
          BY <1>7, <2>2, <2>5, <4>1, <4>3 DEF Left, Filled, S
        <5> QED BY <1>8, <2>1, <2>3, <3>1, <4>1, <5>1
      <4>4. CASE p # m.moving_piece /\ ~(is_castle(m) /\ p = "ROOK")
        <5>1. T = S
          BY <2>2, <2>5, <4>1, <4>4 DEF Left, Filled
        <5> QED BY <1>8, <2>1, <2>3, <3>1, <4>1, <5>1
      <4> QED BY <4>2, <4>3, <4>4
    <3> QED BY <3>2, <3>3
  <2> QED BY <1>1, <2>4, <2>5
<1>10. ASSUME NEW c \in Colours PROVE pieces(made, c, "KING") = {made.king_square[c]}
  <2>1. "KING" \in PieceTypes /\ pieces(b, c, "KING") = {b.king_square[c]}
    BY DEF PieceTypes, Counted
  <2>2. pieces(made, c, "KING")
        = (pieces(b, c, "KING") \ Left(us, m, c, "KING")) \cup Filled(us, m, c, "KING")
    BY <1>3, <2>1
  <2>3. b.king_square = [d \in Colours |-> b.king_square[d]]
    BY DEF Boards
  <2>4. CASE c = them
    <3>1. Left(us, m, c, "KING") = {} /\ Filled(us, m, c, "KING") = {}
      BY <1>1, <2>4 DEF Left, Filled, Playable
    <3> QED BY <1>1, <1>4, <2>1, <2>2, <2>3, <2>4, <3>1
  <2>5. CASE c = us /\ m.moving_piece = "KING"
    <3>1. ~is_promotion(m)
      BY <2>5 DEF Playable
    <3>2. Left(us, m, c, "KING") = {o} /\ Filled(us, m, c, "KING") = {t}
      BY <2>5, <3>1 DEF Left, Filled, Becomes
    <3>3. pieces(b, c, "KING") = {o}
      BY <1>7, <2>1, <2>5
    <3> QED BY <1>1, <1>4, <2>2, <2>3, <2>5, <3>2, <3>3
  <2>6. CASE c = us /\ m.moving_piece # "KING"
    <3>1. Becomes(m) # "KING" /\ ~is_castle(m)
      BY <2>6 DEF Becomes, Playable
    <3>2. Left(us, m, c, "KING") = {} /\ Filled(us, m, c, "KING") = {}
      BY <2>6, <3>1 DEF Left, Filled
    <3> QED BY <1>4, <2>1, <2>2, <2>6, <3>2
  <2> QED BY <1>1, <2>4, <2>5, <2>6
<1>11. made.phase_material = Weight(made.piece_counts)
  <2> DEFINE pc == b.piece_counts
             mc == made.piece_counts
  <2>1. \A c \in Colours, p \in PieceTypes : pc[c][p] \in Int /\ less[c][p] \in Int /\ mc[c][p] \in Int
    BY <1>2, <1>5 DEF Counts, Boards
  <2>2. /\ \A p \in PieceTypes : pc["WHITE"][p] \in Int /\ pc["BLACK"][p] \in Int
        /\ \A p \in PieceTypes : less["WHITE"][p] \in Int /\ less["BLACK"][p] \in Int
        /\ \A p \in PieceTypes : mc["WHITE"][p] \in Int /\ mc["BLACK"][p] \in Int
    BY <2>1 DEF Colours
  <2> HIDE DEF pc, mc
  <2>3. /\ \A p \in PieceTypes : less["WHITE"][p] + less["BLACK"][p]
              = pc["WHITE"][p] + pc["BLACK"][p] - (IF is_capture(m) /\ p = m.captured_piece THEN 1 ELSE 0)
        /\ \A p \in PieceTypes : mc["WHITE"][p] + mc["BLACK"][p]
              = less["WHITE"][p] + less["BLACK"][p]
                + (IF is_promotion(m) /\ p = m.promoted THEN 1 ELSE 0)
                - (IF is_promotion(m) /\ p = "PAWN" THEN 1 ELSE 0)
    <3> HIDE DEF us, them
    <3>1. (us = "WHITE" /\ them = "BLACK") \/ (us = "BLACK" /\ them = "WHITE")
      BY <1>1 DEF Colours
    <3> QED BY <1>5, <1>6, <2>2, <3>1 DEF Colours, pc, mc, TakenOf, GainOf
  <2>4. Weight(less) = Weight(pc) - (IF is_capture(m) THEN piece_phase_material(m.captured_piece) ELSE 0)
    <3>1. is_capture(m) => m.captured_piece \in Valued
      BY <1>2 DEF Playable, MadeMoves, PieceTypes, Valued
    <3> DEFINE w(p) == piece_phase_material(p)
               n(p) == pc["WHITE"][p] + pc["BLACK"][p]
               k(p) == less["WHITE"][p] + less["BLACK"][p]
               d(p) == IF is_capture(m) /\ p = m.captured_piece THEN 1 ELSE 0
    <3>2. \A p \in Valued : k(p) = n(p) - d(p) /\ n(p) \in Int
      BY <2>2, <2>3 DEF Valued, PieceTypes
    <3>3. /\ Weight(pc) = 100 * n("PAWN") + 300 * n("KNIGHT") + 350 * n("BISHOP") + 500 * n("ROOK") + 900 * n("QUEEN")
          /\ Weight(less) = 100 * k("PAWN") + 300 * k("KNIGHT") + 350 * k("BISHOP") + 500 * k("ROOK") + 900 * k("QUEEN")
      BY DEF Weight, piece_phase_material
    <3>4. /\ w("PAWN") = 100 /\ w("KNIGHT") = 300 /\ w("BISHOP") = 350 /\ w("ROOK") = 500
          /\ w("QUEEN") = 900
      BY DEF piece_phase_material
    <3> HIDE DEF n, k, w
    <3> QED BY <3>1, <3>2, <3>3, <3>4 DEF Valued, w
  <2>5. Weight(mc) = Weight(less)
                     + (IF is_promotion(m)
                        THEN piece_phase_material(m.promoted) - piece_phase_material("PAWN") ELSE 0)
    <3>1. is_promotion(m) => m.promoted \in Valued
      BY <1>2 DEF Playable, PieceTypes, Valued
    <3> QED BY <2>2, <2>3, <3>1 DEF Weight, piece_phase_material, Valued, PieceTypes
  <2>6. Weight(pc) \in Int /\ b.phase_material = Weight(pc)
    BY <2>2 DEF Weight, piece_phase_material, PieceTypes, Counted, pc
  <2>7. \A p \in PieceTypes : piece_phase_material(p) \in Int
    BY DEF PieceTypes, piece_phase_material
  <2> QED BY <1>2, <1>4, <2>4, <2>5, <2>6, <2>7 DEF MaterialChange, mc, MadeMoves, PieceTypes
<1> QED BY <1>9, <1>10, <1>11 DEF Counted, made
-----------------------------------------------------------------------------
\* A key says of what it is the key: the families of keys have none in common.
LEMMA Keys ==
  /\ \A b \in Boards : \A k :
        k \in PieceKeys(b) <=> \E c \in Colours, p \in PieceTypes :
                                  \E s \in pieces(b, c, p) : k = <<c, p, s>>
  /\ \A b \in Boards : \A k \in PieceKeys(b) : k[1] \in Colours
  /\ \A c : MoveKey(c)[1] = "move" /\ \A d : MoveKey(c) = MoveKey(d) => c = d
  /\ \A rights : \A k \in RightKeys(rights) : k[1] = "cr"
  /\ \A f : \A k \in EpKeys(f) : k[1] = "ep"
  /\ \A rights \in SUBSET (Colours \X Sides) : \A lost \in SUBSET rights :
        RightKeys(rights \ lost) = Xor(RightKeys(rights), RightKeys(lost))
<1>1. ASSUME NEW b \in Boards
      PROVE  /\ \A k : k \in PieceKeys(b) <=> \E c \in Colours, p \in PieceTypes :
                                  \E s \in pieces(b, c, p) : k = <<c, p, s>>
             /\ \A k \in PieceKeys(b) : k[1] \in Colours
  <2>1. \A k : k \in PieceKeys(b) <=> \E c \in Colours, p \in PieceTypes :
                                  \E s \in pieces(b, c, p) : k = <<c, p, s>>
    <3> DEFINE S(c, p) == {<<c, p, s>> : s \in pieces(b, c, p)}
    <3>1. PieceKeys(b) = UNION {S(c, p) : c \in Colours, p \in PieceTypes}
      BY DEF PieceKeys
    <3>2. \A c, p, k : k \in S(c, p) <=> \E s \in pieces(b, c, p) : k = <<c, p, s>>
      OBVIOUS
    <3> HIDE DEF S
    <3>3. \A k : k \in UNION {S(c, p) : c \in Colours, p \in PieceTypes}
                <=> \E c \in Colours, p \in PieceTypes : k \in S(c, p)
      OBVIOUS
    <3> QED BY <3>1, <3>2, <3>3
  <2> QED BY <2>1
<1>2. \A c : MoveKey(c)[1] = "move" /\ \A d : MoveKey(c) = MoveKey(d) => c = d
  BY DEF MoveKey
<1>3. \A rights : \A k \in RightKeys(rights) : k[1] = "cr"
  BY DEF RightKeys
<1>4. \A f : \A k \in EpKeys(f) : k[1] = "ep"
  BY DEF EpKeys
<1>5. ASSUME NEW rights \in SUBSET (Colours \X Sides), NEW lost \in SUBSET rights
      PROVE  RightKeys(rights \ lost) = Xor(RightKeys(rights), RightKeys(lost))
  <2>1. \A r, q \in Colours \X Sides : <<"cr", r[1], r[2]>> = <<"cr", q[1], q[2]>> => r = q
    OBVIOUS
  <2>2. \A x \in SUBSET rights : \A k : k \in RightKeys(x) <=> \E r \in x : k = <<"cr", r[1], r[2]>>
    BY DEF RightKeys
  <2>3. ASSUME NEW k PROVE k \in RightKeys(rights \ lost) <=> k \in RightKeys(rights) /\ k \notin RightKeys(lost)
    BY <2>1, <2>2
  <2>4. RightKeys(lost) \subseteq RightKeys(rights)
    BY <2>2
  <2> QED BY <2>3, <2>4 DEF Xor
<1> QED BY <1>1, <1>2, <1>3, <1>4, <1>5

\* The hash of a position and the differences made to it, family by family.
LEMMA XorByFamily ==
  ASSUME NEW A, NEW B, NEW C, NEW D, NEW P, NEW Q, NEW R, NEW T,
         \A k \in A \cup P : k[1] \in {"WHITE", "BLACK"},
         \A k \in B \cup Q : k[1] = "move",
         \A k \in C \cup R : k[1] = "cr",
         \A k \in D \cup T : k[1] = "ep"
  PROVE  Xor(A \cup B \cup C \cup D, Xor(P, Xor(T, Xor(R, Q))))
         = Xor(A, P) \cup Xor(B, Q) \cup Xor(C, R) \cup Xor(D, T)
<1>1. ASSUME NEW k PROVE k \in Xor(P, Xor(T, Xor(R, Q))) <=> k \in P \cup Q \cup R \cup T
  BY DEF Xor
<1>2. ASSUME NEW k
      PROVE  k \in Xor(A \cup B \cup C \cup D, P \cup Q \cup R \cup T)
             <=> k \in Xor(A, P) \cup Xor(B, Q) \cup Xor(C, R) \cup Xor(D, T)
  BY DEF Xor
<1>3. Xor(P, Xor(T, Xor(R, Q))) = P \cup Q \cup R \cup T
  BY <1>1
<1> QED BY <1>2, <1>3

\* hash ^= Zobrist::diff: what make_move makes of the hash is that of the position it
\* makes, for any rights lost of those that are held.
LEMMA MadeHash ==
  ASSUME NEW b \in Boards, Views(b), NEW m, Playable(b, m),
         NEW a, a.castling_rights \subseteq Colours \X Sides,
         NEW lost, lost \subseteq a.castling_rights,
         NEW next, next.castling_rights = a.castling_rights \ lost,
         next.en_passent_target = EpMade(m)
  PROVE  Xor(ZobristHash(b, a), ZobristDiff(m, b.whos_move, a.en_passent_target, lost))
         = ZobristHash(MakeBoard(b, m), next)
<1> DEFINE us == b.whos_move
           rights == a.castling_rights
           ep == a.en_passent_target
           them == Other(us)
           made == MakeBoard(b, m)
           o == m.origin
           t == m.target
           moved == {<<us, m.moving_piece, o>>, <<us, m.moving_piece, t>>}
           P == Xor(Xor(moved, PromotionKeys(us, m)), Xor(TakenKeys(them, m), CastleKeys(us, m)))
           Q == {MoveKey(us), MoveKey(them)}
<1>1. us \in Colours /\ them \in Colours /\ them # us /\ made.whos_move = them
  BY DEF Boards, Colours, Other, MakeBoard
<1>2. /\ made \in Boards /\ o # t
      /\ \A c \in Colours, p \in PieceTypes :
            /\ pieces(made, c, p) = (pieces(b, c, p) \ Left(us, m, c, p)) \cup Filled(us, m, c, p)
            /\ Left(us, m, c, p) \subseteq pieces(b, c, p)
            /\ Filled(us, m, c, p) \cap pieces(b, c, p) = {}
  BY MadeBoard
<1>3. \A k : k \in P <=> \E c \in Colours, p \in PieceTypes :
                            \E s \in Left(us, m, c, p) \cup Filled(us, m, c, p) : k = <<c, p, s>>
  <2>1. /\ m.moving_piece \in PieceTypes /\ Becomes(m) \in PieceTypes
        /\ is_capture(m) => m.captured_piece \in PieceTypes
        /\ is_promotion(m) => m.moving_piece = "PAWN" /\ m.promoted # "PAWN"
    BY DEF Playable, MadeMoves, Becomes
  <2>2. Xor(moved, PromotionKeys(us, m)) = {<<us, m.moving_piece, o>>, <<us, Becomes(m), t>>}
    <3>1. CASE is_promotion(m)
      <4>1. Xor(moved, PromotionKeys(us, m))
            = Xor({<<us, "PAWN", o>>, <<us, "PAWN", t>>}, {<<us, "PAWN", t>>, <<us, m.promoted, t>>})
        BY <2>1, <3>1 DEF PromotionKeys
      <4>2. /\ <<us, "PAWN", o>> # <<us, "PAWN", t>> /\ <<us, "PAWN", o>> # <<us, m.promoted, t>>
            /\ <<us, m.promoted, t>> # <<us, "PAWN", t>>
        BY <1>2, <2>1, <3>1
      <4> QED BY <2>1, <3>1, <4>1, <4>2 DEF Xor, Becomes
    <3>2. CASE ~is_promotion(m)
      BY <3>2, Flips DEF PromotionKeys, Becomes
    <3> QED BY <3>1, <3>2
  <2>3. /\ TakenKeys(them, m) = IF is_capture(m) THEN {<<them, m.captured_piece, TakenSquare(m)>>} ELSE {}
        /\ CastleKeys(us, m) = IF is_castle(m) THEN {<<us, "ROOK", Home(us, m)>>, <<us, "ROOK", Castled(us, m)>>}
                               ELSE {}
        /\ ~is_capture(m) \/ ~is_castle(m)
    <3>1. m.type = "EN_PASSENT" => m.captured_piece = "PAWN" /\ is_capture(m)
      BY DEF Playable, is_capture
    <3> QED BY <3>1 DEF TakenKeys, TakenSquare, CastleKeys, rook_from_to, Home, Castled,
          is_capture, is_castle
  <2>4. is_castle(m) => m.moving_piece = "KING" /\ Becomes(m) = "KING"
    BY DEF Playable, Becomes, is_castle, is_promotion
  <2>5. ASSUME NEW k
        PROVE  k \in P <=> \/ k = <<us, m.moving_piece, o>>
                           \/ k = <<us, Becomes(m), t>>
                           \/ is_capture(m) /\ k = <<them, m.captured_piece, TakenSquare(m)>>
                           \/ is_castle(m) /\ k = <<us, "ROOK", Home(us, m)>>
                           \/ is_castle(m) /\ k = <<us, "ROOK", Castled(us, m)>>
    <3>1. CASE is_castle(m)
      <4>1. \A x, y : <<us, "KING", x>> # <<us, "ROOK", y>>
        OBVIOUS
      <4>2. P = Xor({<<us, "KING", o>>, <<us, "KING", t>>},
                    Xor({}, {<<us, "ROOK", Home(us, m)>>, <<us, "ROOK", Castled(us, m)>>}))
        BY <2>2, <2>3, <2>4, <3>1
      <4>3. ~is_capture(m)
        BY <2>3, <3>1
      <4> HIDE DEF P
      <4> QED BY <2>4, <3>1, <4>1, <4>2, <4>3 DEF Xor
    <3>2. CASE ~is_castle(m) /\ is_capture(m)
      <4>1. \A x, y, v, w : <<us, x, v>> # <<them, y, w>>
        BY <1>1
      <4>2. P = Xor({<<us, m.moving_piece, o>>, <<us, Becomes(m), t>>},
                    Xor({<<them, m.captured_piece, TakenSquare(m)>>}, {}))
        BY <2>2, <2>3, <3>2
      <4> HIDE DEF P
      <4> QED BY <3>2, <4>1, <4>2 DEF Xor
    <3>3. CASE ~is_castle(m) /\ ~is_capture(m)
      <4>1. P = Xor({<<us, m.moving_piece, o>>, <<us, Becomes(m), t>>}, Xor({}, {}))
        BY <2>2, <2>3, <3>3
      <4> HIDE DEF P
      <4> QED BY <3>3, <4>1 DEF Xor
    <3> QED BY <3>1, <3>2, <3>3
  <2>6. \A c \in Colours : c = us \/ c = them
    BY DEF Boards, Colours, Other
  <2>7. "ROOK" \in PieceTypes /\ "KING" # "ROOK"
    BY DEF PieceTypes
  <2>8. \A p : /\ \A s : s \in Left(us, m, us, p)
                         <=> (p = m.moving_piece /\ s = o)
                             \/ (is_castle(m) /\ p = "ROOK" /\ s = Home(us, m))
               /\ \A s : s \in Filled(us, m, us, p)
                         <=> (p = Becomes(m) /\ s = t)
                             \/ (is_castle(m) /\ p = "ROOK" /\ s = Castled(us, m))
               /\ \A s : s \in Left(us, m, them, p)
                         <=> is_capture(m) /\ p = m.captured_piece /\ s = TakenSquare(m)
               /\ Filled(us, m, them, p) = {}
    BY <1>1 DEF Left, Filled
  <2> HIDE DEF P, us, them, o, t
  <2>9. ASSUME NEW k, k \in P
        PROVE  \E c \in Colours, p \in PieceTypes :
                            \E s \in Left(us, m, c, p) \cup Filled(us, m, c, p) : k = <<c, p, s>>
    <3>1. CASE k = <<us, m.moving_piece, o>>
      BY <1>1, <2>1, <2>8, <3>1
    <3>2. CASE k = <<us, Becomes(m), t>>
      BY <1>1, <2>1, <2>8, <3>2
    <3>3. CASE is_capture(m) /\ k = <<them, m.captured_piece, TakenSquare(m)>>
      BY <1>1, <2>1, <2>8, <3>3
    <3>4. CASE is_castle(m) /\ (k = <<us, "ROOK", Home(us, m)>> \/ k = <<us, "ROOK", Castled(us, m)>>)
      BY <1>1, <2>7, <2>8, <3>4
    <3> QED BY <2>5, <2>9, <3>1, <3>2, <3>3, <3>4
  <2>10. ASSUME NEW c \in Colours, NEW p \in PieceTypes, NEW s \in Left(us, m, c, p) \cup Filled(us, m, c, p)
         PROVE  <<c, p, s>> \in P
    BY <1>1, <2>5, <2>6, <2>8
  <2> QED BY <2>9, <2>10
<1>4. Xor(PieceKeys(b), P) = PieceKeys(made)
  <2> HIDE DEF P, made, us
  <2>1. \A c \in Colours, p \in PieceTypes : \A s : <<c, p, s>> \in PieceKeys(b) <=> s \in pieces(b, c, p)
    BY Keys
  <2>2. \A c \in Colours, p \in PieceTypes : \A s : <<c, p, s>> \in PieceKeys(made) <=> s \in pieces(made, c, p)
    BY <1>2, Keys
  <2>3. \A c \in Colours, p \in PieceTypes : \A s :
           <<c, p, s>> \in P <=> s \in Left(us, m, c, p) \cup Filled(us, m, c, p)
    BY <1>3
  <2>4. \A k \in PieceKeys(b) \cup PieceKeys(made) \cup P :
           \E c \in Colours, p \in PieceTypes : \E s : k = <<c, p, s>>
    BY <1>2, <1>3, Keys
  <2>5. ASSUME NEW c \in Colours, NEW p \in PieceTypes, NEW s
        PROVE  <<c, p, s>> \in PieceKeys(made)
               <=> (<<c, p, s>> \in PieceKeys(b) /\ <<c, p, s>> \notin P)
                   \/ (<<c, p, s>> \in P /\ <<c, p, s>> \notin PieceKeys(b))
    BY <1>2, <2>1, <2>2, <2>3
  <2>6. ASSUME NEW k
        PROVE  k \in PieceKeys(made) <=> (k \in PieceKeys(b) /\ k \notin P) \/ (k \in P /\ k \notin PieceKeys(b))
    BY <2>4, <2>5
  <2> QED BY <2>6 DEF Xor
<1>5. Xor({MoveKey(us)}, Q) = {MoveKey(them)}
  BY <1>1, Keys DEF Xor
<1>6. Xor(EpKeys(ep), Xor(EpKeys(ep), EpKeys(EpMade(m)))) = EpKeys(EpMade(m))
  BY DEF Xor
<1>7. \A k \in PieceKeys(b) \cup P : k[1] \in {"WHITE", "BLACK"}
  BY <1>3, Keys DEF Colours
<1>8. \A k \in EpKeys(ep) \cup Xor(EpKeys(ep), EpKeys(EpMade(m))) : k[1] = "ep"
  BY Keys DEF Xor
<1>9. /\ ZobristHash(b, a) = PieceKeys(b) \cup {MoveKey(us)} \cup RightKeys(rights) \cup EpKeys(ep)
      /\ ZobristHash(made, next)
         = PieceKeys(made) \cup {MoveKey(them)} \cup RightKeys(rights \ lost) \cup EpKeys(EpMade(m))
      /\ ZobristDiff(m, us, ep, lost)
         = Xor(P, Xor(Xor(EpKeys(ep), EpKeys(EpMade(m))), Xor(RightKeys(lost), Q)))
  BY <1>1 DEF ZobristHash, ZobristDiff
<1>10. \A k \in {MoveKey(us)} \cup Q : k[1] = "move"
  BY Keys
<1>11. \A k \in RightKeys(rights) \cup RightKeys(lost) : k[1] = "cr"
  BY Keys
<1> HIDE DEF P, Q, made, us, them
<1>12. Xor(ZobristHash(b, a), ZobristDiff(m, us, ep, lost))
       = Xor(PieceKeys(b), P) \cup Xor({MoveKey(us)}, Q) \cup Xor(RightKeys(rights), RightKeys(lost))
         \cup Xor(EpKeys(ep), Xor(EpKeys(ep), EpKeys(EpMade(m))))
  <2> DEFINE A == PieceKeys(b)
             B == {MoveKey(us)}
             C == RightKeys(rights)
             D == EpKeys(ep)
             R == RightKeys(lost)
             T == Xor(EpKeys(ep), EpKeys(EpMade(m)))
  <2>1. /\ \A k \in A \cup P : k[1] \in {"WHITE", "BLACK"}
        /\ \A k \in B \cup Q : k[1] = "move"
        /\ \A k \in C \cup R : k[1] = "cr"
        /\ \A k \in D \cup T : k[1] = "ep"
    BY <1>7, <1>8, <1>10, <1>11
  <2>2. /\ ZobristHash(b, a) = A \cup B \cup C \cup D
        /\ ZobristDiff(m, us, ep, lost) = Xor(P, Xor(T, Xor(R, Q)))
    BY <1>9
  <2> HIDE DEF A, B, C, D, R, T, rights, ep
  <2>3. Xor(A \cup B \cup C \cup D, Xor(P, Xor(T, Xor(R, Q))))
        = Xor(A, P) \cup Xor(B, Q) \cup Xor(C, R) \cup Xor(D, T)
    <3>1. ASSUME NEW k PROVE k \in Xor(P, Xor(T, Xor(R, Q))) <=> k \in P \cup Q \cup R \cup T
      BY <2>1 DEF Xor
    <3>2. ASSUME NEW k
          PROVE  k \in Xor(A \cup B \cup C \cup D, P \cup Q \cup R \cup T)
                 <=> k \in Xor(A, P) \cup Xor(B, Q) \cup Xor(C, R) \cup Xor(D, T)
      BY <2>1 DEF Xor
    <3>3. Xor(P, Xor(T, Xor(R, Q))) = P \cup Q \cup R \cup T
      BY <3>1
    <3> QED BY <3>2, <3>3
  <2> QED BY <2>2, <2>3 DEF A, B, C, D, R, T
<1>13. Xor(RightKeys(rights), RightKeys(lost)) = RightKeys(rights \ lost)
  <2>1. rights \in SUBSET (Colours \X Sides) /\ lost \in SUBSET rights
    OBVIOUS
  <2> HIDE DEF rights
  <2> QED BY <2>1, Keys
<1> QED BY <1>4, <1>5, <1>6, <1>9, <1>12, <1>13 DEF us, made

\* The same for a null move, which changes the side to move and forgets the file of
\* the last double push.
LEMMA NullHash ==
  ASSUME NEW b \in Boards, NEW ep, NEW a, NEW next, NEW rights,
         a.castling_rights = rights, a.en_passent_target = ep,
         next.castling_rights = rights, next.en_passent_target = NO_FILE
  PROVE  Xor(ZobristHash(b, a), ZobristNulldiff(b.whos_move, ep)) = ZobristHash(NullBoard(b), next)
<1> DEFINE us == b.whos_move
           them == Other(us)
           Q == {MoveKey(us), MoveKey(them)}
<1>1. us \in Colours /\ them \in Colours /\ them # us
  BY DEF Boards, Colours, Other
<1>2. NullBoard(b).whos_move = them /\ PieceKeys(NullBoard(b)) = PieceKeys(b)
  BY DEF NullBoard, Boards, PieceKeys, pieces
<1>3. /\ ZobristHash(b, a) = PieceKeys(b) \cup {MoveKey(us)} \cup RightKeys(rights) \cup EpKeys(ep)
      /\ ZobristHash(NullBoard(b), next)
         = PieceKeys(b) \cup {MoveKey(them)} \cup RightKeys(rights) \cup EpKeys(NO_FILE)
      /\ ZobristNulldiff(us, ep) = Xor(EpKeys(ep), Q)
  BY <1>2 DEF ZobristHash, ZobristNulldiff
<1>4. /\ \A k \in PieceKeys(b) \cup {} : k[1] \in {"WHITE", "BLACK"}
      /\ \A k \in RightKeys(rights) \cup {} : k[1] = "cr"
      /\ \A k \in EpKeys(ep) \cup EpKeys(ep) : k[1] = "ep"
      /\ \A k \in {MoveKey(us)} \cup Q : k[1] = "move"
  BY Keys DEF Colours
<1>5. Xor({}, Xor(EpKeys(ep), Xor({}, Q))) = Xor(EpKeys(ep), Q)
  BY DEF Xor
<1> HIDE DEF us, them, Q
<1>6. Xor(PieceKeys(b) \cup {MoveKey(us)} \cup RightKeys(rights) \cup EpKeys(ep),
          Xor({}, Xor(EpKeys(ep), Xor({}, Q))))
      = Xor(PieceKeys(b), {}) \cup Xor({MoveKey(us)}, Q) \cup Xor(RightKeys(rights), {})
        \cup Xor(EpKeys(ep), EpKeys(ep))
  BY <1>4, XorByFamily
<1>7. Xor({MoveKey(us)}, Q) = {MoveKey(them)}
  BY <1>1, Keys DEF Xor, Q
<1>8. EpKeys(NO_FILE) = {} /\ Xor(EpKeys(ep), EpKeys(ep)) = {}
  BY DEF EpKeys, Xor
<1> QED BY <1>3, <1>5, <1>6, <1>7, <1>8, Flips DEF us
=============================================================================
