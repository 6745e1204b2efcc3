----------------------------- MODULE MoveGenProofs -----------------------------
(***************************************************************************)
(* The generator and make_move, on every position that a game can reach.   *)
(* A move of get_moves, out of check, in check and in double check, is one *)
(* that make_move may take (Generated, CapturedIsThere), and what it makes *)
(* of a lawful position is a lawful one (MadeLawful): no pinned piece      *)
(* leaves its line, no king steps where it is attacked, through itself or  *)
(* not, no check is left unanswered, and no capture en passant opens a     *)
(* line to the king.  Nor is anything left out (KeepingNeeded,             *)
(* RetreatNeeded, PassingNeeded): what the generator declines leaves the   *)
(* king in check.  So the moves it makes are those of Rules                *)
(* (GeneratesLegal); and gives_check, asked before a move of that kind is  *)
(* made, knows whether the king will then be attacked (ForeseesChecks).    *)
(***************************************************************************)
EXTENDS MoveGen, Rules, PositionProofs

\* The tables of lines and of squares between, in coordinates.
Aligned(s, t, q) ==
  \/ rank(s) = rank(t) /\ rank(q) = rank(s)
  \/ file(s) = file(t) /\ file(q) = file(s)
  \/ rank(t) - rank(s) = file(t) - file(s) /\ rank(q) - rank(s) = file(q) - file(s)
  \/ rank(t) - rank(s) = file(s) - file(t) /\ rank(q) - rank(s) = file(s) - file(q)
Strictly(x, a, b) == (a < x /\ x < b) \/ (b < x /\ x < a)
Inside(s, t, q) == Aligned(s, t, q) /\ (Strictly(rank(q), rank(s), rank(t)) \/ Strictly(file(q), file(s), file(t)))

\* A square is its rank and its file.
LEMMA Coordinates ==
  /\ \A s \in Sq : rank(s) \in 0 .. 7 /\ file(s) \in 0 .. 7 /\ s = 8 * rank(s) + file(s)
  /\ \A s, t \in Sq : rank(s) = rank(t) /\ file(s) = file(t) => s = t
  /\ \A r \in 0 .. 7, f \in 0 .. 7 : Square(r, f) \in Sq /\ rank(Square(r, f)) = r /\ file(Square(r, f)) = f
BY DEF Sq, rank, file, Square

\* The squares a rook or a bishop reaches on an empty board (attacks_table's rays).
LEMMA Seg ==
  /\ \A s, t \in Sq : t \in RookLines[s] <=> s # t /\ (rank(s) = rank(t) \/ file(s) = file(t))
  /\ \A s, t \in Sq : t \in BishopLines[s] <=> s # t /\ (rank(t) - rank(s) = file(t) - file(s) \/ rank(t) - rank(s) = file(s) - file(t))
<1>1. \A s, t \in Sq : t \in RookLines[s] <=> s # t /\ (rank(s) = rank(t) \/ file(s) = file(t))
  BY DEF RookLines, OnRookLine
<1>2. ASSUME NEW s \in Sq, NEW t \in Sq PROVE t \in BishopLines[s] <=> s # t /\ (rank(t) - rank(s) = file(t) - file(s) \/ rank(t) - rank(s) = file(s) - file(t))
   BY Coordinates DEF BishopLines, OnBishopLine, Dist
<1> QED BY <1>1, <1>2

\* The line through two squares that share a rank, a file or a diagonal.
LEMMA Ln == \A s, t, q \in Sq : q \in Line[s][t] <=> s # t /\ Aligned(s, t, q)
<1> SUFFICES ASSUME NEW s \in Sq, NEW t \in Sq, NEW q \in Sq PROVE q \in Line[s][t] <=> s # t /\ Aligned(s, t, q)
  OBVIOUS
<1>1. Line[s][t] = CASE OnBishopLine(s, t) -> (BishopLines[s] \cap BishopLines[t]) \cup {s, t}
      [] OnRookLine(s, t) -> (RookLines[s] \cap RookLines[t]) \cup {s, t}
      [] OTHER -> {}
  BY DEF Line
<1>a. OnBishopLine(s, t) <=> t \in BishopLines[s]
  BY DEF BishopLines
<1>b. OnRookLine(s, t) <=> t \in RookLines[s]
  BY DEF RookLines
<1>c. rank(s) \in 0 .. 7 /\ file(s) \in 0 .. 7 /\ rank(t) \in 0 .. 7 /\ file(t) \in 0 .. 7 /\ rank(q) \in 0 .. 7 /\ file(q) \in 0 .. 7
  BY Coordinates
<1>d. (s = t <=> rank(s) = rank(t) /\ file(s) = file(t)) /\ (q = t <=> rank(q) = rank(t) /\ file(q) = file(t)) /\ (s = q <=> rank(s) = rank(q) /\ file(s) = file(q))
  BY Coordinates
<1>2. CASE OnBishopLine(s, t)
  <2>1. q \in Line[s][t] <=> (q \in BishopLines[s] /\ q \in BishopLines[t]) \/ q = s \/ q = t
    <3>1. ~OnRookLine(s, t)
      BY <1>2, <1>a, <1>b, <1>c, <1>d, Seg
    <3> QED BY <1>1, <1>2, <3>1
  <2>2. s # t /\ (rank(t) - rank(s) = file(t) - file(s) \/ rank(t) - rank(s) = file(s) - file(t))
    BY <1>2, <1>a, Seg
  <2>3. q \in BishopLines[s] /\ q \in BishopLines[t] <=>
          /\ s # q /\ (rank(q) - rank(s) = file(q) - file(s) \/ rank(q) - rank(s) = file(s) - file(q))
          /\ t # q /\ (rank(q) - rank(t) = file(q) - file(t) \/ rank(q) - rank(t) = file(t) - file(q))
    BY Seg
  <2> QED BY <2>1, <2>2, <2>3, <1>c, <1>d DEF Aligned
<1>3. CASE ~OnBishopLine(s, t) /\ OnRookLine(s, t)
  BY <1>1, <1>3, <1>b, <1>a, <1>c, <1>d, Seg DEF Aligned
<1>4. CASE ~OnBishopLine(s, t) /\ ~OnRookLine(s, t)
  BY <1>1, <1>4, <1>b, <1>a, <1>c, <1>d, Seg DEF Aligned
<1> QED BY <1>2, <1>3, <1>4

\* The squares strictly between two such.
LEMMA Btw == \A s, t, q \in Sq : q \in Between[s][t] <=> Inside(s, t, q)
<1> SUFFICES ASSUME NEW s \in Sq, NEW t \in Sq, NEW q \in Sq PROVE q \in Between[s][t] <=> Inside(s, t, q)
  OBVIOUS
<1>1. q \in Between[s][t] <=> q \in Line[s][t] /\ q # s /\ q # t /\ Within(rank(q), rank(s), rank(t))
                                 /\ Within(file(q), file(s), file(t))
  BY DEF Between
<1>c. rank(s) \in 0 .. 7 /\ file(s) \in 0 .. 7 /\ rank(t) \in 0 .. 7 /\ file(t) \in 0 .. 7 /\ rank(q) \in 0 .. 7 /\ file(q) \in 0 .. 7
  BY Coordinates
<1>d. (s = t <=> rank(s) = rank(t) /\ file(s) = file(t)) /\ (q = t <=> rank(q) = rank(t) /\ file(q) = file(t)) /\ (s = q <=> rank(s) = rank(q) /\ file(s) = file(q))
  BY Coordinates
<1> QED BY <1>1, <1>c, <1>d, Ln DEF Within, Inside, Aligned, Strictly

\* What stands between two squares and what attacks one from the other are the same
\* both ways, pawns going the other way for the other colour.
LEMMA Sym ==
  \A s, t \in Sq :
    /\ Between[s][t] = Between[t][s]
    /\ t \in RookLines[s] <=> s \in RookLines[t]
    /\ t \in BishopLines[s] <=> s \in BishopLines[t]
    /\ t \in KnightAttacks[s] <=> s \in KnightAttacks[t]
    /\ t \in KingAttacks[s] <=> s \in KingAttacks[t]
    /\ \A c \in Colours : t \in pawn_attacks(c, s) <=> s \in pawn_attacks(Other(c), t)
<1> SUFFICES ASSUME NEW s \in Sq, NEW t \in Sq
             PROVE  /\ Between[s][t] = Between[t][s]
                    /\ t \in RookLines[s] <=> s \in RookLines[t]
                    /\ t \in BishopLines[s] <=> s \in BishopLines[t]
                    /\ t \in KnightAttacks[s] <=> s \in KnightAttacks[t]
                    /\ t \in KingAttacks[s] <=> s \in KingAttacks[t]
                    /\ \A c \in Colours : t \in pawn_attacks(c, s) <=> s \in pawn_attacks(Other(c), t)
  OBVIOUS
<1>c. /\ rank(s) \in 0 .. 7 /\ file(s) \in 0 .. 7 /\ rank(t) \in 0 .. 7 /\ file(t) \in 0 .. 7
  BY Coordinates
<1>1. Between[s][t] = Between[t][s]
  <2>1. Between[s][t] \subseteq Sq /\ Between[t][s] \subseteq Sq
    BY DEF Between, Line, RookLines, BishopLines
  <2>2. ASSUME NEW q \in Sq PROVE Inside(s, t, q) <=> Inside(t, s, q)
    <3>1. rank(q) \in 0 .. 7 /\ file(q) \in 0 .. 7
      BY Coordinates
    <3> QED BY <1>c, <3>1 DEF Inside, Aligned, Strictly
  <2> QED BY <2>1, <2>2, Btw
<1>2. t \in RookLines[s] <=> s \in RookLines[t]
  BY Seg
<1>3. t \in BishopLines[s] <=> s \in BishopLines[t]
  BY <1>c, Seg
<1>4. t \in KnightAttacks[s] <=> s \in KnightAttacks[t]
  <2>1. Dist(rank(s), rank(t)) = Dist(rank(t), rank(s)) /\ Dist(file(s), file(t)) = Dist(file(t), file(s))
    BY <1>c DEF Dist
  <2> QED BY <2>1 DEF KnightAttacks
<1>5. t \in KingAttacks[s] <=> s \in KingAttacks[t]
  <2>1. Dist(rank(s), rank(t)) = Dist(rank(t), rank(s)) /\ Dist(file(s), file(t)) = Dist(file(t), file(s))
    BY <1>c DEF Dist
  <2> QED BY <2>1 DEF KingAttacks
<1>6. ASSUME NEW c \in Colours PROVE t \in pawn_attacks(c, s) <=> s \in pawn_attacks(Other(c), t)
  <2>1. Dist(file(s), file(t)) = Dist(file(t), file(s))
    BY <1>c DEF Dist
  <2>2. forwards(Other(c)) = -forwards(c) /\ forwards(c) \in Int /\ Other(c) \in Colours
    BY DEF forwards, Other, Colours
  <2>3. rank(t) * 8 = rank(s) * 8 + forwards(c) <=> rank(s) * 8 = rank(t) * 8 + forwards(Other(c))
    BY <1>c, <2>2
  <2> QED BY <2>1, <2>2, <2>3 DEF pawn_attacks, PawnAttacks
<1> QED BY <1>1, <1>2, <1>3, <1>4, <1>5, <1>6

\* A piece o between a king and a slider s: it is nearer on the slider's line; as it moves
\* along that line it stays between them, takes the slider or passes over one of them; and
\* of two sliders that it stands before, one stands before the other.
LEMMA Rays ==
  /\ \A k, s \in Sq : \A o \in Between[k][s] :
       /\ o \in Sq /\ o # k /\ o # s /\ k # s
       /\ Between[k][o] \subseteq Between[k][s] \ {o}
       /\ s \in RookLines[k] => o \in RookLines[k]
       /\ s \in BishopLines[k] => o \in BishopLines[k]
  /\ \A k, s, o \in Sq : o \in Between[k][s] =>
       \A t \in Line[k][o] : t \in {o, k, s} \/ t \in Between[k][s] \/ s \in Between[o][t] \/ k \in Between[o][t]
  /\ \A k, s, o, q \in Sq : o \in Between[k][s] /\ o \in Between[k][q]
       => s = q \/ s \in Between[k][q] \/ q \in Between[k][s]
<1>0. \A s, t \in Sq : Between[s][t] \subseteq Sq /\ Line[s][t] \subseteq Sq
    BY DEF Between, Line, RookLines, BishopLines
<1>1. ASSUME NEW k \in Sq, NEW s \in Sq, NEW o \in Between[k][s]
      PROVE /\ o \in Sq /\ o # k /\ o # s /\ k # s
            /\ Between[k][o] \subseteq Between[k][s] \ {o}
            /\ s \in RookLines[k] => o \in RookLines[k]
            /\ s \in BishopLines[k] => o \in BishopLines[k]
  <2>1. o \in Sq /\ Inside(k, s, o)
    BY <1>0, Btw
  <2>c. /\ rank(s) \in 0 .. 7 /\ file(s) \in 0 .. 7 /\ rank(k) \in 0 .. 7 /\ file(k) \in 0 .. 7
        /\ rank(o) \in 0 .. 7 /\ file(o) \in 0 .. 7
    BY <2>1, Coordinates
  <2>2. o # k /\ o # s /\ k # s
    BY <2>1, <2>c DEF Inside, Aligned, Strictly
  <2>3. ASSUME NEW q \in Sq, Inside(k, o, q) PROVE Inside(k, s, q) /\ q # o
    <3>1. rank(q) \in 0 .. 7 /\ file(q) \in 0 .. 7
      BY Coordinates
    <3> QED BY <2>1, <2>3, <2>c, <3>1 DEF Inside, Aligned, Strictly
  <2>4. Between[k][o] \subseteq Between[k][s] \ {o}
    BY <1>0, <2>1, <2>3, Btw
  <2>5. s \in RookLines[k] => o \in RookLines[k]
    BY <2>1, <2>2, <2>c, Seg, Coordinates DEF Inside, Aligned, Strictly
  <2>6. s \in BishopLines[k] => o \in BishopLines[k]
    BY <2>1, <2>2, <2>c, Seg DEF Inside, Aligned, Strictly
  <2> QED BY <2>1, <2>2, <2>4, <2>5, <2>6
<1>2. ASSUME NEW k \in Sq, NEW s \in Sq, NEW o \in Sq, o \in Between[k][s], NEW t \in Line[k][o]
      PROVE t \in {o, k, s} \/ t \in Between[k][s] \/ s \in Between[o][t] \/ k \in Between[o][t]
  <2>1. t \in Sq /\ Inside(k, s, o) /\ Aligned(k, o, t)
    BY <1>0, <1>2, Btw, Ln
  <2>c. /\ rank(s) \in 0 .. 7 /\ file(s) \in 0 .. 7 /\ rank(k) \in 0 .. 7 /\ file(k) \in 0 .. 7
        /\ rank(o) \in 0 .. 7 /\ file(o) \in 0 .. 7 /\ rank(t) \in 0 .. 7 /\ file(t) \in 0 .. 7
    BY <2>1, Coordinates
  <2>d. /\ rank(t) = rank(s) /\ file(t) = file(s) => t = s
        /\ rank(t) = rank(k) /\ file(t) = file(k) => t = k
        /\ rank(t) = rank(o) /\ file(t) = file(o) => t = o
    BY <2>1, Coordinates
  <2>e. /\ t = o <=> rank(t) = rank(o) /\ file(t) = file(o)
        /\ t = k <=> rank(t) = rank(k) /\ file(t) = file(k)
        /\ t = s <=> rank(t) = rank(s) /\ file(t) = file(s)
    BY <2>d
  <2>2. t = o \/ t = k \/ t = s \/ Inside(k, s, t) \/ Inside(o, t, s) \/ Inside(o, t, k)
    <3>1. CASE rank(k) = rank(o) /\ rank(t) = rank(k)
      BY <2>1, <2>c, <2>e, <3>1 DEF Inside, Aligned, Strictly
    <3>2. CASE file(k) = file(o) /\ file(t) = file(k)
      BY <2>1, <2>c, <2>e, <3>2 DEF Inside, Aligned, Strictly
    <3>3. CASE rank(o) - rank(k) = file(o) - file(k) /\ rank(t) - rank(k) = file(t) - file(k)
      BY <2>1, <2>c, <2>e, <3>3 DEF Inside, Aligned, Strictly
    <3>4. CASE rank(o) - rank(k) = file(k) - file(o) /\ rank(t) - rank(k) = file(k) - file(t)
      BY <2>1, <2>c, <2>e, <3>4 DEF Inside, Aligned, Strictly
    <3> QED BY <2>1, <3>1, <3>2, <3>3, <3>4 DEF Aligned
  <2> QED BY <2>1, <2>2, Btw
<1>3. ASSUME NEW k \in Sq, NEW s \in Sq, NEW o \in Sq, NEW q \in Sq, o \in Between[k][s], o \in Between[k][q]
      PROVE  s = q \/ s \in Between[k][q] \/ q \in Between[k][s]
  <2>1. Inside(k, s, o) /\ Inside(k, q, o)
    BY <1>3, Btw
  <2>c. /\ rank(s) \in 0 .. 7 /\ file(s) \in 0 .. 7 /\ rank(k) \in 0 .. 7 /\ file(k) \in 0 .. 7
        /\ rank(o) \in 0 .. 7 /\ file(o) \in 0 .. 7 /\ rank(q) \in 0 .. 7 /\ file(q) \in 0 .. 7
    BY Coordinates
  <2>d. rank(q) = rank(s) /\ file(q) = file(s) => q = s
    BY Coordinates
  <2>2. s = q \/ Inside(k, q, s) \/ Inside(k, s, q)
    BY <2>1, <2>c, <2>d DEF Inside, Aligned, Strictly
  <2> QED BY <2>2, Btw
<1> QED BY <1>1, <1>2, <1>3
-----------------------------------------------------------------------------
\* Where pawns go, and what a piece that leaps leaves between.
LEMMA Steps ==
  /\ \A c \in Colours : \A o \in Sq : rank(o) \in 1 .. 6 =>
       /\ o + forwards(c) \in Sq /\ o + forwards(c) # o
       /\ file(o + forwards(c)) = file(o) /\ rank(o + forwards(c)) = rank(o) + (forwards(c) \div 8)
       /\ Between[o][o + forwards(c)] = {}
       /\ \A k \in Sq : k # o /\ file(o) = file(k) => o + forwards(c) \in Line[k][o]
       /\ rank(o) = relative_rank(c, 1) =>
            /\ o + 2 * forwards(c) \in Sq /\ o + 2 * forwards(c) # o
            /\ file(o + 2 * forwards(c)) = file(o)
            /\ rank(o + 2 * forwards(c)) = relative_rank(c, 3)
            /\ Between[o][o + 2 * forwards(c)] \subseteq {o + forwards(c)}
            /\ o + forwards(c) = Square(relative_rank(c, 2), file(o))
            /\ o + 2 * forwards(c) = Square(relative_rank(c, 3), file(o))
            /\ \A k \in Sq : k # o /\ file(o) = file(k) => o + 2 * forwards(c) \in Line[k][o]
  /\ \A c \in Colours : \A o \in Sq : \A t \in pawn_attacks(c, o) :
       t \in Sq /\ t # o /\ rank(t) = rank(o) + (forwards(c) \div 8) /\ Between[o][t] = {}
       /\ Dist(file(o), file(t)) = 1
  /\ \A o \in Sq : \A t \in KnightAttacks[o] \cup KingAttacks[o] : t \in Sq /\ t # o /\ Between[o][t] = {}
<1>0. \A s, t \in Sq : Between[s][t] \subseteq Sq /\ Line[s][t] \subseteq Sq
    BY DEF Between, Line, RookLines, BishopLines
<1>a. forwards("WHITE") = 8 /\ forwards("BLACK") = -8 /\ 8 \div 8 = 1 /\ (-8) \div 8 = -1
      /\ relative_rank("WHITE", 1) = 1 /\ relative_rank("BLACK", 1) = 6
      /\ relative_rank("WHITE", 2) = 2 /\ relative_rank("BLACK", 2) = 5
      /\ relative_rank("WHITE", 3) = 3 /\ relative_rank("BLACK", 3) = 4
  BY DEF forwards, relative_rank
<1>1. ASSUME NEW c \in Colours, NEW o \in Sq, rank(o) \in 1 .. 6
      PROVE
       /\ o + forwards(c) \in Sq /\ o + forwards(c) # o
       /\ file(o + forwards(c)) = file(o) /\ rank(o + forwards(c)) = rank(o) + (forwards(c) \div 8)
       /\ Between[o][o + forwards(c)] = {}
       /\ \A k \in Sq : k # o /\ file(o) = file(k) => o + forwards(c) \in Line[k][o]
       /\ rank(o) = relative_rank(c, 1) =>
            /\ o + 2 * forwards(c) \in Sq /\ o + 2 * forwards(c) # o
            /\ file(o + 2 * forwards(c)) = file(o)
            /\ rank(o + 2 * forwards(c)) = relative_rank(c, 3)
            /\ Between[o][o + 2 * forwards(c)] \subseteq {o + forwards(c)}
            /\ o + forwards(c) = Square(relative_rank(c, 2), file(o))
            /\ o + 2 * forwards(c) = Square(relative_rank(c, 3), file(o))
            /\ \A k \in Sq : k # o /\ file(o) = file(k) => o + 2 * forwards(c) \in Line[k][o]
  <2> DEFINE t == o + forwards(c)
             w == o + 2 * forwards(c)
  <2>1. t \in Sq /\ t # o /\ file(t) = file(o) /\ rank(t) = rank(o) + (forwards(c) \div 8)
        /\ forwards(c) \div 8 \in {1, -1}
    <3>1. CASE c = "WHITE"
      BY <1>1, <1>a, <3>1 DEF Sq, rank, file
    <3>2. CASE c = "BLACK"
      BY <1>1, <1>a, <3>2 DEF Sq, rank, file
    <3> QED BY <3>1, <3>2 DEF Colours
  <2>2. file(o) \in 0 .. 7 /\ rank(o) \in 0 .. 7
    BY Coordinates
  <2> HIDE DEF t
  <2>3. Between[o][t] = {}
    <3>1. ASSUME NEW q \in Sq, Inside(o, t, q) PROVE FALSE
      <4>1. file(q) \in 0 .. 7 /\ rank(q) \in 0 .. 7
        BY Coordinates
      <4> QED BY <2>1, <2>2, <3>1, <4>1 DEF Inside, Aligned, Strictly
    <3> QED BY <1>0, <2>1, <3>1, Btw
  <2>4. \A k \in Sq : k # o /\ file(o) = file(k) => t \in Line[k][o]
    BY <2>1, Ln DEF Aligned
  <2>5. ASSUME rank(o) = relative_rank(c, 1)
        PROVE  /\ w \in Sq /\ w # o
               /\ file(w) = file(o)
               /\ rank(w) = relative_rank(c, 3)
               /\ Between[o][w] \subseteq {t}
               /\ t = Square(relative_rank(c, 2), file(o))
               /\ w = Square(relative_rank(c, 3), file(o))
               /\ \A k \in Sq : k # o /\ file(o) = file(k) => w \in Line[k][o]
    <3>1. /\ w \in Sq /\ w # o /\ file(w) = file(o) /\ rank(w) = rank(o) + 2 * (forwards(c) \div 8)
          /\ rank(w) = relative_rank(c, 3) /\ rank(t) = relative_rank(c, 2)
      <4>1. CASE c = "WHITE"
        BY <2>1, <2>5, <1>a, <4>1 DEF Sq, rank, file
      <4>2. CASE c = "BLACK"
        BY <2>1, <2>5, <1>a, <4>2 DEF Sq, rank, file
      <4> QED BY <4>1, <4>2 DEF Colours
    <3> HIDE DEF w
    <3>2. t = Square(relative_rank(c, 2), file(o)) /\ w = Square(relative_rank(c, 3), file(o))
      BY <2>1, <3>1, Coordinates DEF Square
    <3>3. \A k \in Sq : k # o /\ file(o) = file(k) => w \in Line[k][o]
      BY <3>1, Ln DEF Aligned
    <3>4. ASSUME NEW q \in Sq, Inside(o, w, q) PROVE q = t
      <4>1. file(q) \in 0 .. 7 /\ rank(q) \in 0 .. 7
        BY Coordinates
      <4>2. file(q) = file(t) /\ rank(q) = rank(t)
        BY <2>1, <2>2, <3>1, <3>4, <4>1 DEF Inside, Aligned, Strictly
      <4> QED BY <2>1, <4>2, Coordinates
    <3>5. Between[o][w] \subseteq {t}
      BY <1>0, <3>1, <3>4, Btw
    <3> QED BY <3>1, <3>2, <3>3, <3>5
  <2> QED BY <2>1, <2>3, <2>4, <2>5 DEF t, w
<1>2. ASSUME NEW o \in Sq, NEW t \in Sq, \/ t \in KnightAttacks[o]
                                         \/ t \in KingAttacks[o]
                                         \/ \E c \in Colours : t \in pawn_attacks(c, o)
      PROVE  t # o /\ Between[o][t] = {}
  <2>1. file(o) \in 0 .. 7 /\ rank(o) \in 0 .. 7 /\ file(t) \in 0 .. 7 /\ rank(t) \in 0 .. 7
    BY Coordinates
  <2>2. \/ {Dist(rank(o), rank(t)), Dist(file(o), file(t))} = {1, 2}
        \/ o # t /\ Dist(rank(o), rank(t)) <= 1 /\ Dist(file(o), file(t)) <= 1
        \/ (rank(t) * 8 = rank(o) * 8 + 8 \/ rank(t) * 8 = rank(o) * 8 - 8) /\ Dist(file(o), file(t)) = 1
    BY <1>2, <1>a DEF KnightAttacks, KingAttacks, pawn_attacks, PawnAttacks, Colours
  <2>3. \/ Dist(rank(o), rank(t)) = 1 /\ Dist(file(o), file(t)) = 2
        \/ Dist(rank(o), rank(t)) = 2 /\ Dist(file(o), file(t)) = 1
        \/ o # t /\ Dist(rank(o), rank(t)) <= 1 /\ Dist(file(o), file(t)) <= 1
    <3>1. CASE {Dist(rank(o), rank(t)), Dist(file(o), file(t))} = {1, 2}
      BY <3>1
    <3>2. CASE (rank(t) * 8 = rank(o) * 8 + 8 \/ rank(t) * 8 = rank(o) * 8 - 8) /\ Dist(file(o), file(t)) = 1
      BY <2>1, <3>2 DEF Dist
    <3> QED BY <2>2, <3>1, <3>2
  <2>4. t # o
    BY <2>1, <2>3 DEF Dist
  <2>5. ASSUME NEW q \in Sq, Inside(o, t, q) PROVE FALSE
    <3>1. file(q) \in 0 .. 7 /\ rank(q) \in 0 .. 7
      BY Coordinates
    <3> QED BY <2>1, <2>3, <2>5, <3>1 DEF Inside, Aligned, Strictly, Dist
  <2> QED BY <1>0, <2>4, <2>5, Btw
<1>3. ASSUME NEW c \in Colours, NEW o \in Sq, NEW t \in pawn_attacks(c, o)
      PROVE  t \in Sq /\ rank(t) = rank(o) + (forwards(c) \div 8) /\ Dist(file(o), file(t)) = 1
  <2>1. t \in Sq /\ rank(t) * 8 = rank(o) * 8 + forwards(c) /\ Dist(file(o), file(t)) = 1
    BY <1>3 DEF pawn_attacks, PawnAttacks
  <2>2. rank(o) \in 0 .. 7 /\ rank(t) \in 0 .. 7
    BY <2>1, Coordinates
  <2> QED BY <1>a, <2>1, <2>2 DEF Colours
<1>4. \A o \in Sq : KnightAttacks[o] \cup KingAttacks[o] \subseteq Sq
  BY DEF KnightAttacks, KingAttacks
<1>5. \A c \in Colours : \A o \in Sq : rank(o) \in 1 .. 6 =>
       /\ o + forwards(c) \in Sq /\ o + forwards(c) # o
       /\ file(o + forwards(c)) = file(o) /\ rank(o + forwards(c)) = rank(o) + (forwards(c) \div 8)
       /\ Between[o][o + forwards(c)] = {}
       /\ \A k \in Sq : k # o /\ file(o) = file(k) => o + forwards(c) \in Line[k][o]
       /\ rank(o) = relative_rank(c, 1) =>
            /\ o + 2 * forwards(c) \in Sq /\ o + 2 * forwards(c) # o
            /\ file(o + 2 * forwards(c)) = file(o)
            /\ rank(o + 2 * forwards(c)) = relative_rank(c, 3)
            /\ Between[o][o + 2 * forwards(c)] \subseteq {o + forwards(c)}
            /\ o + forwards(c) = Square(relative_rank(c, 2), file(o))
            /\ o + 2 * forwards(c) = Square(relative_rank(c, 3), file(o))
            /\ \A k \in Sq : k # o /\ file(o) = file(k) => o + 2 * forwards(c) \in Line[k][o]
  BY <1>1
<1>6. \A c \in Colours : \A o \in Sq : \A t \in pawn_attacks(c, o) :
       t \in Sq /\ t # o /\ rank(t) = rank(o) + (forwards(c) \div 8) /\ Between[o][t] = {}
       /\ Dist(file(o), file(t)) = 1
  BY <1>2, <1>3
<1>7. \A o \in Sq : \A t \in KnightAttacks[o] \cup KingAttacks[o] : t \in Sq /\ t # o /\ Between[o][t] = {}
  BY <1>2, <1>4
<1> QED BY <1>5, <1>6, <1>7
-----------------------------------------------------------------------------
\* What strikes a square: the pieces that leap to it, and those in line with it that
\* nothing stands before.
Leapers(b, c, k) ==
    (KnightAttacks[k] \cap pieces(b, c, "KNIGHT"))
    \cup (pawn_attacks(Other(c), k) \cap pieces(b, c, "PAWN"))
LinedUp(b, c, k) ==
    (RookLines[k] \cap RookLike(b, c)) \cup (BishopLines[k] \cap BishopLike(b, c))
Strikers(b, c, k) ==
    Leapers(b, c, k) \cup {s \in LinedUp(b, c, k) : Between[k][s] \cap b.occupied_bb = {}}

\* update_checkers finds what strikes the king; the x-rays find the piece that stands
\* alone between it and a slider; update_attacks, what strikes any square but for the
\* king itself.
LEMMA Struck ==
  /\ \A b \in Boards :
       Checkers(b) = Strikers(b, Other(b.whos_move), b.king_square[b.whos_move])
  /\ \A b \in Boards : \A k \in Sq : \A c, own \in Colours : \A s \in LinedUp(b, c, k) :
       \A o \in b.colour_bb[own] :
          Between[k][s] \cap b.occupied_bb = {o} => o \in Shields(b, k, c, own)
  /\ \A b \in Boards : \A k \in Sq : \A c, own \in Colours : \A o \in Shields(b, k, c, own) :
       \E s \in LinedUp(b, c, k) : o \in Between[k][s]
  /\ \A b \in Boards : \A k \in Sq \ Attacked(b) : \A c \in Colours :
       c = Other(b.whos_move) =>
         /\ Leapers(b, c, k) = {} /\ k \notin KingAttacks[b.king_square[c]]
         /\ \A s \in LinedUp(b, c, k) :
              Between[k][s] \cap (b.occupied_bb \ pieces(b, b.whos_move, "KING")) # {}
  /\ \A b \in Boards : \A c \in Colours : \A k \in Sq :
       LinedUp(b, c, k) \subseteq b.colour_bb[c] /\ Leapers(b, c, k) \subseteq b.colour_bb[c]
<1>0. \A s, t \in Sq : Between[s][t] \subseteq Sq /\ Line[s][t] \subseteq Sq
    BY DEF Between, Line, RookLines, BishopLines
<1>1. ASSUME NEW b \in Boards
      PROVE  Checkers(b) = Strikers(b, Other(b.whos_move), b.king_square[b.whos_move])
  <2> DEFINE us == b.whos_move
             k == b.king_square[us]
  <2>1. us \in Colours /\ Other(Other(us)) = us /\ k \in Sq
    BY DEF Boards, Colours, Other
  <2>2. \A s : /\ s \in rook_attacks(b.occupied_bb, k) <=> s \in RookLines[k] /\ Between[k][s] \cap b.occupied_bb = {}
               /\ s \in bishop_attacks(b.occupied_bb, k) <=> s \in BishopLines[k] /\ Between[k][s] \cap b.occupied_bb = {}
    BY DEF rook_attacks, bishop_attacks
  <2>3. Checkers(b) = (KnightAttacks[k] \cap pieces(b, Other(us), "KNIGHT"))
                      \cup (pawn_attacks(us, k) \cap pieces(b, Other(us), "PAWN"))
                      \cup (rook_attacks(b.occupied_bb, k) \cap RookLike(b, Other(us)))
                      \cup (bishop_attacks(b.occupied_bb, k) \cap BishopLike(b, Other(us)))
    BY DEF Checkers
  <2> HIDE DEF us, k
  <2>4. Checkers(b) = Strikers(b, Other(us), k)
    BY <2>1, <2>2, <2>3 DEF Strikers, Leapers, LinedUp
  <2> QED BY <2>4 DEF us, k
<1>2. ASSUME NEW b \in Boards, NEW k \in Sq, NEW c \in Colours, NEW own \in Colours,
             NEW s \in LinedUp(b, c, k), NEW o \in b.colour_bb[own],
             Between[k][s] \cap b.occupied_bb = {o}
      PROVE  o \in Shields(b, k, c, own)
  <2> DEFINE occ == b.occupied_bb
  <2>1. s \in Sq /\ k \in Sq /\ o \in Between[k][s]
    BY <1>2 DEF LinedUp, RookLines, BishopLines
  <2>2. Between[k][o] \cap occ = {}
    BY <1>2, <2>1, Rays
  <2>3. ASSUME s \in RookLines[k], s \in RookLike(b, c)
        PROVE  s \in rook_xrays(occ, k) \cap RookLike(b, c)
    <3>1. o \in rook_attacks(occ, k)
      BY <2>1, <2>2, <2>3, Rays DEF rook_attacks
    <3>2. Between[k][s] \cap (occ \ rook_attacks(occ, k)) = {}
      BY <1>2, <3>1
    <3> QED BY <2>3, <3>2 DEF rook_xrays, rook_attacks
  <2>4. ASSUME s \in BishopLines[k], s \in BishopLike(b, c)
        PROVE  s \in bishop_xrays(occ, k) \cap BishopLike(b, c)
    <3>1. o \in bishop_attacks(occ, k)
      BY <2>1, <2>2, <2>4, Rays DEF bishop_attacks
    <3>2. Between[k][s] \cap (occ \ bishop_attacks(occ, k)) = {}
      BY <1>2, <3>1
    <3> QED BY <2>4, <3>2 DEF bishop_xrays, bishop_attacks
  <2> DEFINE pinners == (rook_xrays(occ, k) \cap RookLike(b, c))
                        \cup (bishop_xrays(occ, k) \cap BishopLike(b, c))
  <2>5. s \in pinners
    BY <2>3, <2>4 DEF LinedUp
  <2>6. Shields(b, k, c, own) = (UNION {Between[k][q] : q \in pinners}) \cap b.colour_bb[own]
    BY DEF Shields
  <2> HIDE DEF pinners
  <2> QED BY <2>1, <2>5, <2>6
<1>3. ASSUME NEW b \in Boards, NEW k \in Sq, NEW c \in Colours, NEW own \in Colours,
             NEW o \in Shields(b, k, c, own)
      PROVE  \E s \in LinedUp(b, c, k) : o \in Between[k][s]
  <2> DEFINE occ == b.occupied_bb
  <2>1. PICK s : /\ s \in (rook_xrays(occ, k) \cap RookLike(b, c)) \cup (bishop_xrays(occ, k) \cap BishopLike(b, c))
                 /\ o \in Between[k][s]
    BY DEF Shields
  <2>2. s \in LinedUp(b, c, k)
    BY <2>1 DEF rook_xrays, bishop_xrays, rook_attacks, bishop_attacks, LinedUp
  <2> QED BY <2>1, <2>2
<1>4. ASSUME NEW b \in Boards, NEW k \in Sq \ Attacked(b), NEW c \in Colours, c = Other(b.whos_move)
      PROVE  /\ Leapers(b, c, k) = {} /\ k \notin KingAttacks[b.king_square[c]]
             /\ \A s \in LinedUp(b, c, k) :
                  Between[k][s] \cap (b.occupied_bb \ pieces(b, b.whos_move, "KING")) # {}
  <2> DEFINE occ == b.occupied_bb \ pieces(b, b.whos_move, "KING")
  <2>1. /\ \A s \in pieces(b, c, "PAWN") : k \notin pawn_attacks(c, s)
        /\ \A p \in PieceTypes \ {"PAWN", "KING"} : \A s \in pieces(b, c, p) : k \notin attacks(p, occ, s)
        /\ k \notin KingAttacks[b.king_square[c]]
    <3> DEFINE Pawns == UNION {pawn_attacks(c, s) : s \in pieces(b, c, "PAWN")}
               Of(p) == UNION {attacks(p, occ, s) : s \in pieces(b, c, p)}
               All == UNION {Of(p) : p \in PieceTypes \ {"PAWN", "KING"}}
    <3>1. Attacked(b) = Pawns \cup All \cup KingAttacks[b.king_square[c]]
      BY <1>4 DEF Attacked
    <3>2. \A s \in pieces(b, c, "PAWN") : pawn_attacks(c, s) \subseteq Pawns
      OBVIOUS
    <3>3. \A p \in PieceTypes \ {"PAWN", "KING"} : Of(p) \subseteq All
      OBVIOUS
    <3>4. \A p : \A s \in pieces(b, c, p) : attacks(p, occ, s) \subseteq Of(p)
      OBVIOUS
    <3> HIDE DEF occ, Pawns, Of, All
    <3>5. k \notin Pawns /\ k \notin All /\ k \notin KingAttacks[b.king_square[c]]
      BY <3>1
    <3> QED BY <3>2, <3>3, <3>4, <3>5
  <2>2. \A p : pieces(b, c, p) \subseteq Sq
    BY DEF pieces, Boards
  <2>3. ASSUME NEW s \in Leapers(b, c, k) PROVE FALSE
    <3>1. CASE s \in KnightAttacks[k] \cap pieces(b, c, "KNIGHT")
      <4>1. k \in KnightAttacks[s]
        BY <2>2, <3>1, Sym
      <4>2. attacks("KNIGHT", occ, s) = KnightAttacks[s]
        BY DEF attacks
      <4> QED BY <2>1, <3>1, <4>1, <4>2 DEF PieceTypes
    <3>2. CASE s \in pawn_attacks(Other(c), k) \cap pieces(b, c, "PAWN")
      <4>1. Other(c) \in Colours /\ Other(Other(c)) = c
        BY DEF Colours, Other
      <4>2. k \in pawn_attacks(c, s)
        BY <2>2, <3>2, <4>1, Sym
      <4> QED BY <2>1, <3>2, <4>2
    <3> QED BY <3>1, <3>2 DEF Leapers
  <2>4. ASSUME NEW s \in LinedUp(b, c, k), Between[k][s] \cap occ = {} PROVE FALSE
    <3>1. s \in Sq /\ Between[s][k] = Between[k][s]
      BY Sym DEF LinedUp, RookLines, BishopLines
    <3>2. /\ attacks("ROOK", occ, s) = rook_attacks(occ, s)
          /\ attacks("BISHOP", occ, s) = bishop_attacks(occ, s)
          /\ attacks("QUEEN", occ, s) = rook_attacks(occ, s) \cup bishop_attacks(occ, s)
          /\ {"ROOK", "BISHOP", "QUEEN"} \subseteq PieceTypes \ {"PAWN", "KING"}
      BY DEF attacks, PieceTypes
    <3>3. s \in RookLines[k] => k \in rook_attacks(occ, s)
      BY <2>4, <3>1, Sym DEF rook_attacks
    <3>4. s \in BishopLines[k] => k \in bishop_attacks(occ, s)
      BY <2>4, <3>1, Sym DEF bishop_attacks
    <3>5. CASE s \in RookLines[k] \cap RookLike(b, c)
      BY <2>1, <3>2, <3>3, <3>5 DEF RookLike, pieces
    <3>6. CASE s \in BishopLines[k] \cap BishopLike(b, c)
      BY <2>1, <3>2, <3>4, <3>6 DEF BishopLike, pieces
    <3> QED BY <3>5, <3>6 DEF LinedUp
  <2> QED BY <2>1, <2>3, <2>4
<1>5. \A b \in Boards : \A c \in Colours : \A k \in Sq :
         LinedUp(b, c, k) \subseteq b.colour_bb[c] /\ Leapers(b, c, k) \subseteq b.colour_bb[c]
  BY DEF LinedUp, Leapers, RookLike, BishopLike, pieces
<1>6. \A b \in Boards : \A k \in Sq : \A c, own \in Colours : \A s \in LinedUp(b, c, k) :
       \A o \in b.colour_bb[own] :
          Between[k][s] \cap b.occupied_bb = {o} => o \in Shields(b, k, c, own)
  BY <1>2
<1>7. \A b \in Boards : \A k \in Sq : \A c, own \in Colours : \A o \in Shields(b, k, c, own) :
       \E s \in LinedUp(b, c, k) : o \in Between[k][s]
  BY <1>3
<1>8. \A b \in Boards : \A k \in Sq \ Attacked(b) : \A c \in Colours :
       c = Other(b.whos_move) =>
         /\ Leapers(b, c, k) = {} /\ k \notin KingAttacks[b.king_square[c]]
         /\ \A s \in LinedUp(b, c, k) :
              Between[k][s] \cap (b.occupied_bb \ pieces(b, b.whos_move, "KING")) # {}
  BY <1>4
<1> QED BY <1>1, <1>5, <1>6, <1>7, <1>8
-----------------------------------------------------------------------------
\* The piece that a move brings to where it may strike from: a king strikes at no king.
Newcomers(us, m) ==
    IF is_castle(m) THEN {Castled(us, m)}
    ELSE IF m.moving_piece = "KING" THEN {} ELSE {m.target}

\* After a move the other side strikes with what it has left, this one with what it
\* had and what it brought.
LEMMA StrikersMoved ==
  ASSUME NEW b \in Boards, Views(b), NEW m, Playable(b, m), NEW k \in Sq
  PROVE  LET us == b.whos_move
             them == Other(us)
             made == MakeBoard(b, m)
         IN /\ Leapers(made, them, k) \subseteq Leapers(b, them, k) \ TheirsLost(m)
            /\ LinedUp(made, them, k) \subseteq LinedUp(b, them, k) \ TheirsLost(m)
            /\ Leapers(made, us, k) \subseteq Leapers(b, us, k) \cup Newcomers(us, m)
            /\ LinedUp(made, us, k) \subseteq LinedUp(b, us, k) \cup Newcomers(us, m)
<1> DEFINE us == b.whos_move
           them == Other(us)
           made == MakeBoard(b, m)
<1>1. us \in Colours /\ them \in Colours /\ them # us
  BY DEF Boards, Colours, Other
<1>2. /\ made.colour_bb[them] = b.colour_bb[them] \ TheirsLost(m)
      /\ \A c \in Colours, p \in PieceTypes :
            pieces(made, c, p) = (pieces(b, c, p) \ Left(us, m, c, p)) \cup Filled(us, m, c, p)
  BY MadeBoard
<1>3. \A p \in PieceTypes : pieces(made, them, p) \subseteq pieces(b, them, p) \ TheirsLost(m)
  <2>1. \A p : Filled(us, m, them, p) = {}
    BY <1>1 DEF Filled
  <2>2. \A p : pieces(made, them, p) \subseteq made.colour_bb[them]
    BY DEF pieces
  <2> QED BY <1>1, <1>2, <2>1, <2>2
<1>4. \A p \in PieceTypes \ {"KING"} : pieces(made, us, p) \subseteq pieces(b, us, p) \cup Newcomers(us, m)
  <2>1. \A p \in PieceTypes \ {"KING"} : Filled(us, m, us, p) \subseteq Newcomers(us, m)
    <3>1. CASE is_castle(m)
      <4>1. Becomes(m) = "KING"
        BY <3>1 DEF Playable, Becomes, is_castle, is_promotion
      <4> QED BY <3>1, <4>1 DEF Filled, Newcomers
    <3>2. CASE ~is_castle(m) /\ m.moving_piece = "KING"
      <4>1. Becomes(m) = "KING"
        BY <3>2 DEF Playable, Becomes
      <4> QED BY <3>2, <4>1 DEF Filled, Newcomers
    <3>3. CASE ~is_castle(m) /\ m.moving_piece # "KING"
      BY <3>3 DEF Filled, Newcomers
    <3> QED BY <3>1, <3>2, <3>3
  <2> QED BY <1>1, <1>2, <2>1
<1>5. \A x : \A c \in Colours :
         /\ RookLike(x, c) = pieces(x, c, "ROOK") \cup pieces(x, c, "QUEEN")
         /\ BishopLike(x, c) = pieces(x, c, "BISHOP") \cup pieces(x, c, "QUEEN")
  BY DEF RookLike, BishopLike, pieces
<1>6. {"PAWN", "KNIGHT", "BISHOP", "ROOK", "QUEEN"} \subseteq PieceTypes \ {"KING"}
  BY DEF PieceTypes
<1> HIDE DEF us, them, made
<1>7. Leapers(made, them, k) \subseteq Leapers(b, them, k) \ TheirsLost(m)
  BY <1>3, <1>6 DEF Leapers
<1>8. Leapers(made, us, k) \subseteq Leapers(b, us, k) \cup Newcomers(us, m)
  BY <1>4, <1>6 DEF Leapers
<1>9. /\ RookLike(made, them) \subseteq RookLike(b, them) \ TheirsLost(m)
      /\ BishopLike(made, them) \subseteq BishopLike(b, them) \ TheirsLost(m)
      /\ RookLike(made, us) \subseteq RookLike(b, us) \cup Newcomers(us, m)
      /\ BishopLike(made, us) \subseteq BishopLike(b, us) \cup Newcomers(us, m)
  BY <1>1, <1>3, <1>4, <1>5, <1>6
<1>10. /\ LinedUp(made, them, k) \subseteq LinedUp(b, them, k) \ TheirsLost(m)
       /\ LinedUp(made, us, k) \subseteq LinedUp(b, us, k) \cup Newcomers(us, m)
  BY <1>9 DEF LinedUp
<1> QED BY <1>7, <1>8, <1>10 DEF us, them, made

-----------------------------------------------------------------------------
\* What holds of a position between moves.  The side that has moved is not in check,
\* the kings are apart, pawns are between the back ranks, and what is said of rights
\* and of a double push just made is so: with the pawn back where it came from, no
\* slider strikes the king.
Safe(b) == Strikers(b, b.whos_move, b.king_square[Other(b.whos_move)]) = {}
Apart(b) == b.king_square["WHITE"] \notin KingAttacks[b.king_square["BLACK"]]
PawnsInside(b) == \A c \in Colours : \A s \in pieces(b, c, "PAWN") : rank(s) \in 1 .. 6
RightsHeld(b, rights) ==
    /\ rights \subseteq Colours \X Sides
    /\ \A right \in rights : /\ KingSquare(right[1]) \in pieces(b, right[1], "KING")
                             /\ RookSquares(right[1], right[2]) \in pieces(b, right[1], "ROOK")
EpPawn(c, ep) == Square(relative_rank(c, 4), ep)
EpTo(c, ep) == Square(relative_rank(c, 5), ep)
EpFrom(c, ep) == Square(relative_rank(c, 6), ep)
EpHeld(b, ep) ==
    /\ ep \in Files \cup {NO_FILE}
    /\ ep # NO_FILE =>
          LET us == b.whos_move
              them == Other(us)
              k == b.king_square[us]
          IN /\ EpPawn(us, ep) \in pieces(b, them, "PAWN")
             /\ EpTo(us, ep) \notin b.occupied_bb /\ EpFrom(us, ep) \notin b.occupied_bb
             /\ \A s \in LinedUp(b, them, k) :
                  Between[k][s] \cap ((b.occupied_bb \ {EpPawn(us, ep)}) \cup {EpFrom(us, ep)}) # {}

Lawful(b, rights, ep) ==
    /\ b \in Boards /\ Views(b) /\ Counted(b)
    /\ Safe(b) /\ Apart(b) /\ PawnsInside(b) /\ Cardinality(Checkers(b)) <= 2
    /\ RightsHeld(b, rights) /\ EpHeld(b, ep)

Informed(b, a) ==
    /\ a.checkers = Checkers(b) /\ a.pinned = Pinned(b) /\ a.attacked = Attacked(b)
    /\ a.check_squares = CheckSquares(b) /\ a.blockers = Blockers(b)

\* The three kinds of generated moves, by what keeps the king safe.
Steered(b, a, m) ==
    LET ks == b.king_square[b.whos_move]
    IN /\ m.moving_piece # "KING" /\ m.type # "EN_PASSENT" /\ ~is_castle(m)
       /\ Between[m.origin][m.target] \cap b.occupied_bb = {}
       /\ is_check(a) => /\ m.origin \notin a.pinned
                         /\ \E ts : /\ a.checkers = {ts}
                                    /\ m.target = ts \/ m.target \in Between[ks][ts]
       /\ ~is_check(a) => (m.origin \in a.pinned => m.target \in Line[ks][m.origin])
Royal(b, a, m) ==
    /\ m.moving_piece = "KING" /\ m.target \notin a.attacked
    /\ m.type # "EN_PASSENT"
InPassing(b, a, m) ==
    LET us == b.whos_move
        ks == b.king_square[us]
        ep == a.en_passent_target
    IN /\ m.type = "EN_PASSENT" /\ m.moving_piece = "PAWN" /\ ep # NO_FILE
       /\ m.target = EpTo(us, ep) /\ TakenSquare(m) = EpPawn(us, ep)
       /\ rank(m.origin) = relative_rank(us, 4) /\ Dist(file(m.origin), ep) = 1
       /\ EpSafe(b, a, m.origin)
       /\ is_check(a) => m.origin \notin a.pinned /\ a.checkers = {EpPawn(us, ep)}
       /\ ~is_check(a) => (m.origin \in a.pinned => m.target \in Line[ks][m.origin])

\* Where the occupied squares go, and that the king stands on one.
LEMMA OccupiedMoved ==
  ASSUME NEW b \in Boards, Views(b), Counted(b), NEW m, Playable(b, m)
  PROVE  LET us == b.whos_move
             made == MakeBoard(b, m)
         IN /\ made.occupied_bb = (b.occupied_bb \ (OwnLeft(us, m) \cup TheirsLost(m)))
                                  \cup OwnFilled(us, m)
            /\ b.occupied_bb \subseteq Sq
            /\ \A c \in Colours : b.king_square[c] \in b.colour_bb[c] /\ b.king_square[c] \in Sq
            /\ m.origin \in b.colour_bb[us] /\ m.origin \in Sq /\ m.target \in Sq /\ m.origin # m.target
            /\ m.target \notin b.colour_bb[us] /\ m.target \in OwnFilled(us, m)
            /\ \A c \in Colours : b.colour_bb[c] \subseteq b.occupied_bb
            /\ \A c \in Colours : made.king_square[c] = IF c = us /\ m.moving_piece = "KING"
                                                        THEN m.target ELSE b.king_square[c]
            /\ m.moving_piece = "KING" => m.origin = b.king_square[us]
            /\ made.whos_move = Other(us)
<1> DEFINE us == b.whos_move
           made == MakeBoard(b, m)
<1>0. us \in Colours
  BY DEF Boards
<1>1. /\ made.occupied_bb = (b.occupied_bb \ (OwnLeft(us, m) \cup TheirsLost(m))) \cup OwnFilled(us, m)
      /\ m.origin # m.target /\ OwnFilled(us, m) \cap b.colour_bb[us] = {}
  BY MadeBoard
<1>2. b.occupied_bb \subseteq Sq
  BY DEF Boards
<1>3. \A c \in Colours : /\ b.king_square[c] \in pieces(b, c, "KING") /\ b.king_square[c] \in Sq
                         /\ pieces(b, c, "KING") = {b.king_square[c]}
  BY DEF Counted, Boards
<1>4. m.origin \in pieces(b, us, m.moving_piece) /\ m.origin \in Sq /\ m.target \in Sq
  BY DEF Playable, MadeMoves
<1>5. m.target \in OwnFilled(us, m)
  BY DEF OwnFilled
<1>6. \A c \in Colours : b.colour_bb[c] \subseteq b.occupied_bb
  BY DEF Views, Colours
<1>7. \A c \in Colours : made.king_square[c] = IF c = us /\ m.moving_piece = "KING"
                                               THEN m.target ELSE b.king_square[c]
  BY <1>0 DEF MakeBoard, Boards
<1>8. \A c, p : pieces(b, c, p) \subseteq b.colour_bb[c]
  BY DEF pieces
<1>9. made.whos_move = Other(us)
  BY DEF MakeBoard
<1> HIDE DEF us, made
<1> QED BY <1>0, <1>1, <1>2, <1>3, <1>4, <1>5, <1>6, <1>7, <1>8, <1>9 DEF us, made

\* A piece that keeps to its pin, or that answers the check, leaves its king safe.
LEMMA SteeredSafe ==
  ASSUME NEW b \in Boards, Views(b), Counted(b), NEW m, Playable(b, m),
         NEW a, Informed(b, a), Steered(b, a, m)
  PROVE  LET made == MakeBoard(b, m)
         IN Strikers(made, Other(b.whos_move), made.king_square[b.whos_move]) = {}
<1> DEFINE us == b.whos_move
           them == Other(us)
           made == MakeBoard(b, m)
           k == b.king_square[us]
           o == m.origin
           t == m.target
           occ == b.occupied_bb
<1>1. us \in Colours /\ them \in Colours /\ them # us
  BY DEF Boards, Colours, Other
<1>2. /\ made.king_square[us] = k /\ k \in Sq /\ o \in Sq /\ t \in Sq /\ o # t
      /\ k \in b.colour_bb[us] /\ o \in b.colour_bb[us] /\ t \notin b.colour_bb[us]
      /\ b.colour_bb[us] \subseteq occ /\ b.colour_bb[them] \subseteq occ
  BY <1>1, OccupiedMoved DEF Steered
<1>3. /\ TheirsLost(m) \subseteq {t} /\ t \in made.occupied_bb
      /\ occ \ {o} \subseteq made.occupied_bb
      /\ is_capture(m) <=> t \in TheirsLost(m)
  <2>1. made.occupied_bb = (occ \ (OwnLeft(us, m) \cup TheirsLost(m))) \cup OwnFilled(us, m)
    BY OccupiedMoved
  <2>2. OwnLeft(us, m) = {o} /\ OwnFilled(us, m) = {t}
    BY DEF Steered, OwnLeft, OwnFilled
  <2>3. TheirsLost(m) \subseteq {t} /\ (is_capture(m) <=> t \in TheirsLost(m))
    BY DEF Steered, TheirsLost, TakenSquare
  <2> QED BY <2>1, <2>2, <2>3
<1>4. ~is_capture(m) => t \notin occ
  BY DEF Playable
<1>5. /\ Leapers(made, them, k) \subseteq Leapers(b, them, k) \ TheirsLost(m)
      /\ LinedUp(made, them, k) \subseteq LinedUp(b, them, k) \ TheirsLost(m)
  BY <1>2, StrikersMoved
<1>6. /\ a.checkers = Strikers(b, them, k) /\ a.pinned = Shields(b, k, them, us)
  BY Struck DEF Informed, Pinned
<1>7. /\ Between[o][t] \cap occ = {}
      /\ a.checkers # {} => /\ o \notin a.pinned
                            /\ \E ts : a.checkers = {ts} /\ (t = ts \/ t \in Between[k][ts])
      /\ a.checkers = {} => (o \in a.pinned => t \in Line[k][o])
  BY DEF Steered, is_check
<1>8. \A s \in LinedUp(b, them, k) : s \in Sq /\ s \in b.colour_bb[them]
  <2>1. LinedUp(b, them, k) \subseteq Sq
    BY <1>2 DEF LinedUp, RookLines, BishopLines
  <2> QED BY <1>1, <1>2, <2>1, Struck
<1>9. \A s \in Leapers(b, them, k) : s \in Sq /\ s \in b.colour_bb[them] /\ Between[k][s] = {}
  <2>1. \A s \in Leapers(b, them, k) : s \in KnightAttacks[k] \/ s \in pawn_attacks(Other(them), k)
    BY DEF Leapers
  <2>2. Other(them) \in Colours
    BY DEF Other, Colours
  <2>3. \A s \in Leapers(b, them, k) : s \in Sq /\ Between[k][s] = {}
    BY <1>2, <2>1, <2>2, Steps
  <2> QED BY <1>1, <1>2, <2>3, Struck
<1> HIDE DEF us, them, made, k, o, t, occ
<1>10. ASSUME NEW s \in Strikers(made, them, k), s \in a.checkers
       PROVE  FALSE
  <2>1. t = s \/ t \in Between[k][s]
    BY <1>7, <1>10
  <2>2. t # s
    <3>1. s \notin TheirsLost(m)
      BY <1>5 DEF Strikers
    <3>2. s \in occ
      BY <1>2, <1>5, <1>8, <1>9 DEF Strikers
    <3> QED BY <1>3, <1>4, <3>1, <3>2
  <2>3. s \in Leapers(b, them, k) \/ Between[k][s] \cap made.occupied_bb = {}
    BY <1>5 DEF Strikers
  <2> QED BY <1>3, <1>9, <2>1, <2>2, <2>3
<1>11. ASSUME NEW s \in Strikers(made, them, k), s \notin a.checkers
       PROVE  FALSE
  <2>1. /\ s \in LinedUp(b, them, k) /\ Between[k][s] \cap made.occupied_bb = {}
        /\ Between[k][s] \cap occ # {} /\ s \notin TheirsLost(m) /\ s \in occ
    BY <1>2, <1>5, <1>6, <1>8, <1>11 DEF Strikers, occ
  <2>2. Between[k][s] \cap occ = {o}
    BY <1>3, <2>1
  <2>3. o \in a.pinned
    BY <1>1, <1>2, <1>6, <2>1, <2>2, Struck DEF occ
  <2>4. t \in Line[k][o]
    BY <1>7, <2>3
  <2>5. s \in Sq /\ o \in Between[k][s]
    BY <1>8, <2>1, <2>2
  <2>6. t \in {o, k, s} \/ t \in Between[k][s] \/ s \in Between[o][t] \/ k \in Between[o][t]
    BY <1>2, <2>4, <2>5, Rays
  <2>7. t # k /\ t # o /\ s \notin Between[o][t] /\ k \notin Between[o][t]
    BY <1>2, <1>7, <2>1
  <2>8. t # s
    BY <1>3, <1>4, <2>1
  <2> QED BY <1>3, <2>1, <2>6, <2>7, <2>8
<1> QED BY <1>2, <1>10, <1>11 DEF us, them, made

\* A king that goes, or castles, to where it is not attacked is safe there, and not
\* beside the other king.
LEMMA RoyalSafe ==
  ASSUME NEW b \in Boards, Views(b), Counted(b), NEW m, Playable(b, m),
         NEW a, Informed(b, a), Royal(b, a, m)
  PROVE  LET made == MakeBoard(b, m)
             them == Other(b.whos_move)
         IN /\ Strikers(made, them, made.king_square[b.whos_move]) = {}
            /\ made.king_square[b.whos_move] \notin KingAttacks[made.king_square[them]]
<1> DEFINE us == b.whos_move
           them == Other(us)
           made == MakeBoard(b, m)
           k == b.king_square[us]
           o == m.origin
           t == m.target
           occ == b.occupied_bb
<1>1. us \in Colours /\ them \in Colours /\ them # us
  BY DEF Boards, Colours, Other
<1>2. /\ made.king_square[us] = t /\ made.king_square[them] = b.king_square[them]
      /\ k \in Sq /\ o = k /\ t \in Sq /\ o # t /\ t \in OwnFilled(us, m)
  BY <1>1, OccupiedMoved DEF Royal
<1>3. pieces(b, us, "KING") = {k}
  BY <1>1 DEF Counted
<1>4. t \in Sq \ Attacked(b)
  BY <1>2 DEF Royal, Informed
<1>5. /\ Leapers(b, them, t) = {} /\ t \notin KingAttacks[b.king_square[them]]
      /\ \A s \in LinedUp(b, them, t) : Between[t][s] \cap (occ \ {k}) # {}
  BY <1>1, <1>3, <1>4, Struck
<1>6. /\ Leapers(made, them, t) \subseteq Leapers(b, them, t) \ TheirsLost(m)
      /\ LinedUp(made, them, t) \subseteq LinedUp(b, them, t) \ TheirsLost(m)
  BY <1>2, StrikersMoved
<1>7. made.occupied_bb = (occ \ (OwnLeft(us, m) \cup TheirsLost(m))) \cup OwnFilled(us, m)
  BY OccupiedMoved
<1>8. TheirsLost(m) \subseteq {t}
  BY DEF TheirsLost, TakenSquare, Royal
<1>9. OwnLeft(us, m) \subseteq {k, Home(us, m)} /\ Home(us, m) \in {0, 7, 56, 63}
  <2>1. Home(us, m) \in {0, 7, 56, 63}
    BY <1>1 DEF Home, RookSquares, Square, BackRank, relative_rank, get_castleside, Colours
  <2> QED BY <1>2, <2>1 DEF OwnLeft
<1>10. \A s \in LinedUp(b, them, t) : s \in Sq
  BY <1>2 DEF LinedUp, RookLines, BishopLines
<1>11. \A s \in Sq : Home(us, m) \notin Between[t][s]
  <2>1. ASSUME NEW s \in Sq, NEW c \in {0, 7, 56, 63}, c \in Between[t][s] PROVE FALSE
    <3>0. c \in Sq
      BY DEF Sq
    <3>1. t \in Sq /\ Inside(t, s, c)
      BY <1>2, <2>1, <3>0, Btw
    <3>2. /\ rank(c) \in {0, 7} /\ file(c) \in {0, 7}
          /\ rank(t) \in 0 .. 7 /\ file(t) \in 0 .. 7 /\ rank(s) \in 0 .. 7 /\ file(s) \in 0 .. 7
      BY <3>1, Coordinates DEF rank, file
    <3> QED BY <3>1, <3>2 DEF Inside, Aligned, Strictly
  <2> QED BY <1>9, <2>1
<1> HIDE DEF us, them, made, k, o, t, occ
<1>12. ASSUME NEW s \in LinedUp(b, them, t), Between[t][s] \cap made.occupied_bb = {}
       PROVE  FALSE
  <2>1. PICK q \in Between[t][s] : q \in occ /\ q # k
    BY <1>5
  <2>2. q # Home(us, m)
    BY <1>10, <1>11
  <2>3. q \notin OwnLeft(us, m)
    BY <1>9, <2>1, <2>2
  <2>4. q # t
    BY <1>2, <1>10, Rays
  <2> QED BY <1>7, <1>8, <1>12, <2>1, <2>3, <2>4
<1>13. Strikers(made, them, t) = {}
  BY <1>5, <1>6, <1>12 DEF Strikers
<1> QED BY <1>2, <1>5, <1>13 DEF us, them, made

\* The squares of a capture en passant.
LEMMA PassingSquares ==
  ASSUME NEW c \in Colours, NEW ep \in Files, NEW o \in Sq,
         rank(o) = relative_rank(c, 4), Dist(file(o), ep) = 1
  PROVE  LET cap == EpPawn(c, ep)
             t == EpTo(c, ep)
             start == EpFrom(c, ep)
         IN /\ cap \in Sq /\ t \in Sq /\ start \in Sq /\ cap # t /\ o # cap /\ o # t
            /\ start # t /\ start # cap /\ start # o
            /\ rank(cap) = rank(o) /\ file(cap) = ep /\ file(t) = ep /\ file(start) = ep
            /\ rank(cap) \in {3, 4} /\ rank(t) \in {2, 5}
            /\ Between[o][t] = {}
            /\ \A k, s \in Sq : cap \in Between[k][s] /\ o \in Between[k][s]
                  => rank(k) = rank(o) /\ s \in Line[k][o] /\ s \notin BishopLines[k]
            /\ \A k, s \in Sq : cap \in Between[k][s] /\ start \in Between[k][s] => t \in Between[k][s]
            /\ \A k, s \in Sq : t \in pawn_attacks(Other(c), k) => cap \notin Between[k][s]
<1> DEFINE cap == EpPawn(c, ep)
           t == EpTo(c, ep)
           start == EpFrom(c, ep)
<1>1. /\ relative_rank(c, 4) \in {3, 4} /\ relative_rank(c, 5) \in {2, 5} /\ relative_rank(c, 6) \in {1, 6}
      /\ relative_rank(c, 5) = relative_rank(c, 4) + (IF c = "WHITE" THEN 1 ELSE -1)
      /\ relative_rank(c, 6) = relative_rank(c, 4) + (IF c = "WHITE" THEN 2 ELSE -2)
      /\ ep \in 0 .. 7
  BY DEF relative_rank, Colours, Files
<1>2. /\ cap \in Sq /\ t \in Sq /\ start \in Sq
      /\ rank(cap) = relative_rank(c, 4) /\ file(cap) = ep
      /\ rank(t) = relative_rank(c, 5) /\ file(t) = ep
      /\ rank(start) = relative_rank(c, 6) /\ file(start) = ep
  BY <1>1, Coordinates DEF EpPawn, EpTo, EpFrom
<1> HIDE DEF cap, t, start
<1>4. file(o) \in 0 .. 7 /\ (file(o) - ep = 1 \/ ep - file(o) = 1)
  BY <1>1, Coordinates DEF Dist
<1>5. /\ cap # t /\ o # cap /\ o # t /\ start # t /\ start # cap /\ start # o
  BY <1>1, <1>2, <1>4
<1>6. Between[o][t] = {}
  <2>1. ASSUME NEW q \in Sq, Inside(o, t, q) PROVE FALSE
    <3>1. rank(q) \in 0 .. 7 /\ file(q) \in 0 .. 7
      BY Coordinates
    <3> QED BY <1>1, <1>2, <1>4, <2>1, <3>1 DEF Inside, Aligned, Strictly
  <2>2. Between[o][t] \subseteq Sq
    BY <1>2 DEF Between, Line, RookLines, BishopLines
  <2> QED BY <1>2, <2>1, <2>2, Btw
<1>7. ASSUME NEW k \in Sq, NEW s \in Sq, cap \in Between[k][s], o \in Between[k][s]
      PROVE  rank(k) = rank(o) /\ s \in Line[k][o] /\ s \notin BishopLines[k]
  <2>1. Inside(k, s, cap) /\ Inside(k, s, o)
    BY <1>2, <1>7, Btw
  <2>2. /\ rank(k) \in 0 .. 7 /\ file(k) \in 0 .. 7 /\ rank(s) \in 0 .. 7 /\ file(s) \in 0 .. 7
        /\ rank(o) = rank(cap) /\ file(o) # file(cap) /\ rank(o) \in 0 .. 7 /\ file(cap) \in 0 .. 7
    BY <1>1, <1>2, <1>4, Coordinates
  <2>3. rank(k) = rank(o) /\ rank(s) = rank(o) /\ file(k) # file(s) /\ file(k) # file(o)
    BY <1>4, <2>1, <2>2 DEF Inside, Aligned, Strictly
  <2>4. s \in Line[k][o]
    BY <2>3, Ln DEF Aligned
  <2>5. s \notin BishopLines[k]
    BY <2>2, <2>3, Seg
  <2> QED BY <2>3, <2>4, <2>5
<1>8. ASSUME NEW k \in Sq, NEW s \in Sq, cap \in Between[k][s], start \in Between[k][s]
      PROVE  t \in Between[k][s]
  <2>1. Inside(k, s, cap) /\ Inside(k, s, start)
    BY <1>2, <1>8, Btw
  <2>2. /\ rank(k) \in 0 .. 7 /\ file(k) \in 0 .. 7 /\ rank(s) \in 0 .. 7 /\ file(s) \in 0 .. 7
    BY Coordinates
  <2>3a. /\ file(cap) = ep /\ file(start) = ep /\ rank(cap) # rank(start)
         /\ rank(cap) \in 0 .. 7 /\ rank(start) \in 0 .. 7 /\ ep \in 0 .. 7
    BY <1>1, <1>2
  <2>4. file(k) = ep /\ file(s) = ep
    <3>0. rank(k) # rank(s) \/ file(k) # file(s)
      BY <2>1, <2>2, <2>3a DEF Inside, Strictly
    <3>1. CASE rank(k) = rank(s) /\ rank(cap) = rank(k)
      BY <2>1, <2>2, <2>3a, <3>0, <3>1 DEF Inside, Aligned
    <3>2. CASE file(k) = file(s) /\ file(cap) = file(k)
      BY <2>3a, <3>2
    <3>3. CASE rank(s) - rank(k) = file(s) - file(k) /\ rank(cap) - rank(k) = file(cap) - file(k)
      BY <2>1, <2>2, <2>3a, <3>0, <3>3 DEF Inside, Aligned
    <3>4. CASE rank(s) - rank(k) = file(k) - file(s) /\ rank(cap) - rank(k) = file(k) - file(cap)
      <4>1. rank(k) # rank(s) /\ file(k) # file(s) /\ rank(s) - rank(k) # file(s) - file(k)
        BY <2>2, <3>0, <3>4
      <4>2. rank(start) - rank(k) = file(k) - file(start)
        BY <2>1, <4>1 DEF Inside, Aligned
      <4> QED BY <2>2, <2>3a, <3>4, <4>2
    <3> QED BY <2>1, <3>1, <3>2, <3>3, <3>4 DEF Inside, Aligned
  <2>5. Strictly(rank(cap), rank(k), rank(s)) /\ Strictly(rank(start), rank(k), rank(s))
    BY <1>1, <1>2, <2>1, <2>2, <2>4 DEF Inside, Strictly
  <2>6. Strictly(rank(t), rank(k), rank(s))
    BY <1>1, <1>2, <2>2, <2>5 DEF Strictly
  <2>3. Inside(k, s, t)
    BY <1>2, <2>4, <2>6 DEF Inside, Aligned
  <2> QED BY <1>2, <2>3, Btw
<1>9. ASSUME NEW k \in Sq, NEW s \in Sq, t \in pawn_attacks(Other(c), k), cap \in Between[k][s]
      PROVE  FALSE
  <2>1. Inside(k, s, cap)
    BY <1>2, <1>9, Btw
  <2>2. /\ rank(k) \in 0 .. 7 /\ file(k) \in 0 .. 7 /\ rank(s) \in 0 .. 7 /\ file(s) \in 0 .. 7
    BY Coordinates
  <2>3. /\ rank(t) * 8 = rank(k) * 8 + (IF c = "WHITE" THEN -8 ELSE 8)
        /\ Dist(file(k), file(t)) = 1
    BY <1>9 DEF pawn_attacks, PawnAttacks, Other, forwards, Colours
  <2>4. /\ rank(k) = rank(cap) + (IF c = "WHITE" THEN 2 ELSE -2)
        /\ file(k) - file(cap) = 1 \/ file(cap) - file(k) = 1
    BY <1>1, <1>2, <2>2, <2>3 DEF Dist
  <2> QED BY <1>1, <1>2, <2>1, <2>2, <2>4 DEF Inside, Aligned, Strictly
<1> QED BY <1>1, <1>2, <1>5, <1>6, <1>7, <1>8, <1>9 DEF cap, t, start

\* A capture en passant leaves its king safe: along the rank, as gen_pawn_ep looks;
\* along the file, as the capturing pawn comes to stand on it; along a diagonal
\* through the captured pawn, as none was open before that pawn's double push.
LEMMA PassingSafe ==
  ASSUME NEW b \in Boards, Views(b), Counted(b), NEW m, Playable(b, m),
         NEW a, Informed(b, a), InPassing(b, a, m), EpHeld(b, a.en_passent_target)
  PROVE  LET made == MakeBoard(b, m)
         IN Strikers(made, Other(b.whos_move), made.king_square[b.whos_move]) = {}
<1> DEFINE us == b.whos_move
           them == Other(us)
           made == MakeBoard(b, m)
           k == b.king_square[us]
           o == m.origin
           t == m.target
           ep == a.en_passent_target
           cap == EpPawn(us, ep)
           start == EpFrom(us, ep)
           occ == b.occupied_bb
<1>1. us \in Colours /\ them \in Colours /\ them # us
  BY DEF Boards, Colours, Other
<1>2. /\ made.king_square[us] = k /\ k \in Sq /\ o \in Sq /\ t \in Sq
      /\ k \in b.colour_bb[us] /\ o \in b.colour_bb[us]
      /\ b.colour_bb[us] \subseteq occ /\ b.colour_bb[them] \subseteq occ
  BY <1>1, OccupiedMoved DEF InPassing
<1>3. /\ ep \in Files /\ t = EpTo(us, ep) /\ TakenSquare(m) = cap
      /\ rank(o) = relative_rank(us, 4) /\ Dist(file(o), ep) = 1
  BY DEF InPassing, EpHeld
<1>4. /\ cap \in pieces(b, them, "PAWN") /\ t \notin occ /\ start \notin occ
      /\ \A s \in LinedUp(b, them, k) : Between[k][s] \cap ((occ \ {cap}) \cup {start}) # {}
  BY <1>3 DEF EpHeld, InPassing
<1>5. made.occupied_bb = (occ \ {o, cap}) \cup {t} /\ TheirsLost(m) = {cap}
  <2>1. made.occupied_bb = (occ \ (OwnLeft(us, m) \cup TheirsLost(m))) \cup OwnFilled(us, m)
    BY OccupiedMoved
  <2>2. ~is_castle(m) /\ is_capture(m)
    BY DEF InPassing, is_castle, is_capture
  <2>3. OwnLeft(us, m) = {o} /\ OwnFilled(us, m) = {t} /\ TheirsLost(m) = {cap}
    BY <1>3, <2>2 DEF OwnLeft, OwnFilled, TheirsLost
  <2> QED BY <2>1, <2>3
<1>6. /\ Leapers(made, them, k) \subseteq Leapers(b, them, k) \ {cap}
      /\ LinedUp(made, them, k) \subseteq LinedUp(b, them, k) \ {cap}
  BY <1>2, <1>5, StrikersMoved
<1>7. /\ a.checkers = Strikers(b, them, k) /\ a.pinned = Shields(b, k, them, us)
  BY Struck DEF Informed, Pinned
<1>8. /\ a.checkers \subseteq {cap}
      /\ a.checkers # {} => o \notin a.pinned
      /\ a.checkers = {} => (o \in a.pinned => t \in Line[k][o])
  BY DEF InPassing, is_check
<1>9. rank(k) = rank(o) => rook_attacks(Xor(Xor(occ, {o}), {cap}), k) \cap Line[k][o] \cap RookLike(b, them) = {}
  BY DEF InPassing, EpSafe, EpPawn
<1>10. LinedUp(b, them, k) \subseteq Sq /\ LinedUp(b, them, k) \subseteq b.colour_bb[them]
  BY <1>1, <1>2, Struck DEF LinedUp, RookLines, BishopLines
<1>11. /\ cap \in Sq /\ t \in Sq /\ start \in Sq /\ cap # t /\ o # cap /\ o # t
       /\ start # t /\ start # cap /\ start # o
       /\ Between[o][t] = {}
       /\ \A s \in Sq : cap \in Between[k][s] /\ o \in Between[k][s]
             => rank(k) = rank(o) /\ s \in Line[k][o] /\ s \notin BishopLines[k]
       /\ \A s \in Sq : cap \in Between[k][s] /\ start \in Between[k][s] => t \in Between[k][s]
  <2> HIDE DEF us, k, o, t, ep
  <2>1. LET T == EpTo(us, ep)
        IN /\ cap \in Sq /\ T \in Sq /\ start \in Sq /\ cap # T /\ o # cap /\ o # T
           /\ start # T /\ start # cap /\ start # o
           /\ Between[o][T] = {}
           /\ \A s \in Sq : cap \in Between[k][s] /\ o \in Between[k][s]
                 => rank(k) = rank(o) /\ s \in Line[k][o] /\ s \notin BishopLines[k]
           /\ \A s \in Sq : cap \in Between[k][s] /\ start \in Between[k][s] => T \in Between[k][s]
    <3>1. us \in Colours /\ ep \in Files /\ o \in Sq /\ k \in Sq
          /\ rank(o) = relative_rank(us, 4) /\ Dist(file(o), ep) = 1
      BY <1>1, <1>2, <1>3
    <3> QED BY <3>1, PassingSquares
  <2> QED BY <1>3, <2>1
<1>12. Xor(Xor(occ, {o}), {cap}) = occ \ {o, cap}
  <2>1. o \in occ /\ cap \in occ /\ o # cap
    BY <1>2, <1>4, <1>11 DEF pieces
  <2> QED BY <2>1 DEF Xor
<1> HIDE DEF us, them, made, k, o, t, occ, ep, cap, start
<1>13. ASSUME NEW s \in Strikers(made, them, k)
       PROVE  FALSE
  <2>1. s \in LinedUp(b, them, k) /\ Between[k][s] \cap made.occupied_bb = {} /\ s # cap
    <3>1. s # cap /\ s \notin a.checkers
      BY <1>6, <1>8 DEF Strikers
    <3>2. s \notin Leapers(b, them, k)
      BY <1>7, <3>1 DEF Strikers
    <3> QED BY <1>6, <3>1, <3>2 DEF Strikers
  <2>2. Between[k][s] \cap occ # {}
    <3>1. s \notin a.checkers
      BY <1>8, <2>1
    <3> QED BY <1>7, <2>1, <3>1 DEF Strikers, occ
  <2>3. Between[k][s] \cap occ \subseteq {o, cap} /\ t \notin Between[k][s] /\ s \in Sq /\ s \in occ
    BY <1>2, <1>5, <1>10, <2>1
  <2>4. CASE cap \notin Between[k][s]
    <3>1. Between[k][s] \cap occ = {o} /\ o \in Between[k][s]
      BY <2>2, <2>3, <2>4
    <3>2. o \in a.pinned
      BY <1>1, <1>2, <1>7, <2>1, <3>1, Struck DEF occ
    <3>3. t \in Line[k][o]
      BY <1>8, <3>2
    <3>4. t \in {o, k, s} \/ t \in Between[k][s] \/ s \in Between[o][t] \/ k \in Between[o][t]
      BY <1>2, <2>3, <3>1, <3>3, Rays
    <3>5. t # o /\ t # k /\ t # s
      BY <1>2, <1>4, <1>11, <2>3
    <3> QED BY <1>11, <2>3, <3>4, <3>5
  <2>5. CASE cap \in Between[k][s] /\ o \in Between[k][s]
    <3>1. rank(k) = rank(o) /\ s \in Line[k][o] /\ s \notin BishopLines[k]
      BY <1>11, <2>3, <2>5
    <3>2. s \in RookLines[k] /\ s \in RookLike(b, them)
      BY <2>1, <3>1 DEF LinedUp
    <3>3. Between[k][s] \cap (occ \ {o, cap}) = {}
      BY <2>3
    <3>4. s \in rook_attacks(Xor(Xor(occ, {o}), {cap}), k)
      BY <1>12, <3>2, <3>3 DEF rook_attacks
    <3> QED BY <1>9, <3>1, <3>2, <3>4
  <2>6. CASE cap \in Between[k][s] /\ o \notin Between[k][s]
    <3>1. Between[k][s] \cap (occ \ {cap}) = {}
      BY <2>3, <2>6
    <3>2. start \in Between[k][s]
      BY <1>4, <2>1, <3>1
    <3> QED BY <1>11, <2>3, <2>6, <3>2
  <2> QED BY <2>4, <2>5, <2>6
<1> QED BY <1>2, <1>13 DEF us, them, made

-----------------------------------------------------------------------------
\* The pawn moves that are not promotions stay between the back ranks, and a double
\* push leaves from the second rank over an empty square.
PawnGoes(b, m) ==
    LET us == b.whos_move
        o == m.origin
    IN /\ m.moving_piece = "PAWN" /\ ~is_promotion(m) => rank(m.target) \in 1 .. 6
       /\ m.type = "DOUBLE_PUSH" => /\ m.moving_piece = "PAWN" /\ rank(o) = relative_rank(us, 1)
                                    /\ m.target = o + 2 * forwards(us)
                                    /\ o + forwards(us) \notin b.occupied_bb

\* No king is in check from more than two pieces at a time: the one that has
\* moved, and one that stands behind where it was, or behind a pawn taken en passant.
LEMMA FewCheckers ==
  ASSUME NEW b \in Boards, Views(b), Counted(b), Safe(b), NEW m, Playable(b, m),
         NEW a, EpHeld(b, a.en_passent_target), m.type = "EN_PASSENT" => InPassing(b, a, m)
  PROVE  Cardinality(Checkers(MakeBoard(b, m))) <= 2
<1> DEFINE us == b.whos_move
           them == Other(us)
           made == MakeBoard(b, m)
           k == b.king_square[them]
           o == m.origin
           t == m.target
           occ == b.occupied_bb
           cap == TakenSquare(m)
           S == Strikers(made, us, k)
           Behind(v) == {s \in S : s \in LinedUp(made, us, k) /\ Between[k][s] \cap made.occupied_bb = {}
                                   /\ v \in Between[k][s]}
           new == IF is_castle(m) THEN Castled(us, m) ELSE t
<1>1. us \in Colours /\ them \in Colours /\ them # us /\ Other(them) = us
  BY DEF Boards, Colours, Other
<1>2. /\ made.king_square[them] = k /\ k \in Sq /\ o \in Sq /\ t \in Sq /\ made.whos_move = them
      /\ t \in OwnFilled(us, m) /\ made \in Boards /\ Views(made)
  BY <1>1, OccupiedMoved, MadeBoard
<1>3. Checkers(made) = S
  BY <1>1, <1>2, Struck
<1>4. /\ Leapers(b, us, k) = {}
      /\ \A s \in LinedUp(b, us, k) : Between[k][s] \cap occ # {}
  BY DEF Safe, Strikers
<1>5. /\ Leapers(made, us, k) \subseteq Newcomers(us, m)
      /\ LinedUp(made, us, k) \subseteq LinedUp(b, us, k) \cup Newcomers(us, m)
      /\ Newcomers(us, m) \subseteq {new}
  BY <1>2, <1>4, StrikersMoved DEF Newcomers
<1>6. made.occupied_bb = (occ \ (OwnLeft(us, m) \cup TheirsLost(m))) \cup OwnFilled(us, m)
  BY OccupiedMoved
<1>7. LinedUp(made, us, k) \subseteq Sq
  BY <1>2 DEF LinedUp, RookLines, BishopLines
<1>8. \A s \in Sq : Home(us, m) \notin Between[k][s]
  <2>1. Home(us, m) \in {0, 7, 56, 63}
    BY <1>1 DEF Home, RookSquares, Square, BackRank, relative_rank, get_castleside, Colours
  <2>2. ASSUME NEW s \in Sq, NEW c \in {0, 7, 56, 63}, c \in Between[k][s] PROVE FALSE
    <3>0. c \in Sq
      BY DEF Sq
    <3>1. k \in Sq /\ Inside(k, s, c)
      BY <1>2, <2>2, <3>0, Btw
    <3>2. /\ rank(c) \in {0, 7} /\ file(c) \in {0, 7}
          /\ rank(k) \in 0 .. 7 /\ file(k) \in 0 .. 7 /\ rank(s) \in 0 .. 7 /\ file(s) \in 0 .. 7
      BY <3>1, Coordinates DEF rank, file
    <3> QED BY <3>1, <3>2 DEF Inside, Aligned, Strictly
  <2> QED BY <2>1, <2>2
<1>9. OwnLeft(us, m) \subseteq {o, Home(us, m)} /\ TheirsLost(m) \subseteq {cap}
      /\ (m.type # "EN_PASSENT" => cap = t)
  BY DEF OwnLeft, TheirsLost, TakenSquare
<1>10. LinedUp(made, us, k) \subseteq made.occupied_bb
  <2>1. LinedUp(made, us, k) \subseteq made.colour_bb[us]
    BY <1>1, <1>2, Struck
  <2> QED BY <1>1, <1>2, <2>1 DEF Views, Colours
<1>11. S \subseteq {new} \cup Behind(o) \cup (IF m.type = "EN_PASSENT" THEN Behind(cap) ELSE {})
  <2>1. ASSUME NEW s \in S, s # new PROVE s \in Behind(o) \/ (m.type = "EN_PASSENT" /\ s \in Behind(cap))
    <3>1. /\ s \in LinedUp(made, us, k) /\ Between[k][s] \cap made.occupied_bb = {}
          /\ s \in LinedUp(b, us, k) /\ s \in Sq
      BY <1>5, <1>7, <2>1 DEF Strikers
    <3>2. PICK q \in Between[k][s] : q \in occ
      BY <1>4, <3>1
    <3>3. q \notin made.occupied_bb
      BY <3>1, <3>2
    <3>4. q # Home(us, m) /\ q # t
      BY <1>2, <1>6, <1>8, <3>1, <3>3
    <3>5. q = o \/ (m.type = "EN_PASSENT" /\ q = cap)
      BY <1>6, <1>9, <3>2, <3>3, <3>4
    <3> QED BY <3>1, <3>2, <3>5
  <2> QED BY <2>1
<1> HIDE DEF us, them, made, k, o, t, occ, cap, new, S
<1>12. \A v \in Sq : \A s, q \in Behind(v) : s = q
  <2>1. ASSUME NEW v \in Sq, NEW s \in Behind(v), NEW q \in Behind(v)
        PROVE  s = q
    <3>1. s \in Sq /\ q \in Sq /\ s \in made.occupied_bb /\ q \in made.occupied_bb
      BY <1>7, <1>10
    <3>2. s = q \/ s \in Between[k][q] \/ q \in Between[k][s]
      BY <1>2, <3>1, Rays
    <3> QED BY <3>1, <3>2
  <2> QED BY <2>1
<1>13. \A v \in Sq : \E y : Behind(v) \subseteq {y}
  BY <1>12
<1>14. ASSUME NEW x, NEW y, S \subseteq {x, y}
       PROVE  Cardinality(S) <= 2
  <2>1. /\ IsFiniteSet({}) /\ Cardinality({}) = 0
        /\ IsFiniteSet({x}) /\ Cardinality({x}) = 1
    BY FS_EmptySet, FS_Singleton
  <2>2. IsFiniteSet({x} \cup {y}) /\ Cardinality({x} \cup {y}) <= 2
    <3>1. CASE y \in {x}
      <4>1. {x} \cup {y} = {x}
        BY <3>1
      <4> QED BY <2>1, <4>1
    <3>2. CASE y \notin {x}
      <4>1. IsFiniteSet({x} \cup {y}) /\ Cardinality({x} \cup {y}) = 1 + 1
        BY <2>1, <3>2, FS_AddElement
      <4> QED BY <4>1
    <3> QED BY <3>1, <3>2
  <2>3. S \subseteq {x} \cup {y}
    BY <1>14
  <2>4. Cardinality(S) <= Cardinality({x} \cup {y}) /\ IsFiniteSet(S)
    BY <2>2, <2>3, FS_Subset
  <2>5. Cardinality(S) \in Nat /\ Cardinality({x} \cup {y}) \in Nat
    BY <2>2, <2>4, FS_CardinalityType
  <2> QED BY <2>2, <2>4, <2>5
<1>15. CASE m.type # "EN_PASSENT"
  <2>1. PICK y : Behind(o) \subseteq {y}
    BY <1>2, <1>13
  <2>2. S \subseteq {new, y}
    BY <1>11, <1>15, <2>1
  <2> QED BY <1>3, <1>14, <2>2 DEF made
<1>16. CASE m.type = "EN_PASSENT"
  <2>1. /\ a.en_passent_target \in Files /\ cap = EpPawn(us, a.en_passent_target)
        /\ t = EpTo(us, a.en_passent_target) /\ o \in Sq
        /\ rank(o) = relative_rank(us, 4) /\ Dist(file(o), a.en_passent_target) = 1
        /\ m.moving_piece = "PAWN" /\ t \notin occ /\ new = t
    <3>1. a.en_passent_target \in Files /\ t \notin occ
      BY <1>16 DEF InPassing, EpHeld, us, occ, t
    <3>2. new = t
      BY <1>16 DEF new, is_castle
    <3> QED BY <1>2, <1>16, <3>1, <3>2 DEF InPassing, us, cap, t, o
  <2>2. /\ cap \in Sq
        /\ t \in pawn_attacks(them, k) => \A s \in Sq : cap \notin Between[k][s]
    <3>1. \A q \in Sq : \A s \in Sq :
             EpTo(us, a.en_passent_target) \in pawn_attacks(Other(us), q)
             => EpPawn(us, a.en_passent_target) \notin Between[q][s]
      BY <1>1, <2>1, PassingSquares
    <3>2. EpPawn(us, a.en_passent_target) \in Sq
      BY <1>1, <2>1, PassingSquares
    <3> QED BY <1>2, <2>1, <3>1, <3>2 DEF them
  <2>3. ASSUME t \in S, NEW s \in Behind(cap)
        PROVE  FALSE
    <3>1. \A p \in PieceTypes \ {"PAWN"} : t \notin pieces(made, us, p)
      <4>1. \A p \in PieceTypes : pieces(made, us, p)
                                  = (pieces(b, us, p) \ Left(us, m, us, p)) \cup Filled(us, m, us, p)
        BY <1>1, MadeBoard DEF us, made
      <4>2. \A p \in PieceTypes \ {"PAWN"} : Filled(us, m, us, p) = {}
        BY <1>16, <2>1 DEF Filled, Becomes, is_promotion, is_castle
      <4>3. \A p : t \notin pieces(b, us, p)
        BY <1>1, <2>1 DEF pieces, Views, Colours, occ
      <4> QED BY <4>1, <4>2, <4>3
    <3>2. {"KNIGHT", "BISHOP", "ROOK", "QUEEN"} \subseteq PieceTypes \ {"PAWN"}
      BY DEF PieceTypes
    <3>3. t \notin LinedUp(made, us, k)
      BY <3>1, <3>2 DEF LinedUp, RookLike, BishopLike, pieces
    <3>4. t \in pawn_attacks(them, k)
      <4>1. t \in Leapers(made, us, k)
        BY <2>3, <3>3 DEF S, Strikers
      <4>2. t \notin pieces(made, us, "KNIGHT")
        BY <3>1, <3>2
      <4> QED BY <4>1, <4>2 DEF Leapers, them
    <3>5. s \in Sq /\ cap \in Between[k][s]
      BY <1>7
    <3> QED BY <2>2, <3>4, <3>5
  <2>4. PICK y : Behind(o) \subseteq {y}
    BY <1>2, <1>13
  <2>5. PICK z : Behind(cap) \subseteq {z}
    BY <1>13, <2>2
  <2>6. S \subseteq {t, y} \/ S \subseteq {y, z}
    <3>1. S \subseteq {t} \cup Behind(o) \cup Behind(cap)
      BY <1>11, <1>16, <2>1
    <3>2. CASE t \in S
      BY <2>3, <2>4, <3>1, <3>2
    <3>3. CASE t \notin S
      BY <2>4, <2>5, <3>1, <3>3
    <3> QED BY <3>2, <3>3
  <2> QED BY <1>3, <1>14, <2>6 DEF made
<1> QED BY <1>15, <1>16

\* A move of one of the three kinds leads from a lawful position to a lawful one, with
\* the rights that LostRights leaves and the file that EpMade notes.
LEMMA MadeLawful ==
  ASSUME NEW b, NEW a, Lawful(b, a.castling_rights, a.en_passent_target), Informed(b, a),
         NEW m, Playable(b, m), PawnGoes(b, m),
         Steered(b, a, m) \/ Royal(b, a, m) \/ InPassing(b, a, m)
  PROVE  Lawful(MakeBoard(b, m),
                a.castling_rights \ LostRights(a.castling_rights, b.whos_move, m), EpMade(m))
<1> DEFINE us == b.whos_move
           them == Other(us)
           made == MakeBoard(b, m)
           o == m.origin
           t == m.target
           rights == a.castling_rights
           kept == rights \ LostRights(rights, us, m)
<1>0. /\ b \in Boards /\ Views(b) /\ Counted(b) /\ Safe(b) /\ Apart(b) /\ PawnsInside(b)
      /\ RightsHeld(b, rights) /\ EpHeld(b, a.en_passent_target)
  BY DEF Lawful
<1>1. us \in Colours /\ them \in Colours /\ them # us /\ Other(them) = us
      /\ \A c \in Colours : c = us \/ c = them
  BY <1>0 DEF Boards, Colours, Other
<1>2. /\ made \in Boards /\ Views(made) /\ Counted(made) /\ made.whos_move = them
      /\ o \in Sq /\ t \in Sq
      /\ \A c \in Colours, p \in PieceTypes :
            /\ pieces(made, c, p) = (pieces(b, c, p) \ Left(us, m, c, p)) \cup Filled(us, m, c, p)
            /\ Left(us, m, c, p) \subseteq pieces(b, c, p)
  BY <1>0, MadeBoard, MadeCounts, OccupiedMoved
<1>3. \A c \in Colours : made.king_square[c] = IF c = us /\ m.moving_piece = "KING"
                                               THEN t ELSE b.king_square[c]
  BY <1>0, OccupiedMoved
<1>4. Safe(made)
  <2>1. Strikers(made, them, made.king_square[us]) = {}
    BY <1>0, SteeredSafe, RoyalSafe, PassingSafe
  <2> QED BY <1>1, <1>2, <2>1 DEF Safe
<1>5. Apart(made)
  <2>1. Steered(b, a, m) \/ InPassing(b, a, m) => m.moving_piece # "KING"
    BY DEF Steered, InPassing
  <2>2. made.king_square[us] \notin KingAttacks[made.king_square[them]]
    <3>1. CASE Royal(b, a, m)
      BY <1>0, <3>1, RoyalSafe
    <3>2. CASE m.moving_piece # "KING"
      <4>1. b.king_square["WHITE"] \in Sq /\ b.king_square["BLACK"] \in Sq
        BY <1>0 DEF Boards, Colours
      <4>2. b.king_square[us] \notin KingAttacks[b.king_square[them]]
        BY <1>0, <1>1, <4>1, Sym DEF Apart, Colours
      <4> QED BY <1>1, <1>3, <3>2, <4>2
    <3> QED BY <2>1, <3>1, <3>2
  <2>3. made.king_square["WHITE"] \in Sq /\ made.king_square["BLACK"] \in Sq
    BY <1>2 DEF Boards, Colours
  <2> QED BY <1>1, <2>2, <2>3, Sym DEF Apart, Colours
<1>6. PawnsInside(made)
  <2>1. ASSUME NEW c \in Colours, NEW s \in pieces(made, c, "PAWN") PROVE rank(s) \in 1 .. 6
    <3>1. CASE s \in pieces(b, c, "PAWN")
      BY <1>0, <3>1 DEF PawnsInside
    <3>2. CASE s \in Filled(us, m, c, "PAWN")
      <4>1. c = us /\ s = t /\ Becomes(m) = "PAWN"
        BY <3>2 DEF Filled
      <4>2. ~is_promotion(m) /\ m.moving_piece = "PAWN"
        BY <4>1 DEF Becomes, Playable
      <4> QED BY <4>1, <4>2 DEF PawnGoes
    <3> QED BY <1>2, <3>1, <3>2 DEF PieceTypes
  <2> QED BY <2>1 DEF PawnsInside
<1>7. Cardinality(Checkers(made)) <= 2
  <2>1. m.type = "EN_PASSENT" => InPassing(b, a, m)
    BY DEF Steered, Royal
  <2> QED BY <1>0, <2>1, FewCheckers
<1>8. RightsHeld(made, kept)
  <2>1. kept \subseteq Colours \X Sides /\ kept \subseteq rights
    BY <1>0 DEF RightsHeld
  <2>2. ASSUME NEW right \in kept
        PROVE  /\ KingSquare(right[1]) \in pieces(made, right[1], "KING")
               /\ RookSquares(right[1], right[2]) \in pieces(made, right[1], "ROOK")
    <3> DEFINE c == right[1]
               side == right[2]
    <3>1. c \in Colours /\ side \in Sides /\ right = <<c, side>>
      BY <2>1
    <3>2. KingSquare(c) \in pieces(b, c, "KING") /\ RookSquares(c, side) \in pieces(b, c, "ROOK")
      BY <1>0, <2>1 DEF RightsHeld
    <3>3. right \notin LostRights(rights, us, m) /\ right \in rights
      OBVIOUS
    <3>4. c = us => m.moving_piece # "KING" /\ o # RookSquares(c, side)
      BY <3>1, <3>3 DEF LostRights, HomeRook
    <3>5. c = them => (is_capture(m) => t # RookSquares(c, side))
      BY <3>1, <3>3 DEF LostRights, HomeRook
    <3> HIDE DEF c, side, kept
    <3>6. CASE c = us
      <4>1. Left(us, m, c, "KING") = {}
        BY <3>4, <3>6 DEF Left, is_castle, Playable
      <4>2. RookSquares(c, side) \notin Left(us, m, c, "ROOK")
        BY <3>4, <3>6 DEF Left, Playable
      <4> QED BY <1>2, <3>1, <3>2, <4>1, <4>2 DEF PieceTypes, c, side
    <3>7. CASE c = them
      <4>1. Left(us, m, c, "KING") = {}
        BY <1>1, <3>7 DEF Left, Playable
      <4>2. RookSquares(c, side) \notin Left(us, m, c, "ROOK")
        <5>1. m.type = "EN_PASSENT" => m.captured_piece = "PAWN"
          BY DEF Playable
        <5> QED BY <1>1, <3>5, <3>7, <5>1 DEF Left, TakenSquare
      <4> QED BY <1>2, <3>1, <3>2, <4>1, <4>2 DEF PieceTypes, c, side
    <3> QED BY <1>1, <3>1, <3>6, <3>7
  <2> QED BY <2>1, <2>2 DEF RightsHeld
<1>9. EpHeld(made, EpMade(m))
  <2>1. CASE m.type # "DOUBLE_PUSH"
    BY <2>1 DEF EpHeld, EpMade
  <2>2. CASE m.type = "DOUBLE_PUSH"
    <3> DEFINE ep == file(o)
               k == b.king_square[them]
               occ == b.occupied_bb
               mid == o + forwards(us)
    <3>1. /\ m.moving_piece = "PAWN" /\ rank(o) = relative_rank(us, 1) /\ t = o + 2 * forwards(us)
          /\ mid \notin occ /\ ~is_castle(m) /\ ~is_capture(m) /\ ~is_promotion(m)
      BY <2>2 DEF PawnGoes, is_castle, is_capture, is_promotion
    <3>2. ep \in Files /\ EpMade(m) = ep
      BY <1>2, <2>2, Coordinates DEF EpMade, Files
    <3>3. rank(o) \in 1 .. 6
      BY <1>1, <3>1 DEF relative_rank, Colours
    <3>4. /\ mid = Square(relative_rank(us, 2), ep) /\ t = Square(relative_rank(us, 3), ep)
          /\ o = Square(relative_rank(us, 1), ep) /\ mid # o /\ mid # t
      <4>1. /\ mid = Square(relative_rank(us, 2), ep) /\ t = Square(relative_rank(us, 3), ep)
        BY <1>1, <1>2, <3>1, <3>3, Steps
      <4>2. o = Square(relative_rank(us, 1), ep)
        BY <1>2, <3>1, Coordinates DEF Square
      <4>3. mid # o /\ mid # t
        BY <1>1, <1>2, <3>1 DEF forwards, Colours, Sq
      <4> QED BY <4>1, <4>2, <4>3
    <3>5. t = EpPawn(them, ep) /\ mid = EpTo(them, ep) /\ o = EpFrom(them, ep)
      <4>1. /\ relative_rank(them, 4) = relative_rank(us, 3) /\ relative_rank(them, 5) = relative_rank(us, 2)
            /\ relative_rank(them, 6) = relative_rank(us, 1)
        BY <1>1 DEF relative_rank, Colours, Other
      <4> QED BY <3>4, <4>1 DEF EpPawn, EpTo, EpFrom
    <3>6. made.occupied_bb = (occ \ {o}) \cup {t}
      <4>1. made.occupied_bb = (occ \ (OwnLeft(us, m) \cup TheirsLost(m))) \cup OwnFilled(us, m)
        BY <1>0, OccupiedMoved
      <4>2. OwnLeft(us, m) = {o} /\ OwnFilled(us, m) = {t} /\ TheirsLost(m) = {}
        BY <3>1 DEF OwnLeft, OwnFilled, TheirsLost
      <4> QED BY <4>1, <4>2
    <3>7. t \notin occ /\ o \in occ /\ o # t
      <4>1. t \notin occ
        BY <3>1 DEF Playable
      <4>2. o \in occ
        BY <1>0, <1>1, OccupiedMoved
      <4> QED BY <4>1, <4>2
    <3>8. t \in pieces(made, us, "PAWN")
      <4>1. Filled(us, m, us, "PAWN") = {t}
        BY <3>1 DEF Filled, Becomes
      <4> QED BY <1>1, <1>2, <4>1 DEF PieceTypes
    <3>9. \A s \in LinedUp(made, us, k) : Between[k][s] \cap ((made.occupied_bb \ {t}) \cup {o}) # {}
      <4>1. (made.occupied_bb \ {t}) \cup {o} = occ
        BY <3>6, <3>7
      <4>2. k \in Sq
        BY <1>0, <1>1 DEF Boards
      <4>3. \A s \in LinedUp(made, us, k) : s \in LinedUp(b, us, k)
        <5>1. \A p \in PieceTypes \ {"PAWN"} : pieces(made, us, p) = pieces(b, us, p)
          <6>1. \A p \in PieceTypes \ {"PAWN"} : Left(us, m, us, p) = {} /\ Filled(us, m, us, p) = {}
            BY <3>1 DEF Left, Filled, Becomes
          <6> QED BY <1>1, <1>2, <6>1
        <5>2. {"ROOK", "BISHOP", "QUEEN"} \subseteq PieceTypes \ {"PAWN"}
          BY DEF PieceTypes
        <5>3. \A x, c : /\ RookLike(x, c) = pieces(x, c, "ROOK") \cup pieces(x, c, "QUEEN")
                        /\ BishopLike(x, c) = pieces(x, c, "BISHOP") \cup pieces(x, c, "QUEEN")
          BY DEF RookLike, BishopLike, pieces
        <5> HIDE DEF made, us
        <5>4. RookLike(made, us) = RookLike(b, us) /\ BishopLike(made, us) = BishopLike(b, us)
          BY <5>1, <5>2, <5>3
        <5> QED BY <5>4 DEF LinedUp
      <4>4. \A s \in LinedUp(b, us, k) : Between[k][s] \cap occ # {}
        BY <1>0 DEF Safe, Strikers
      <4> QED BY <4>1, <4>3, <4>4
    <3>10. made.king_square[them] = k
      BY <1>1, <1>3
    <3> HIDE DEF ep, k, occ, mid, made, us, them, o, t
    <3>11. t \in pieces(made, Other(them), "PAWN") /\ mid \notin made.occupied_bb /\ o \notin made.occupied_bb
      BY <1>1, <3>1, <3>4, <3>6, <3>7, <3>8
    <3> QED BY <1>1, <1>2, <3>2, <3>5, <3>9, <3>10, <3>11 DEF EpHeld
  <2> QED BY <2>1, <2>2
<1> QED BY <1>2, <1>4, <1>5, <1>6, <1>7, <1>8, <1>9 DEF Lawful

\* So does a null move, out of check.
LEMMA NullLawful ==
  ASSUME NEW b, NEW a, Lawful(b, a.castling_rights, a.en_passent_target), Informed(b, a), ~is_check(a)
  PROVE  Lawful(NullBoard(b), a.castling_rights, NO_FILE)
<1> DEFINE us == b.whos_move
           them == Other(us)
           n == NullBoard(b)
<1>0. /\ b \in Boards /\ Views(b) /\ Counted(b) /\ Safe(b) /\ Apart(b) /\ PawnsInside(b)
      /\ RightsHeld(b, a.castling_rights)
  BY DEF Lawful
<1>1. us \in Colours /\ them \in Colours /\ Other(them) = us
  BY <1>0 DEF Boards, Colours, Other
<1>2. /\ n.whos_move = them /\ n.colour_bb = b.colour_bb /\ n.piece_bb = b.piece_bb
      /\ n.occupied_bb = b.occupied_bb /\ n.king_square = b.king_square
      /\ n.piece_counts = b.piece_counts /\ n.phase_material = b.phase_material
      /\ n \in Boards
  <2> DEFINE next == b.fullmove_counter + (IF us = "BLACK" THEN 1 ELSE 0)
  <2>1. n = [b EXCEPT !.whos_move = them, !.fullmove_counter = next]
    BY DEF NullBoard
  <2>2. next \in Int
    BY <1>0 DEF Boards
  <2> HIDE DEF next, them, us, n
  <2>3. /\ n.whos_move = them /\ n.colour_bb = b.colour_bb /\ n.piece_bb = b.piece_bb
        /\ n.occupied_bb = b.occupied_bb /\ n.king_square = b.king_square
        /\ n.piece_counts = b.piece_counts /\ n.phase_material = b.phase_material
    BY <1>0, <2>1 DEF Boards
  <2>4. n \in Boards
    BY <1>0, <1>1, <2>1, <2>2 DEF Boards
  <2> QED BY <2>3, <2>4
<1> HIDE DEF n
<1>3. \A c, p : pieces(n, c, p) = pieces(b, c, p) /\ RookLike(n, c) = RookLike(b, c)
                /\ BishopLike(n, c) = BishopLike(b, c)
  BY <1>2 DEF pieces, RookLike, BishopLike
<1>4. \A c, k : Strikers(n, c, k) = Strikers(b, c, k)
  BY <1>2, <1>3 DEF Strikers, Leapers, LinedUp
<1>5. Views(n) /\ Counted(n) /\ Apart(n) /\ PawnsInside(n) /\ RightsHeld(n, a.castling_rights)
  BY <1>0, <1>2, <1>3 DEF Views, Counted, Apart, PawnsInside, RightsHeld
<1>6. Safe(n)
  <2>1. Strikers(b, them, b.king_square[us]) = {}
    BY <1>0, Struck DEF Informed, is_check
  <2> QED BY <1>1, <1>2, <1>4, <2>1 DEF Safe
<1>7. Checkers(n) = {}
  <2>1. Checkers(n) = Strikers(b, us, b.king_square[them])
    BY <1>1, <1>2, <1>4, Struck
  <2> QED BY <1>0, <2>1 DEF Safe
<1>8. Cardinality(Checkers(n)) <= 2
  BY <1>7, FS_EmptySet
<1>9. EpHeld(n, NO_FILE)
  BY DEF EpHeld
<1> QED BY <1>2, <1>5, <1>6, <1>8, <1>9 DEF Lawful, n

-----------------------------------------------------------------------------
Blank == [moving_piece : PieceTypes, origin : Sq, target : Sq, type : MoveTypes,
          promoted : PieceTypes \cup {NO_PIECE}, captured_piece : PieceTypes \cup {NO_PIECE}]

\* What a generated move is before its captured piece is looked up.
Sound(b, m) ==
    LET us == b.whos_move
        them == Other(us)
    IN /\ m \in Blank
       /\ m.origin \in pieces(b, us, m.moving_piece)
       /\ is_capture(m) /\ m.type # "EN_PASSENT"
             => m.target \in b.colour_bb[them] /\ m.target # b.king_square[them]
       /\ m.type = "EN_PASSENT" =>
             m.moving_piece = "PAWN" /\ CapturedSquare(m) \in pieces(b, them, "PAWN")
       /\ ~is_capture(m) \/ m.type = "EN_PASSENT" => m.target \notin b.occupied_bb
       /\ is_promotion(m) => m.moving_piece = "PAWN" /\ m.promoted \in PieceTypes \ {"PAWN", "KING"}
       /\ is_castle(m) =>
            /\ m.moving_piece = "KING" /\ m.origin = KingSquare(us)
            /\ m.target = KingCastleSquare(us, get_castleside(m))
            /\ Home(us, m) \in pieces(b, us, "ROOK")
            /\ Castled(us, m) \notin b.occupied_bb

\* A move that is neither of the king nor en passant and keeps to its pin or answers
\* the check, as Steered has it, from o to t.
Keeps(b, a, o, t) ==
    LET ks == b.king_square[b.whos_move]
    IN /\ is_check(a) => /\ o \notin a.pinned
                         /\ \E ts : a.checkers = {ts} /\ (t = ts \/ t \in Between[ks][ts])
       /\ ~is_check(a) => (o \in a.pinned => t \in Line[ks][o])

Described(b, a, m) ==
    /\ Sound(b, m) /\ PawnGoes(b, m)
    /\ Steered(b, a, m) \/ Royal(b, a, m) \/ InPassing(b, a, m)

\* Captured finds the piece that a capture takes, and it is no king.
LEMMA CaptureFound ==
  ASSUME NEW b \in Boards, Views(b), Counted(b), NEW move, Sound(b, move)
  PROVE  LET m == [move EXCEPT !.captured_piece = Captured(b, move)]
         IN /\ Playable(b, m)
            /\ m.moving_piece = move.moving_piece /\ m.origin = move.origin
            /\ m.target = move.target /\ m.type = move.type /\ m.promoted = move.promoted
            /\ is_capture(m) = is_capture(move) /\ is_promotion(m) = is_promotion(move)
            /\ is_castle(m) = is_castle(move) /\ get_castleside(m) = get_castleside(move)
            /\ CapturedSquare(m) = CapturedSquare(move) /\ TakenSquare(m) = TakenSquare(move)
<1> DEFINE us == b.whos_move
           them == Other(us)
           cp == Captured(b, move)
           m == [move EXCEPT !.captured_piece = cp]
<1>1. us \in Colours /\ them \in Colours /\ them # us
  BY DEF Boards, Colours, Other
<1>2. Sound(b, move) /\ move \in Blank
  BY DEF Sound
<1>3. cp \in PieceTypes \cup {NO_PIECE} /\ (is_capture(move) =>
         /\ cp \in PieceTypes \ {"KING"}
         /\ TakenSquare(move) \in pieces(b, them, cp)
         /\ (move.type = "EN_PASSENT" => cp = "PAWN"))
  <2>1. CASE move.type = "EN_PASSENT"
    BY <1>2, <2>1 DEF Captured, Sound, TakenSquare, PieceTypes
  <2>2. CASE is_capture(move) /\ move.type # "EN_PASSENT"
    <3>1. cp = piece_type(b, move.target) /\ TakenSquare(move) = move.target
      BY <2>2 DEF Captured, TakenSquare
    <3>2. move.target \in b.colour_bb[them] /\ move.target # b.king_square[them]
      BY <1>2, <2>2 DEF Sound
    <3>3. \E p \in PieceTypes : move.target \in b.piece_bb[p]
      BY <1>1, <3>2 DEF Views, Colours
    <3>4. cp \in PieceTypes /\ move.target \in b.piece_bb[cp]
      BY <3>1, <3>3 DEF piece_type
    <3>5. move.target \in pieces(b, them, cp)
      BY <3>2, <3>4 DEF pieces
    <3>6. cp # "KING"
      BY <1>1, <3>2, <3>5 DEF Counted
    <3> QED BY <2>2, <3>1, <3>4, <3>5, <3>6
  <2>3. CASE ~is_capture(move) /\ move.type # "EN_PASSENT"
    BY <2>3 DEF Captured
  <2> QED BY <2>1, <2>2, <2>3
<1> HIDE DEF cp
<1>4. /\ m.moving_piece = move.moving_piece /\ m.origin = move.origin /\ m.target = move.target
      /\ m.type = move.type /\ m.promoted = move.promoted /\ m.captured_piece = cp /\ m \in Blank
  BY <1>2, <1>3 DEF Blank
<1> HIDE DEF m, us, them
<1>5. /\ is_capture(m) = is_capture(move) /\ is_promotion(m) = is_promotion(move)
      /\ is_castle(m) = is_castle(move) /\ get_castleside(m) = get_castleside(move)
      /\ CapturedSquare(m) = CapturedSquare(move)
  BY <1>4 DEF is_capture, is_promotion, is_castle, get_castleside, CapturedSquare
<1>6. /\ TakenSquare(m) = TakenSquare(move)
      /\ \A c : Home(c, m) = Home(c, move) /\ Castled(c, m) = Castled(c, move)
  BY <1>4, <1>5 DEF TakenSquare, Home, Castled
<1>7. Playable(b, m)
  <2>1. m \in MadeMoves
    BY <1>2, <1>3, <1>4, <1>5 DEF MadeMoves, Blank, Sound
  <2>2. m.type = "EN_PASSENT" => is_capture(m)
    BY DEF is_capture
  <2> QED BY <1>2, <1>3, <1>4, <1>5, <1>6, <2>1, <2>2 DEF Playable, Sound, us, them
<1> QED BY <1>4, <1>5, <1>6, <1>7 DEF m, cp

LEMMA CapturedIsThere ==
  ASSUME NEW b \in Boards, Views(b), Counted(b), NEW a, NEW move, Described(b, a, move)
  PROVE  LET m == [move EXCEPT !.captured_piece = Captured(b, move)]
         IN /\ Playable(b, m) /\ PawnGoes(b, m)
            /\ Steered(b, a, m) \/ Royal(b, a, m) \/ InPassing(b, a, m)
<1> DEFINE m == [move EXCEPT !.captured_piece = Captured(b, move)]
<1>1. Sound(b, move)
  BY DEF Described
<1>2. /\ Playable(b, m)
      /\ m.moving_piece = move.moving_piece /\ m.origin = move.origin
      /\ m.target = move.target /\ m.type = move.type
      /\ is_promotion(m) = is_promotion(move) /\ is_castle(m) = is_castle(move)
      /\ TakenSquare(m) = TakenSquare(move)
  BY <1>1, CaptureFound
<1> HIDE DEF m
<1>3. PawnGoes(b, m)
  BY <1>2 DEF Described, PawnGoes
<1>4. Steered(b, a, m) \/ Royal(b, a, m) \/ InPassing(b, a, m)
  <2>1. Steered(b, a, move) => Steered(b, a, m)
    BY <1>2 DEF Steered
  <2>2. Royal(b, a, move) => Royal(b, a, m)
    BY <1>2 DEF Royal
  <2>3. InPassing(b, a, move) => InPassing(b, a, m)
    BY <1>2 DEF InPassing
  <2> QED BY <2>1, <2>2, <2>3 DEF Described
<1> QED BY <1>2, <1>3, <1>4 DEF m

\* Whom the side to move attacks is not the other king; nor do pieces that leap, or that
\* see their target, pass over anything.
LEMMA Targets ==
  ASSUME NEW b \in Boards, Views(b), Counted(b), Safe(b), Apart(b)
  PROVE  LET us == b.whos_move
             kt == b.king_square[Other(us)]
         IN /\ \A p \in Officers : \A o \in pieces(b, us, p) : \A t \in attacks(p, b.occupied_bb, o) :
                 t \in Sq /\ t # kt /\ Between[o][t] \cap b.occupied_bb = {}
            /\ \A o \in pieces(b, us, "PAWN") : \A t \in pawn_attacks(us, o) :
                 t \in Sq /\ t # kt /\ Between[o][t] = {}
            /\ \A t \in KingAttacks[b.king_square[us]] : t \in Sq /\ t # kt
            /\ \A p \in Officers : \A o, t \in Sq :
                 t \in attacks(p, b.occupied_bb, o) <=> o \in attacks(p, b.occupied_bb, t)
<1> DEFINE us == b.whos_move
           them == Other(us)
           kt == b.king_square[them]
           occ == b.occupied_bb
<1>1. us \in Colours /\ them \in Colours /\ them # us /\ kt \in Sq /\ b.king_square[us] \in Sq
      /\ \A p : pieces(b, us, p) \subseteq Sq
  BY DEF Boards, Colours, Other, pieces
<1>2. \A o : /\ attacks("KNIGHT", occ, o) = KnightAttacks[o]
             /\ attacks("ROOK", occ, o) = {t \in RookLines[o] : Between[o][t] \cap occ = {}}
             /\ attacks("BISHOP", occ, o) = {t \in BishopLines[o] : Between[o][t] \cap occ = {}}
             /\ attacks("QUEEN", occ, o) = {t \in RookLines[o] : Between[o][t] \cap occ = {}}
                                           \cup {t \in BishopLines[o] : Between[o][t] \cap occ = {}}
  BY DEF attacks, rook_attacks, bishop_attacks
<1>3. \A o \in Sq : RookLines[o] \subseteq Sq /\ BishopLines[o] \subseteq Sq
  BY DEF RookLines, BishopLines
<1>4. \A s : s \notin Strikers(b, us, kt)
  BY DEF Safe
<1> HIDE DEF us, them, kt, occ
<1>5. ASSUME NEW p \in Officers, NEW o \in Sq, NEW t \in attacks(p, occ, o)
      PROVE  /\ t \in Sq /\ Between[o][t] \cap occ = {} /\ o \in attacks(p, occ, t)
  <2>1. CASE p = "KNIGHT"
    BY <1>2, <1>5, <2>1, Steps, Sym
  <2>2. CASE p = "ROOK"
    BY <1>2, <1>3, <1>5, <2>2, Sym
  <2>3. CASE p = "BISHOP"
    BY <1>2, <1>3, <1>5, <2>3, Sym
  <2>4. CASE p = "QUEEN"
    BY <1>2, <1>3, <1>5, <2>4, Sym
  <2> QED BY <2>1, <2>2, <2>3, <2>4 DEF Officers
<1>6. ASSUME NEW p \in Officers, NEW o \in pieces(b, us, p), kt \in attacks(p, occ, o) PROVE FALSE
  <2>1. o \in Sq /\ o \in attacks(p, occ, kt)
    BY <1>1, <1>5, <1>6
  <2>2. CASE p = "KNIGHT"
    BY <1>2, <1>4, <1>6, <2>1, <2>2 DEF Strikers, Leapers
  <2>3. CASE p # "KNIGHT"
    <3>1. o \in LinedUp(b, us, kt)
      BY <1>2, <1>6, <2>1, <2>3 DEF Officers, LinedUp, RookLike, BishopLike, pieces
    <3>2. Between[kt][o] \cap occ = {}
      BY <1>1, <1>5, <2>1
    <3> QED BY <1>4, <3>1, <3>2 DEF Strikers, occ
  <2> QED BY <2>2, <2>3
<1>7. ASSUME NEW o \in pieces(b, us, "PAWN"), NEW t \in pawn_attacks(us, o)
      PROVE  t \in Sq /\ t # kt /\ Between[o][t] = {}
  <2>1. t \in Sq /\ Between[o][t] = {} /\ o \in pawn_attacks(them, t)
    BY <1>1, Steps, Sym DEF them
  <2>2. t # kt
    BY <1>4, <2>1 DEF Strikers, Leapers, them
  <2> QED BY <2>1, <2>2
<1>8. ASSUME NEW t \in KingAttacks[b.king_square[us]] PROVE t \in Sq /\ t # kt
  <2>1. t \in Sq
    BY <1>1, Steps
  <2>2. t # kt
    BY <1>1, Sym DEF Apart, Colours, kt
  <2> QED BY <2>1, <2>2
<1> QED BY <1>1, <1>5, <1>6, <1>7, <1>8 DEF us, them, kt, occ

\* A move as append_moves writes it, of a piece that keeps to its pin or answers the
\* check, is as described: of an officer, and of a pawn that captures, or is pushed
\* once, or twice.
LEMMA Appended ==
  ASSUME NEW b, NEW a, Lawful(b, a.castling_rights, a.en_passent_target)
  PROVE  LET us == b.whos_move
             them == Other(us)
             occ == b.occupied_bb
         IN /\ \A p \in Officers : \A o \in pieces(b, us, p) : \A t \in attacks(p, occ, o) :
                 Keeps(b, a, o, t) =>
                   /\ t \notin occ => Described(b, a, Move(p, o, t, "QUIETmv"))
                   /\ t \in b.colour_bb[them] => Described(b, a, Move(p, o, t, "CAPTURE"))
            /\ \A o \in pieces(b, us, "PAWN") : \A t \in pawn_attacks(us, o) \cap b.colour_bb[them] :
                 Keeps(b, a, o, t) => \A m \in PawnCaps(us, o, t) : Described(b, a, m)
            /\ \A o \in pieces(b, us, "PAWN") :
                 o + forwards(us) \notin occ /\ Keeps(b, a, o, o + forwards(us)) =>
                   /\ \A m \in PawnPushes(us, o) : Described(b, a, m)
                   /\ rank(o) # relative_rank(us, 6)
                        => Described(b, a, Move("PAWN", o, o + forwards(us), "QUIETmv"))
            /\ \A o \in pieces(b, us, "PAWN") :
                 /\ rank(o) = relative_rank(us, 1) /\ o + forwards(us) \notin occ
                 /\ o + 2 * forwards(us) \notin occ /\ Keeps(b, a, o, o + 2 * forwards(us))
                 => Described(b, a, DoublePush(us, o))
<1> DEFINE us == b.whos_move
           them == Other(us)
           ks == b.king_square[us]
           kt == b.king_square[them]
           occ == b.occupied_bb
<1>0. /\ b \in Boards /\ Views(b) /\ Counted(b) /\ Safe(b) /\ Apart(b) /\ PawnsInside(b)
  BY DEF Lawful
<1>1. /\ us \in Colours /\ them \in Colours /\ \A p : pieces(b, us, p) \subseteq Sq
      /\ Officers \subseteq PieceTypes \ {"PAWN", "KING"} /\ "PAWN" \in PieceTypes \ {"KING"}
  BY <1>0 DEF Boards, Colours, Other, pieces, Officers, PieceTypes
<1>2. ASSUME NEW p \in PieceTypes \ {"KING"}, NEW o \in pieces(b, us, p), NEW t \in Sq, NEW type \in MoveTypes,
             NEW q \in PieceTypes \cup {NO_PIECE},
             type \notin {"EN_PASSENT", "KING_CASTLE", "QUEEN_CASTLE", "DOUBLE_PUSH"},
             Between[o][t] \cap occ = {}, Keeps(b, a, o, t),
             type \in {"CAPTURE", "CAPTURE_PROMOTION"} => t \in b.colour_bb[them] /\ t # kt,
             type \in {"QUIETmv", "PROMOTION"} => t \notin occ,
             type \in {"PROMOTION", "CAPTURE_PROMOTION"} => p = "PAWN" /\ q \in PieceTypes \ {"PAWN", "KING"},
             type \notin {"PROMOTION", "CAPTURE_PROMOTION"} => q = NO_PIECE /\ (p = "PAWN" => rank(t) \in 1 .. 6)
      PROVE  Described(b, a, [Move(p, o, t, type) EXCEPT !.promoted = q])
  <2> DEFINE m == [Move(p, o, t, type) EXCEPT !.promoted = q]
  <2>1. /\ m.moving_piece = p /\ m.origin = o /\ m.target = t /\ m.type = type /\ m.promoted = q
        /\ m.captured_piece = NO_PIECE /\ m \in Blank
    <3>1. NO_PIECE \in PieceTypes \cup {NO_PIECE}
      OBVIOUS
    <3>2. p \in PieceTypes /\ o \in Sq
      BY <1>1, <1>2
    <3> HIDE DEF NO_PIECE
    <3> QED BY <1>2, <3>1, <3>2 DEF Move, Blank
  <2> HIDE DEF m, us, them, kt, occ
  <2>2. /\ is_capture(m) <=> type \in {"CAPTURE", "CAPTURE_PROMOTION"}
        /\ is_promotion(m) <=> type \in {"PROMOTION", "CAPTURE_PROMOTION"}
        /\ ~is_castle(m) /\ m.type # "EN_PASSENT" /\ m.type # "DOUBLE_PUSH"
        /\ ~is_capture(m) => type \in {"QUIETmv", "PROMOTION"}
    BY <1>2, <2>1 DEF is_capture, is_promotion, is_castle, MoveTypes
  <2>3. Sound(b, m)
    BY <1>2, <2>1, <2>2 DEF Sound, us, them, kt, occ
  <2>4. PawnGoes(b, m)
    BY <1>2, <2>1, <2>2 DEF PawnGoes
  <2>5. Steered(b, a, m)
    BY <1>2, <2>1, <2>2 DEF Steered, Keeps, us, occ
  <2> QED BY <2>3, <2>4, <2>5 DEF Described, m
<1>3. \A p, o, t, type : Move(p, o, t, type) = [Move(p, o, t, type) EXCEPT !.promoted = NO_PIECE]
  BY DEF Move
<1>4. \A p, o, t, type : \A m \in Promotions(Move(p, o, t, type)) :
         \E q \in PieceTypes \ {"PAWN", "KING"} : m = [Move(p, o, t, type) EXCEPT !.promoted = q]
  BY DEF Promotions, PieceTypes
<1>5. ASSUME NEW p \in Officers, NEW o \in pieces(b, us, p), NEW t \in attacks(p, occ, o), Keeps(b, a, o, t)
      PROVE  /\ t \notin occ => Described(b, a, Move(p, o, t, "QUIETmv"))
             /\ t \in b.colour_bb[them] => Described(b, a, Move(p, o, t, "CAPTURE"))
  <2>1. t \in Sq /\ t # kt /\ Between[o][t] \cap occ = {}
    BY <1>0, <1>5, Targets
  <2>2. p # "PAWN" /\ p \in PieceTypes \ {"KING"}
    BY <1>1
  <2>3. {"QUIETmv", "CAPTURE"} \subseteq MoveTypes
    BY DEF MoveTypes
  <2> HIDE DEF us, them, kt, occ
  <2>4. t \notin occ => Described(b, a, Move(p, o, t, "QUIETmv"))
    <3>1. t \notin occ => Described(b, a, [Move(p, o, t, "QUIETmv") EXCEPT !.promoted = NO_PIECE])
      BY <1>2, <1>5, <2>1, <2>2, <2>3
    <3> QED BY <1>3, <3>1
  <2>5. t \in b.colour_bb[them] => Described(b, a, Move(p, o, t, "CAPTURE"))
    <3>1. t \in b.colour_bb[them]
             => Described(b, a, [Move(p, o, t, "CAPTURE") EXCEPT !.promoted = NO_PIECE])
      BY <1>2, <1>5, <2>1, <2>2, <2>3
    <3> QED BY <1>3, <3>1
  <2> QED BY <2>4, <2>5
<1>6. ASSUME NEW o \in pieces(b, us, "PAWN")
      PROVE  /\ rank(o) \in 1 .. 6 /\ forwards(us) \div 8 \in {1, -1}
             /\ rank(o) # relative_rank(us, 6) => rank(o) + (forwards(us) \div 8) \in 1 .. 6
  <2>1. rank(o) \in 1 .. 6
    BY <1>0, <1>1 DEF PawnsInside
  <2>2. CASE us = "WHITE"
    BY <2>1, <2>2 DEF forwards, relative_rank
  <2>3. CASE us = "BLACK"
    BY <2>1, <2>3 DEF forwards, relative_rank
  <2> QED BY <1>1, <2>1, <2>2, <2>3 DEF Colours
<1>7. ASSUME NEW o \in pieces(b, us, "PAWN"), NEW t \in pawn_attacks(us, o) \cap b.colour_bb[them],
             Keeps(b, a, o, t), NEW m \in PawnCaps(us, o, t)
      PROVE  Described(b, a, m)
  <2>1. t \in Sq /\ t # kt /\ Between[o][t] = {} /\ rank(t) = rank(o) + (forwards(us) \div 8)
    BY <1>0, <1>1, Targets, Steps
  <2>2. {"CAPTURE", "CAPTURE_PROMOTION"} \subseteq MoveTypes
    BY DEF MoveTypes
  <2> HIDE DEF us, them, kt, occ
  <2>3. CASE rank(o) = relative_rank(us, 6)
    <3>1. PICK q \in PieceTypes \ {"PAWN", "KING"} :
             m = [Move("PAWN", o, t, "CAPTURE_PROMOTION") EXCEPT !.promoted = q]
      BY <1>4, <1>7, <2>3 DEF PawnCaps
    <3> QED BY <1>1, <1>2, <1>7, <2>1, <2>2, <3>1
  <2>4. CASE rank(o) # relative_rank(us, 6)
    <3>1. m = Move("PAWN", o, t, "CAPTURE") /\ rank(t) \in 1 .. 6
      BY <1>6, <1>7, <2>1, <2>4 DEF PawnCaps
    <3>2. Described(b, a, [Move("PAWN", o, t, "CAPTURE") EXCEPT !.promoted = NO_PIECE])
      BY <1>1, <1>2, <1>7, <2>1, <2>2, <3>1
    <3> QED BY <1>3, <3>1, <3>2
  <2> QED BY <2>3, <2>4
<1>8. ASSUME NEW o \in pieces(b, us, "PAWN"), o + forwards(us) \notin occ, Keeps(b, a, o, o + forwards(us))
      PROVE  /\ \A m \in PawnPushes(us, o) : Described(b, a, m)
             /\ rank(o) # relative_rank(us, 6)
                  => Described(b, a, Move("PAWN", o, o + forwards(us), "QUIETmv"))
  <2> DEFINE t == o + forwards(us)
  <2>1. t \in Sq /\ Between[o][t] = {} /\ rank(t) = rank(o) + (forwards(us) \div 8)
    BY <1>1, <1>6, Steps
  <2>2. {"QUIETmv", "PROMOTION"} \subseteq MoveTypes
    BY DEF MoveTypes
  <2> HIDE DEF us, them, kt, occ, t
  <2>3. rank(o) # relative_rank(us, 6) => Described(b, a, Move("PAWN", o, t, "QUIETmv"))
    <3>1. rank(o) # relative_rank(us, 6) => rank(t) \in 1 .. 6
      BY <1>6, <2>1
    <3>2. rank(o) # relative_rank(us, 6)
            => Described(b, a, [Move("PAWN", o, t, "QUIETmv") EXCEPT !.promoted = NO_PIECE])
      BY <1>1, <1>2, <1>8, <2>1, <2>2, <3>1 DEF t
    <3> QED BY <1>3, <3>2
  <2>4. ASSUME NEW m \in PawnPushes(us, o), rank(o) = relative_rank(us, 6) PROVE Described(b, a, m)
    <3>1. PICK q \in PieceTypes \ {"PAWN", "KING"} :
             m = [Move("PAWN", o, t, "PROMOTION") EXCEPT !.promoted = q]
      BY <1>4, <2>4 DEF PawnPushes, t
    <3> QED BY <1>1, <1>2, <1>8, <2>1, <2>2, <3>1 DEF t
  <2>5. rank(o) # relative_rank(us, 6) => PawnPushes(us, o) = {Move("PAWN", o, t, "QUIETmv")}
    BY DEF PawnPushes, t
  <2> QED BY <2>3, <2>4, <2>5 DEF t
<1>9. ASSUME NEW o \in pieces(b, us, "PAWN"),
             rank(o) = relative_rank(us, 1), o + forwards(us) \notin occ,
             o + 2 * forwards(us) \notin occ, Keeps(b, a, o, o + 2 * forwards(us))
      PROVE  Described(b, a, DoublePush(us, o))
  <2> DEFINE t == o + 2 * forwards(us)
             m == DoublePush(us, o)
  <2>1. t \in Sq /\ Between[o][t] \cap occ = {} /\ rank(t) \in 1 .. 6 /\ o \in Sq
    <3>1. t \in Sq /\ Between[o][t] \subseteq {o + forwards(us)} /\ rank(t) = relative_rank(us, 3) /\ o \in Sq
      BY <1>1, <1>6, <1>9, Steps
    <3>2. relative_rank(us, 3) \in 1 .. 6
      BY DEF relative_rank
    <3> QED BY <1>9, <3>1, <3>2
  <2>2. /\ m.moving_piece = "PAWN" /\ m.origin = o /\ m.target = t /\ m.type = "DOUBLE_PUSH"
        /\ m.promoted = NO_PIECE /\ m.captured_piece = NO_PIECE
        /\ m \in Blank
    BY <1>1, <2>1 DEF DoublePush, Move, Blank, MoveTypes
  <2> HIDE DEF m, t, us, them, occ, kt
  <2>3. ~is_capture(m) /\ ~is_promotion(m) /\ ~is_castle(m)
    BY <2>2 DEF is_capture, is_promotion, is_castle
  <2>4. Sound(b, m)
    BY <1>9, <2>2, <2>3 DEF Sound, us, occ, t
  <2>5. PawnGoes(b, m)
    BY <1>9, <2>1, <2>2, <2>3 DEF PawnGoes, us, occ, t
  <2>6. Steered(b, a, m)
    BY <1>9, <2>1, <2>2, <2>3 DEF Steered, Keeps, us, occ, t
  <2> QED BY <2>4, <2>5, <2>6 DEF Described, m
<1> QED BY <1>5, <1>7, <1>8, <1>9

\* So are the moves of the king to where it is not attacked, the castling moves, and the
\* captures en passant.
LEMMA OfKingsAndPassing ==
  ASSUME NEW b, NEW a, Lawful(b, a.castling_rights, a.en_passent_target)
  PROVE  LET us == b.whos_move
             ks == b.king_square[us]
         IN /\ \A m \in KingMoves(b, a) : Described(b, a, m)
            /\ \A m \in Castles(b, a) : Described(b, a, m)
            /\ \A o \in EpOrigins(us, pieces(b, us, "PAWN"), a) :
                 LET m == Move("PAWN", o, EpTarget(us, a), "EN_PASSENT")
                 IN /\ Sound(b, m) /\ PawnGoes(b, m)
                    /\ (/\ EpSafe(b, a, o)
                        /\ is_check(a) => o \notin a.pinned /\ a.checkers = {EpPawn(us, a.en_passent_target)}
                        /\ ~is_check(a) => (o \in a.pinned => EpTarget(us, a) \in Line[ks][o]))
                       => Described(b, a, m)
<1> DEFINE us == b.whos_move
           them == Other(us)
           ks == b.king_square[us]
           kt == b.king_square[them]
           occ == b.occupied_bb
           ep == a.en_passent_target
<1>0. /\ b \in Boards /\ Views(b) /\ Counted(b) /\ Safe(b) /\ Apart(b) /\ PawnsInside(b)
      /\ RightsHeld(b, a.castling_rights) /\ EpHeld(b, ep)
  BY DEF Lawful
<1>1. /\ us \in Colours /\ them \in Colours /\ \A p : pieces(b, us, p) \subseteq Sq
      /\ ks \in Sq /\ pieces(b, us, "KING") = {ks}
  BY <1>0 DEF Boards, Colours, Other, pieces, Counted
<1>2. ASSUME NEW t \in KingAttacks[ks] \ a.attacked, NEW type \in {"QUIETmv", "CAPTURE"},
             type = "QUIETmv" => t \notin occ, type = "CAPTURE" => t \in b.colour_bb[them]
      PROVE  Described(b, a, Move("KING", ks, t, type))
  <2> DEFINE m == Move("KING", ks, t, type)
  <2>1. t \in Sq /\ t # kt
    BY <1>0, <1>2, Targets
  <2>2. /\ m.moving_piece = "KING" /\ m.origin = ks /\ m.target = t /\ m.type = type
        /\ m.promoted = NO_PIECE /\ m.captured_piece = NO_PIECE /\ m \in Blank
    BY <1>1, <2>1 DEF Move, Blank, MoveTypes, PieceTypes
  <2> HIDE DEF m, us, them, ks, kt, occ
  <2>3. (is_capture(m) <=> type = "CAPTURE") /\ ~is_promotion(m) /\ ~is_castle(m)
        /\ m.type # "EN_PASSENT" /\ m.type # "DOUBLE_PUSH"
    BY <1>2, <2>2 DEF is_capture, is_promotion, is_castle
  <2>4. Sound(b, m)
    BY <1>1, <1>2, <2>1, <2>2, <2>3 DEF Sound, us, them, kt, occ
  <2>5. PawnGoes(b, m) /\ Royal(b, a, m)
    BY <1>2, <2>2, <2>3 DEF PawnGoes, Royal
  <2> QED BY <2>4, <2>5 DEF Described, m
<1>3. ASSUME NEW m \in KingMoves(b, a) PROVE Described(b, a, m)
  <2>1. attacks("KING", occ, ks) = KingAttacks[ks] /\ KingSafe(b, a) = Sq \ a.attacked
    BY DEF attacks, KingSafe
  <2>2. CASE m \in PieceQuiets(b, "KING", ks, KingSafe(b, a))
    <3>1. PICK t \in (KingAttacks[ks] \cap KingSafe(b, a)) \ occ : m = Move("KING", ks, t, "QUIETmv")
      BY <2>1, <2>2 DEF PieceQuiets
    <3> QED BY <1>2, <2>1, <3>1
  <2>3. CASE m \in PieceCaptures(b, "KING", ks, KingSafe(b, a))
    <3>1. PICK t \in KingAttacks[ks] \cap KingSafe(b, a) \cap b.colour_bb[them] :
             m = Move("KING", ks, t, "CAPTURE")
      BY <2>1, <2>3 DEF PieceCaptures
    <3> QED BY <1>2, <2>1, <3>1
  <2> QED BY <1>3, <2>2, <2>3 DEF KingMoves
<1>4. ASSUME NEW m \in Castles(b, a) PROVE Described(b, a, m)
  <2>1. PICK side \in Sides :
          /\ <<us, side>> \in a.castling_rights
          /\ castle_blocks(us, side) \cap occ = {} /\ castle_checks(us, side) \cap a.attacked = {}
          /\ m = Move("KING", KingSquare(us), KingCastleSquare(us, side),
                      IF side = "KINGSIDE" THEN "KING_CASTLE" ELSE "QUEEN_CASTLE")
    BY <1>4 DEF Castles
  <2>2. /\ KingCastleSquare(us, side) \in Sq /\ KingSquare(us) \in Sq
        /\ KingCastleSquare(us, side) \in castle_checks(us, side)
        /\ KingCastleSquare(us, side) \in castle_blocks(us, side)
        /\ RookCastleSquares(us, side) \in castle_blocks(us, side)
    <3>1. BackRank(us) \in {0, 7}
      BY DEF BackRank, relative_rank
    <3>2. CASE side = "KINGSIDE"
      BY <3>1, <3>2 DEF KingCastleSquare, KingSquare, RookCastleSquares, Square, Sq, castle_checks, castle_blocks
    <3>3. CASE side = "QUEENSIDE"
      BY <3>1, <3>3 DEF KingCastleSquare, KingSquare, RookCastleSquares, Square, Sq, castle_checks, castle_blocks
    <3> QED BY <3>2, <3>3 DEF Sides
  <2>3. KingSquare(us) \in pieces(b, us, "KING") /\ RookSquares(us, side) \in pieces(b, us, "ROOK")
    BY <1>0, <2>1 DEF RightsHeld
  <2>4. /\ m.moving_piece = "KING" /\ m.origin = KingSquare(us) /\ m.target = KingCastleSquare(us, side)
        /\ m.type = (IF side = "KINGSIDE" THEN "KING_CASTLE" ELSE "QUEEN_CASTLE")
        /\ m.promoted = NO_PIECE /\ m.captured_piece = NO_PIECE /\ m \in Blank
    BY <2>1, <2>2 DEF Move, Blank, MoveTypes, PieceTypes
  <2> HIDE DEF us, them, ks, kt, occ
  <2>5. /\ is_castle(m) /\ ~is_capture(m) /\ ~is_promotion(m) /\ m.type # "EN_PASSENT"
        /\ m.type # "DOUBLE_PUSH" /\ get_castleside(m) = side
    BY <2>4 DEF is_castle, is_capture, is_promotion, get_castleside, Sides
  <2>6. Sound(b, m)
    <3>1. m.target \notin occ /\ Castled(us, m) \notin occ /\ Home(us, m) = RookSquares(us, side)
      BY <2>1, <2>2, <2>4, <2>5 DEF Castled, Home
    <3> QED BY <2>3, <2>4, <2>5, <3>1 DEF Sound, us, occ
  <2>7. PawnGoes(b, m) /\ Royal(b, a, m)
    BY <2>1, <2>2, <2>4, <2>5 DEF PawnGoes, Royal
  <2> QED BY <2>6, <2>7 DEF Described
<1>5. ASSUME NEW o \in EpOrigins(us, pieces(b, us, "PAWN"), a)
      PROVE  LET m == Move("PAWN", o, EpTarget(us, a), "EN_PASSENT")
             IN /\ Sound(b, m) /\ PawnGoes(b, m)
                /\ (/\ EpSafe(b, a, o)
                    /\ is_check(a) => o \notin a.pinned /\ a.checkers = {EpPawn(us, ep)}
                    /\ ~is_check(a) => (o \in a.pinned => EpTarget(us, a) \in Line[ks][o]))
                   => Described(b, a, m)
  <2> DEFINE t == EpTarget(us, a)
             m == Move("PAWN", o, t, "EN_PASSENT")
  <2>1. /\ ep # NO_FILE /\ Dist(file(o), ep) = 1 /\ rank(o) = relative_rank(us, 4)
        /\ o \in pieces(b, us, "PAWN") /\ o \in Sq /\ t = EpTo(us, ep)
    BY <1>1 DEF EpOrigins, EpTarget, EpTo
  <2>2. /\ ep \in Files /\ EpPawn(us, ep) \in pieces(b, them, "PAWN") /\ t \notin occ
    BY <1>0, <2>1 DEF EpHeld
  <2>3. t \in Sq /\ file(t) = ep /\ EpPawn(us, ep) = Square(rank(o), file(t))
    BY <1>1, <2>1, <2>2, PassingSquares DEF EpPawn
  <2>4. /\ m.moving_piece = "PAWN" /\ m.origin = o /\ m.target = t /\ m.type = "EN_PASSENT"
        /\ m.promoted = NO_PIECE /\ m.captured_piece = NO_PIECE /\ m \in Blank
    BY <2>1, <2>3 DEF Move, Blank, MoveTypes, PieceTypes
  <2> HIDE DEF m, t, us, them, ks, kt, occ
  <2>5. is_capture(m) /\ ~is_promotion(m) /\ ~is_castle(m) /\ m.type # "DOUBLE_PUSH"
        /\ CapturedSquare(m) = EpPawn(us, ep) /\ TakenSquare(m) = EpPawn(us, ep)
    BY <2>3, <2>4 DEF is_capture, is_promotion, is_castle, CapturedSquare, TakenSquare
  <2>6. Sound(b, m)
    BY <2>1, <2>2, <2>4, <2>5 DEF Sound, us, them, occ
  <2>7. PawnGoes(b, m)
    <3>1. rank(t) \in 1 .. 6
      <4>1. rank(t) \in {2, 5}
        BY <1>1, <2>1, <2>2, PassingSquares
      <4> QED BY <4>1
    <3> QED BY <2>4, <2>5, <3>1 DEF PawnGoes
  <2>8. ASSUME EpSafe(b, a, o), is_check(a) => o \notin a.pinned /\ a.checkers = {EpPawn(us, ep)},
               ~is_check(a) => (o \in a.pinned => t \in Line[ks][o])
        PROVE  InPassing(b, a, m)
    BY <2>1, <2>4, <2>5, <2>8 DEF InPassing, us, ks, ep
  <2> QED BY <2>6, <2>7, <2>8 DEF Described, m, t
<1> HIDE DEF us, ks, ep
<1> QED BY <1>3, <1>4, <1>5 DEF us, ks, ep

\* Two pieces between a king and a slider stand one before the other; a piece between them
\* that moves to a third square between them, or takes the slider, has kept to its line; a
\* knight never does; and a pawn that does, without taking, stands on the king's file.
LEMMA OnTheRay ==
  /\ \A k, s \in Sq : \A o, q \in Between[k][s] :
       o = q \/ o \in Between[k][q] \/ q \in Between[k][o]
  /\ \A k, s \in Sq : \A o \in Between[k][s] : \A t \in Between[k][s] \cup {s} : t \in Line[k][o]
  /\ \A k, o \in Sq : \A t \in KnightAttacks[o] : t \notin Line[k][o]
  /\ \A k, o, t \in Sq : file(o) = file(t) /\ o # t /\ t \in Line[k][o] => file(o) = file(k)
<1>0. \A s, t \in Sq : Between[s][t] \subseteq Sq /\ Line[s][t] \subseteq Sq
    BY DEF Between, Line, RookLines, BishopLines
<1>1. ASSUME NEW k \in Sq, NEW s \in Sq, NEW o \in Between[k][s], NEW q \in Between[k][s]
      PROVE  o = q \/ o \in Between[k][q] \/ q \in Between[k][o]
  <2>1. o \in Sq /\ q \in Sq /\ Inside(k, s, o) /\ Inside(k, s, q)
    BY <1>0, Btw
  <2>c. /\ rank(s) \in 0 .. 7 /\ file(s) \in 0 .. 7 /\ rank(k) \in 0 .. 7 /\ file(k) \in 0 .. 7
        /\ rank(o) \in 0 .. 7 /\ file(o) \in 0 .. 7 /\ rank(q) \in 0 .. 7 /\ file(q) \in 0 .. 7
    BY <2>1, Coordinates
  <2>d. rank(q) = rank(o) /\ file(q) = file(o) => q = o
    BY <2>1, Coordinates
  <2>2. o = q \/ Inside(k, q, o) \/ Inside(k, o, q)
    BY <2>1, <2>c, <2>d DEF Inside, Aligned, Strictly
  <2> QED BY <2>1, <2>2, Btw
<1>2. ASSUME NEW k \in Sq, NEW s \in Sq, NEW o \in Between[k][s], NEW t \in Between[k][s] \cup {s}
      PROVE  t \in Line[k][o]
  <2>1. o \in Sq /\ t \in Sq /\ Inside(k, s, o) /\ (t = s \/ Inside(k, s, t))
    BY <1>0, Btw
  <2>c. /\ rank(s) \in 0 .. 7 /\ file(s) \in 0 .. 7 /\ rank(k) \in 0 .. 7 /\ file(k) \in 0 .. 7
        /\ rank(o) \in 0 .. 7 /\ file(o) \in 0 .. 7 /\ rank(t) \in 0 .. 7 /\ file(t) \in 0 .. 7
    BY <2>1, Coordinates
  <2>2. k # o
    BY <2>1, Rays
  <2>3. Aligned(k, o, t)
    BY <2>1, <2>c DEF Inside, Aligned, Strictly
  <2> QED BY <2>1, <2>2, <2>3, Ln
<1>3. ASSUME NEW k \in Sq, NEW o \in Sq, NEW t \in KnightAttacks[o] PROVE t \notin Line[k][o]
  <2> SUFFICES ASSUME t \in Line[k][o] PROVE FALSE
    OBVIOUS
  <2>0. t \in Sq /\ {Dist(rank(o), rank(t)), Dist(file(o), file(t))} = {1, 2}
    BY DEF KnightAttacks
  <2>1. k # o /\ Aligned(k, o, t)
    BY <2>0, Ln
  <2>c. /\ rank(k) \in 0 .. 7 /\ file(k) \in 0 .. 7 /\ rank(o) \in 0 .. 7 /\ file(o) \in 0 .. 7
        /\ rank(t) \in 0 .. 7 /\ file(t) \in 0 .. 7 /\ (rank(k) # rank(o) \/ file(k) # file(o))
    BY <2>0, <2>1, Coordinates
  <2> DEFINE dr == Dist(rank(o), rank(t))
             df == Dist(file(o), file(t))
  <2>2. (dr = 1 /\ df = 2) \/ (dr = 2 /\ df = 1)
    <3> HIDE DEF dr, df
    <3>1. {dr, df} = {1, 2}
      BY <2>0 DEF dr, df
    <3> QED BY <3>1
  <2>3. (rank(t) - rank(o) \in {1, -1} /\ file(t) - file(o) \in {2, -2})
        \/ (rank(t) - rank(o) \in {2, -2} /\ file(t) - file(o) \in {1, -1})
    BY <2>2, <2>c DEF Dist
  <2> QED BY <2>1, <2>c, <2>3 DEF Aligned
<1>4. ASSUME NEW k \in Sq, NEW o \in Sq, NEW t \in Sq, file(o) = file(t), o # t, t \in Line[k][o]
      PROVE  file(o) = file(k)
  <2>1. k # o /\ Aligned(k, o, t)
    BY <1>4, Ln
  <2>c. /\ rank(k) \in 0 .. 7 /\ file(k) \in 0 .. 7 /\ rank(o) \in 0 .. 7 /\ file(o) \in 0 .. 7
        /\ rank(t) \in 0 .. 7 /\ file(t) \in 0 .. 7 /\ (rank(k) # rank(o) \/ file(k) # file(o))
        /\ rank(o) # rank(t)
    BY <1>4, <2>1, Coordinates
  <2> QED BY <1>4, <2>1, <2>c DEF Aligned
<1> QED BY <1>1, <1>2, <1>3, <1>4

\* Squares of a capture en passant with the king on a line through two of them: when the
\* squares a pawn has passed over are both between, on the file, what stands on the next
\* is an end or between too; and none of this goes with a check from the pawn.
LEMMA PassingLines ==
  ASSUME NEW c \in Colours, NEW ep \in Files, NEW k \in Sq, NEW s \in Sq
  PROVE  LET cap == EpPawn(c, ep)
             t == EpTo(c, ep)
             start == EpFrom(c, ep)
         IN /\ t \in Between[k][s] /\ start \in Between[k][s] => cap \in Between[k][s] \cup {k, s}
            /\ \A o \in Sq : /\ rank(o) = relative_rank(c, 4) /\ Dist(file(o), ep) = 1
                             /\ cap \in pawn_attacks(c, k)
                             => ~(o \in Between[k][s] /\ t \in Between[k][s])
            /\ \A o \in Sq : /\ rank(o) = relative_rank(c, 4) /\ rank(o) = rank(k)
                             /\ s \in Line[k][o]
                             => t \notin Between[k][s]
<1> DEFINE cap == EpPawn(c, ep)
           t == EpTo(c, ep)
           start == EpFrom(c, ep)
<1>1. /\ relative_rank(c, 4) \in {3, 4} /\ relative_rank(c, 5) \in {2, 5} /\ relative_rank(c, 6) \in {1, 6}
      /\ relative_rank(c, 5) = relative_rank(c, 4) + (IF c = "WHITE" THEN 1 ELSE -1)
      /\ relative_rank(c, 6) = relative_rank(c, 4) + (IF c = "WHITE" THEN 2 ELSE -2)
      /\ ep \in 0 .. 7
  BY DEF relative_rank, Colours, Files
<1>2. /\ cap \in Sq /\ t \in Sq /\ start \in Sq
      /\ rank(cap) = relative_rank(c, 4) /\ file(cap) = ep
      /\ rank(t) = relative_rank(c, 5) /\ file(t) = ep
      /\ rank(start) = relative_rank(c, 6) /\ file(start) = ep
  BY <1>1, Coordinates DEF EpPawn, EpTo, EpFrom
<1> HIDE DEF cap, t, start
<1>3. /\ rank(k) \in 0 .. 7 /\ file(k) \in 0 .. 7 /\ rank(s) \in 0 .. 7 /\ file(s) \in 0 .. 7
  BY Coordinates
<1>4. ASSUME t \in Between[k][s], start \in Between[k][s] PROVE cap \in Between[k][s] \cup {k, s}
  <2>1. Inside(k, s, t) /\ Inside(k, s, start)
    BY <1>2, <1>4, Btw
  <2>2. file(k) = ep /\ file(s) = ep /\ Strictly(rank(t), rank(k), rank(s)) /\ Strictly(rank(start), rank(k), rank(s))
    BY <1>1, <1>2, <1>3, <2>1 DEF Inside, Aligned, Strictly
  <2>3. rank(cap) = rank(k) \/ rank(cap) = rank(s) \/ Strictly(rank(cap), rank(k), rank(s))
    BY <1>1, <1>2, <1>3, <2>2 DEF Strictly
  <2>4. cap = k \/ cap = s \/ Inside(k, s, cap)
    BY <1>2, <2>2, <2>3, Coordinates DEF Inside, Aligned
  <2> QED BY <1>2, <2>4, Btw
<1>5. ASSUME NEW o \in Sq, rank(o) = relative_rank(c, 4), Dist(file(o), ep) = 1,
             cap \in pawn_attacks(c, k), o \in Between[k][s], t \in Between[k][s]
      PROVE  FALSE
  <2>1. Inside(k, s, t) /\ Inside(k, s, o)
    BY <1>2, <1>5, Btw
  <2>2. file(o) \in 0 .. 7 /\ (file(o) - ep = 1 \/ ep - file(o) = 1)
    BY <1>1, <1>5, Coordinates DEF Dist
  <2>3. /\ rank(cap) * 8 = rank(k) * 8 + (IF c = "WHITE" THEN 8 ELSE -8)
        /\ Dist(file(k), file(cap)) = 1
    BY <1>5 DEF pawn_attacks, PawnAttacks, forwards, Colours
  <2>4. /\ rank(cap) = rank(k) + (IF c = "WHITE" THEN 1 ELSE -1)
        /\ file(k) - ep = 1 \/ ep - file(k) = 1
    BY <1>1, <1>2, <1>3, <2>3 DEF Dist
  <2> QED BY <1>1, <1>2, <1>3, <1>5, <2>1, <2>2, <2>4 DEF Inside, Aligned, Strictly
<1>6. ASSUME NEW o \in Sq, rank(o) = relative_rank(c, 4), rank(o) = rank(k), s \in Line[k][o],
             t \in Between[k][s]
      PROVE  FALSE
  <2>1. k # o /\ Aligned(k, o, s) /\ Inside(k, s, t)
    BY <1>2, <1>6, Btw, Ln
  <2>2. file(o) \in 0 .. 7 /\ file(k) # file(o)
    BY <1>6, <2>1, Coordinates
  <2>3. rank(s) = rank(k)
    BY <1>3, <1>6, <2>1, <2>2 DEF Aligned
  <2> QED BY <1>1, <1>2, <1>3, <1>6, <2>1, <2>3 DEF Inside, Aligned, Strictly
<1> QED BY <1>4, <1>5, <1>6 DEF cap, t, start

-----------------------------------------------------------------------------
\* The x-rays find only the pieces that stand alone between the king and a slider, and
\* update_attacks only squares that a piece strikes, were the king not there.
LEMMA Alone ==
  /\ \A b \in Boards : \A k \in Sq : \A c, own \in Colours : \A o \in Shields(b, k, c, own) :
       b.colour_bb[own] \subseteq b.occupied_bb =>
         \E s \in LinedUp(b, c, k) : Between[k][s] \cap b.occupied_bb = {o}
  /\ \A b \in Boards : \A k \in Attacked(b) : \A c \in Colours :
       c = Other(b.whos_move) =>
         \/ Leapers(b, c, k) # {} \/ k \in KingAttacks[b.king_square[c]]
         \/ \E s \in LinedUp(b, c, k) :
              Between[k][s] \cap (b.occupied_bb \ pieces(b, b.whos_move, "KING")) = {}
<1>0. \A s, t \in Sq : Between[s][t] \subseteq Sq /\ Line[s][t] \subseteq Sq
    BY DEF Between, Line, RookLines, BishopLines
<1>1. ASSUME NEW b \in Boards, NEW k \in Sq, NEW c \in Colours, NEW own \in Colours,
             NEW o \in Shields(b, k, c, own), b.colour_bb[own] \subseteq b.occupied_bb
      PROVE  \E s \in LinedUp(b, c, k) : Between[k][s] \cap b.occupied_bb = {o}
  <2> DEFINE occ == b.occupied_bb
             rooks == rook_xrays(occ, k) \cap RookLike(b, c)
             bishops == bishop_xrays(occ, k) \cap BishopLike(b, c)
  <2>1. PICK s \in rooks \cup bishops : o \in Between[k][s]
    BY DEF Shields
  <2>2. s \in LinedUp(b, c, k) /\ s \in Sq
    BY <2>1 DEF rook_xrays, bishop_xrays, rook_attacks, bishop_attacks, LinedUp, RookLines, BishopLines
  <2>3. o \in occ /\ o \in Sq
    BY <1>0, <1>1, <2>1, <2>2 DEF Shields
  <2>4. \/ s \in RookLines[k] /\ Between[k][s] \cap (occ \ rook_attacks(occ, k)) = {}
        \/ s \in BishopLines[k] /\ Between[k][s] \cap (occ \ bishop_attacks(occ, k)) = {}
    BY <2>1 DEF rook_xrays, bishop_xrays, rook_attacks, bishop_attacks
  <2>5. \A q \in Between[k][s] \cap occ : Between[k][q] \cap occ = {}
    BY <2>4 DEF rook_attacks, bishop_attacks
  <2>6. \A q \in Between[k][s] \cap occ : q = o
    <3> TAKE q \in Between[k][s] \cap occ
    <3>1. q = o \/ q \in Between[k][o] \/ o \in Between[k][q]
      BY <2>1, <2>2, OnTheRay
    <3> QED BY <2>1, <2>3, <2>5, <3>1
  <2> QED BY <2>1, <2>2, <2>3, <2>6
<1>2. ASSUME NEW b \in Boards, NEW k \in Attacked(b), NEW c \in Colours, c = Other(b.whos_move)
      PROVE  \/ Leapers(b, c, k) # {} \/ k \in KingAttacks[b.king_square[c]]
             \/ \E s \in LinedUp(b, c, k) :
                  Between[k][s] \cap (b.occupied_bb \ pieces(b, b.whos_move, "KING")) = {}
  <2> DEFINE occ == b.occupied_bb \ pieces(b, b.whos_move, "KING")
             Pawns == UNION {pawn_attacks(c, s) : s \in pieces(b, c, "PAWN")}
             Of(p) == UNION {attacks(p, occ, s) : s \in pieces(b, c, p)}
             All == UNION {Of(p) : p \in PieceTypes \ {"PAWN", "KING"}}
  <2>1. Attacked(b) = Pawns \cup All \cup KingAttacks[b.king_square[c]]
    BY <1>2 DEF Attacked
  <2>2. k \in Pawns => \E s \in pieces(b, c, "PAWN") : k \in pawn_attacks(c, s)
    OBVIOUS
  <2>3. k \in All => \E p \in PieceTypes \ {"PAWN", "KING"} : k \in Of(p)
    OBVIOUS
  <2>4. \A p : k \in Of(p) => \E s \in pieces(b, c, p) : k \in attacks(p, occ, s)
    OBVIOUS
  <2>5. \A p : pieces(b, c, p) \subseteq Sq
    BY DEF pieces, Boards
  <2> HIDE DEF occ, Pawns, Of, All
  <2>6. ASSUME NEW s \in pieces(b, c, "PAWN"), k \in pawn_attacks(c, s) PROVE Leapers(b, c, k) # {}
    <3>1. k \in Sq /\ s \in Sq
      BY <2>5, <2>6, Steps
    <3>2. s \in pawn_attacks(Other(c), k)
      BY <2>6, <3>1, Sym
    <3> QED BY <3>2 DEF Leapers
  <2>7. ASSUME NEW p \in PieceTypes \ {"PAWN", "KING"}, NEW s \in pieces(b, c, p), k \in attacks(p, occ, s)
        PROVE  Leapers(b, c, k) # {} \/ \E q \in LinedUp(b, c, k) : Between[k][q] \cap occ = {}
    <3>1. s \in Sq
      BY <2>5
    <3>2. CASE p = "KNIGHT"
      <4>1. k \in KnightAttacks[s]
        BY <2>7, <3>2 DEF attacks
      <4>2. s \in KnightAttacks[k]
        BY <3>1, <4>1, Steps, Sym
      <4> QED BY <3>2, <4>2 DEF Leapers
    <3>3. CASE p \in {"ROOK", "BISHOP", "QUEEN"}
      <4>1. \/ p # "BISHOP" /\ k \in RookLines[s] /\ Between[s][k] \cap occ = {}
            \/ p # "ROOK" /\ k \in BishopLines[s] /\ Between[s][k] \cap occ = {}
        BY <2>7, <3>3 DEF attacks, rook_attacks, bishop_attacks
      <4>2. k \in Sq
        BY <3>1, <4>1 DEF RookLines, BishopLines
      <4>3. /\ p # "BISHOP" => s \in RookLike(b, c)
            /\ p # "ROOK" => s \in BishopLike(b, c)
        BY <3>3 DEF RookLike, BishopLike, pieces
      <4>4. s \in LinedUp(b, c, k) /\ Between[k][s] \cap occ = {}
        BY <3>1, <4>1, <4>2, <4>3, Sym DEF LinedUp
      <4> QED BY <4>4
    <3> QED BY <3>2, <3>3 DEF PieceTypes
  <2> QED BY <2>1, <2>2, <2>3, <2>4, <2>6, <2>7 DEF occ
<1> QED BY <1>1, <1>2

\* A piece of the other side that a move does not take strikes from where it stood.
LEMMA StrikersStay ==
  ASSUME NEW b \in Boards, Views(b), NEW m, Playable(b, m), NEW k \in Sq
  PROVE  LET them == Other(b.whos_move)
             made == MakeBoard(b, m)
         IN /\ Leapers(b, them, k) \ TheirsLost(m) \subseteq Leapers(made, them, k)
            /\ LinedUp(b, them, k) \ TheirsLost(m) \subseteq LinedUp(made, them, k)
<1> DEFINE us == b.whos_move
           them == Other(us)
           made == MakeBoard(b, m)
<1>1. us \in Colours /\ them \in Colours /\ them # us
  BY DEF Boards, Colours, Other
<1>2. \A c \in Colours, p \in PieceTypes :
         pieces(made, c, p) = (pieces(b, c, p) \ Left(us, m, c, p)) \cup Filled(us, m, c, p)
  BY MadeBoard
<1>3. \A p : Left(us, m, them, p) \subseteq TheirsLost(m)
  BY <1>1 DEF Left, TheirsLost
<1>4. \A p \in PieceTypes : pieces(b, them, p) \ TheirsLost(m) \subseteq pieces(made, them, p)
  BY <1>1, <1>2, <1>3
<1>5. \A x : \A c \in Colours :
         /\ RookLike(x, c) = pieces(x, c, "ROOK") \cup pieces(x, c, "QUEEN")
         /\ BishopLike(x, c) = pieces(x, c, "BISHOP") \cup pieces(x, c, "QUEEN")
  BY DEF RookLike, BishopLike, pieces
<1>6. {"PAWN", "KNIGHT", "BISHOP", "ROOK", "QUEEN"} \subseteq PieceTypes
  BY DEF PieceTypes
<1> HIDE DEF us, them, made
<1>7. Leapers(b, them, k) \ TheirsLost(m) \subseteq Leapers(made, them, k)
  BY <1>4, <1>6 DEF Leapers
<1>8. /\ RookLike(b, them) \ TheirsLost(m) \subseteq RookLike(made, them)
      /\ BishopLike(b, them) \ TheirsLost(m) \subseteq BishopLike(made, them)
  BY <1>1, <1>4, <1>5, <1>6
<1>9. LinedUp(b, them, k) \ TheirsLost(m) \subseteq LinedUp(made, them, k)
  BY <1>8 DEF LinedUp
<1> QED BY <1>7, <1>9 DEF us, them, made

-----------------------------------------------------------------------------
\* What gives check stands on a square, in the other colour, and leaps or is in line.
LEMMA CheckersKnown ==
  ASSUME NEW b \in Boards, NEW k \in Sq, NEW c \in Colours
  PROVE  /\ \A s \in LinedUp(b, c, k) : s \in Sq /\ s \in b.colour_bb[c]
         /\ \A s \in Leapers(b, c, k) : s \in Sq /\ s \in b.colour_bb[c] /\ Between[k][s] = {}
<1>1. \A s \in LinedUp(b, c, k) : s \in Sq /\ s \in b.colour_bb[c]
  <2>1. LinedUp(b, c, k) \subseteq Sq
    BY DEF LinedUp, RookLines, BishopLines
  <2> QED BY <2>1, Struck
<1>2. \A s \in Leapers(b, c, k) : s \in Sq /\ s \in b.colour_bb[c] /\ Between[k][s] = {}
  <2>1. \A s \in Leapers(b, c, k) : s \in KnightAttacks[k] \/ s \in pawn_attacks(Other(c), k)
    BY DEF Leapers
  <2>2. Other(c) \in Colours
    BY DEF Other, Colours
  <2>3. \A s \in Leapers(b, c, k) : s \in Sq /\ Between[k][s] = {}
    BY <2>1, <2>2, Steps
  <2> QED BY <2>3, Struck
<1> QED BY <1>1, <1>2

\* A piece that leaves its king safe keeps to its pin and answers every check: there is
\* no second, and it takes the first or steps between.
LEMMA KeepingNeeded ==
  ASSUME NEW b \in Boards, Views(b), Counted(b), NEW m, Playable(b, m), NEW a, Informed(b, a),
         m.moving_piece # "KING", m.type # "EN_PASSENT", ~is_castle(m),
         Strikers(MakeBoard(b, m), Other(b.whos_move), MakeBoard(b, m).king_square[b.whos_move]) = {}
  PROVE  Keeps(b, a, m.origin, m.target)
<1> DEFINE us == b.whos_move
           them == Other(us)
           made == MakeBoard(b, m)
           k == b.king_square[us]
           o == m.origin
           t == m.target
           occ == b.occupied_bb
<1>1. us \in Colours /\ them \in Colours /\ them # us
  BY DEF Boards, Colours, Other
<1>2. /\ made.king_square[us] = k /\ k \in Sq /\ o \in Sq /\ t \in Sq /\ o # t
      /\ k \in b.colour_bb[us] /\ o \in b.colour_bb[us] /\ t \notin b.colour_bb[us]
      /\ b.colour_bb[us] \subseteq occ /\ b.colour_bb[them] \subseteq occ
      /\ b.colour_bb[us] \cap b.colour_bb[them] = {}
  <2>1. made.king_square[us] = k
    BY <1>1, OccupiedMoved
  <2>2. b.colour_bb[us] \cap b.colour_bb[them] = {}
    BY <1>1 DEF Views, Colours
  <2> QED BY <1>1, <2>1, <2>2, OccupiedMoved
<1>3. TheirsLost(m) \subseteq {t} /\ made.occupied_bb \subseteq (occ \ {o}) \cup {t}
  <2>1. made.occupied_bb = (occ \ (OwnLeft(us, m) \cup TheirsLost(m))) \cup OwnFilled(us, m)
    BY OccupiedMoved
  <2>2. OwnLeft(us, m) = {o} /\ OwnFilled(us, m) = {t}
    BY DEF OwnLeft, OwnFilled
  <2>3. TheirsLost(m) \subseteq {t}
    BY DEF TheirsLost, TakenSquare
  <2> QED BY <2>1, <2>2, <2>3
<1>4. /\ Leapers(b, them, k) \ TheirsLost(m) \subseteq Leapers(made, them, k)
      /\ LinedUp(b, them, k) \ TheirsLost(m) \subseteq LinedUp(made, them, k)
  BY <1>2, StrikersStay
<1>5. Strikers(made, them, k) = {}
  BY <1>2
<1>6. /\ a.checkers = Strikers(b, them, k) /\ a.pinned = Shields(b, k, them, us)
  BY Struck DEF Informed, Pinned
<1>7. /\ \A s \in LinedUp(b, them, k) : s \in Sq /\ s \in b.colour_bb[them]
      /\ \A s \in Leapers(b, them, k) : s \in Sq /\ s \in b.colour_bb[them] /\ Between[k][s] = {}
  BY <1>1, <1>2, CheckersKnown
<1>8. \A x \in a.pinned : \E s \in LinedUp(b, them, k) : Between[k][s] \cap occ = {x}
  BY <1>1, <1>2, <1>6, Alone
<1> HIDE DEF us, them, made, k, o, t, occ
\* Whoever was in line and has at most o before him is taken or has t before him.
<1>9. ASSUME NEW s \in LinedUp(b, them, k), Between[k][s] \cap occ \subseteq {o}
      PROVE  s = t \/ t \in Between[k][s]
  <2> SUFFICES ASSUME s # t, t \notin Between[k][s] PROVE FALSE
    OBVIOUS
  <2>1. s \in LinedUp(made, them, k)
    BY <1>3, <1>4
  <2>2. Between[k][s] \cap made.occupied_bb = {}
    BY <1>3, <1>9
  <2> QED BY <1>5, <2>1, <2>2 DEF Strikers
<1>10. ASSUME NEW s \in a.checkers
       PROVE  /\ s \in Sq /\ s \in occ /\ s \in b.colour_bb[them] /\ Between[k][s] \cap occ = {}
              /\ s = t \/ t \in Between[k][s]
  <2>1. CASE s \in Leapers(b, them, k)
    <3>1. s \in TheirsLost(m)
      BY <1>4, <1>5, <2>1 DEF Strikers
    <3> QED BY <1>2, <1>3, <1>7, <2>1, <3>1
  <2>2. CASE s \in LinedUp(b, them, k) /\ Between[k][s] \cap occ = {}
    BY <1>2, <1>7, <1>9, <2>2
  <2> QED BY <1>6, <2>1, <2>2 DEF Strikers, occ
<1>11. ASSUME NEW s \in a.checkers, NEW q \in a.checkers PROVE s = q
  <2>1. CASE t \in Between[k][s] /\ t \in Between[k][q]
    <3>1. s = q \/ s \in Between[k][q] \/ q \in Between[k][s]
      BY <1>2, <1>10, <2>1, Rays
    <3> QED BY <1>10, <3>1
  <2> QED BY <1>10, <2>1
<1>12. o \in a.pinned => t \in Line[k][o]
  <2> HAVE o \in a.pinned
  <2>1. PICK s \in LinedUp(b, them, k) : Between[k][s] \cap occ = {o}
    BY <1>8
  <2>2. t \in Between[k][s] \cup {s}
    BY <1>9, <2>1
  <2>3. o \in Between[k][s]
    BY <2>1
  <2> QED BY <1>2, <1>7, <2>2, <2>3, OnTheRay
<1>13. ASSUME NEW q \in a.checkers, o \in a.pinned PROVE FALSE
  <2>1. PICK s \in LinedUp(b, them, k) : Between[k][s] \cap occ = {o}
    BY <1>8, <1>13
  <2>2. t \in Between[k][s] \cup {s}
    BY <1>9, <2>1
  <2>3. /\ s \in Sq /\ s \in occ /\ o \in Between[k][s] /\ s # o
        /\ q \in Sq /\ q \in occ /\ q # o /\ q \notin Between[k][s]
    BY <1>2, <1>7, <1>10, <2>1
  <2>4. t \in Between[k][q] \/ q = t
    BY <1>10
  <2>5. s # q
    BY <1>2, <1>10, <2>1
  <2>6. t \in Between[k][q] /\ t \in Between[k][s]
    BY <1>10, <2>2, <2>3, <2>4, <2>5
  <2>7. s \in Between[k][q] \/ q \in Between[k][s]
    BY <1>2, <2>3, <2>5, <2>6, Rays
  <2> QED BY <1>10, <2>3, <2>7
<1>14. is_check(a) => o \notin a.pinned /\ \E ts : a.checkers = {ts} /\ (t = ts \/ t \in Between[k][ts])
  <2> HAVE is_check(a)
  <2>1. PICK ts : ts \in a.checkers
    BY DEF is_check
  <2>2. a.checkers = {ts}
    BY <1>11, <2>1
  <2> QED BY <1>10, <1>13, <2>1, <2>2
<1> QED BY <1>12, <1>14 DEF Keeps, k, o, t, us

\* A king that is safe where it has gone went to a square that is not attacked.
LEMMA RetreatNeeded ==
  ASSUME NEW b \in Boards, Views(b), Counted(b), NEW m, Playable(b, m),
         m.moving_piece = "KING", m.type # "EN_PASSENT", ~is_castle(m),
         Strikers(MakeBoard(b, m), Other(b.whos_move), MakeBoard(b, m).king_square[b.whos_move]) = {},
         m.target \notin KingAttacks[b.king_square[Other(b.whos_move)]]
  PROVE  m.target \notin Attacked(b)
<1> DEFINE us == b.whos_move
           them == Other(us)
           made == MakeBoard(b, m)
           k == b.king_square[us]
           t == m.target
           occ == b.occupied_bb
<1>1. us \in Colours /\ them \in Colours /\ them # us
  BY DEF Boards, Colours, Other
<1>2. /\ made.king_square[us] = t /\ k \in Sq /\ m.origin = k /\ t \in Sq
  BY <1>1, OccupiedMoved
<1>3. pieces(b, us, "KING") = {k}
  BY <1>1 DEF Counted
<1>4. TheirsLost(m) \subseteq {t} /\ made.occupied_bb \subseteq (occ \ {k}) \cup {t}
  <2>1. made.occupied_bb = (occ \ (OwnLeft(us, m) \cup TheirsLost(m))) \cup OwnFilled(us, m)
    BY OccupiedMoved
  <2>2. OwnLeft(us, m) = {k} /\ OwnFilled(us, m) = {t}
    BY <1>2 DEF OwnLeft, OwnFilled
  <2>3. TheirsLost(m) \subseteq {t}
    BY DEF TheirsLost, TakenSquare
  <2> QED BY <2>1, <2>2, <2>3
<1>5. /\ Leapers(b, them, t) \ TheirsLost(m) \subseteq Leapers(made, them, t)
      /\ LinedUp(b, them, t) \ TheirsLost(m) \subseteq LinedUp(made, them, t)
  BY <1>2, StrikersStay
<1>6. t \notin Leapers(b, them, t) /\ t \notin LinedUp(b, them, t)
  <2>1. t \notin KnightAttacks[t] /\ (\A c \in Colours : t \notin pawn_attacks(c, t))
    BY <1>2, Steps
  <2>2. Other(them) \in Colours
    BY DEF Other, Colours
  <2>3. t \notin RookLines[t] /\ t \notin BishopLines[t]
    BY <1>2, Seg
  <2> QED BY <2>1, <2>2, <2>3 DEF Leapers, LinedUp
<1>7. Strikers(made, them, t) = {}
  BY <1>2
<1>8. \A s \in LinedUp(b, them, t) : s \in Sq
  BY <1>1, <1>2, CheckersKnown
<1> HIDE DEF us, them, made, k, t, occ
<1>9. Leapers(b, them, t) = {}
  BY <1>4, <1>5, <1>6, <1>7 DEF Strikers
<1>10. ASSUME NEW s \in LinedUp(b, them, t), Between[t][s] \cap (occ \ {k}) = {} PROVE FALSE
  <2>1. s \in LinedUp(made, them, t)
    BY <1>4, <1>5, <1>6
  <2>2. t \notin Between[t][s]
    BY <1>2, <1>8, Rays
  <2>3. Between[t][s] \cap made.occupied_bb = {}
    BY <1>4, <1>10, <2>2
  <2> QED BY <1>7, <2>1, <2>3 DEF Strikers
<1>11. t \in Attacked(b) => \/ Leapers(b, them, t) # {} \/ t \in KingAttacks[b.king_square[them]]
                            \/ \E s \in LinedUp(b, them, t) : Between[t][s] \cap (occ \ {k}) = {}
  BY <1>1, <1>3, Alone DEF them, us, occ
<1>12. t \notin KingAttacks[b.king_square[them]]
  BY DEF t, them, us
<1> QED BY <1>9, <1>10, <1>11, <1>12 DEF t

\* A capture en passant that leaves its king safe meets what gen_pawn_ep and the
\* generator of evasions ask of it: such a capture never blocks a check.
LEMMA PassingNeeded ==
  ASSUME NEW b \in Boards, Views(b), Counted(b), NEW m, Playable(b, m),
         NEW a, Informed(b, a), EpHeld(b, a.en_passent_target), a.en_passent_target # NO_FILE,
         m.type = "EN_PASSENT", m.moving_piece = "PAWN",
         m.target = EpTo(b.whos_move, a.en_passent_target),
         TakenSquare(m) = EpPawn(b.whos_move, a.en_passent_target),
         rank(m.origin) = relative_rank(b.whos_move, 4),
         Dist(file(m.origin), a.en_passent_target) = 1,
         Strikers(MakeBoard(b, m), Other(b.whos_move), MakeBoard(b, m).king_square[b.whos_move]) = {}
  PROVE  InPassing(b, a, m)
<1> DEFINE us == b.whos_move
           them == Other(us)
           made == MakeBoard(b, m)
           k == b.king_square[us]
           o == m.origin
           t == m.target
           occ == b.occupied_bb
           ep == a.en_passent_target
           cap == EpPawn(us, ep)
           start == EpFrom(us, ep)
<1>1. us \in Colours /\ them \in Colours /\ them # us /\ Other(them) = us
  BY DEF Boards, Colours, Other
<1>2. /\ made.king_square[us] = k /\ k \in Sq /\ o \in Sq /\ t \in Sq /\ o # t
      /\ k \in b.colour_bb[us] /\ o \in b.colour_bb[us]
      /\ b.colour_bb[us] \subseteq occ /\ b.colour_bb[them] \subseteq occ
      /\ b.colour_bb[us] \cap b.colour_bb[them] = {}
  <2>1. made.king_square[us] = k
    BY <1>1, OccupiedMoved
  <2>2. b.colour_bb[us] \cap b.colour_bb[them] = {}
    BY <1>1 DEF Views, Colours
  <2> QED BY <1>1, <2>1, <2>2, OccupiedMoved
<1>3. /\ ep \in Files /\ cap \in pieces(b, them, "PAWN") /\ cap \in b.colour_bb[them] /\ t \notin occ
      /\ start \notin occ /\ t = EpTo(us, ep)
      /\ \A s \in LinedUp(b, them, k) : Between[k][s] \cap ((occ \ {cap}) \cup {start}) # {}
  BY DEF EpHeld, Playable, pieces
<1>4. /\ TheirsLost(m) = {cap} /\ made.occupied_bb = (occ \ {o, cap}) \cup {t}
  <2>1. made.occupied_bb = (occ \ (OwnLeft(us, m) \cup TheirsLost(m))) \cup OwnFilled(us, m)
    BY OccupiedMoved
  <2>2. OwnLeft(us, m) = {o} /\ OwnFilled(us, m) = {t}
    BY DEF OwnLeft, OwnFilled, is_castle
  <2>3. TheirsLost(m) = {cap}
    BY DEF TheirsLost, is_capture
  <2> QED BY <2>1, <2>2, <2>3
<1>5. /\ Leapers(b, them, k) \ TheirsLost(m) \subseteq Leapers(made, them, k)
      /\ LinedUp(b, them, k) \ TheirsLost(m) \subseteq LinedUp(made, them, k)
  BY <1>2, StrikersStay
<1>6. Strikers(made, them, k) = {}
  BY <1>2
<1>7. /\ a.checkers = Strikers(b, them, k) /\ a.pinned = Shields(b, k, them, us)
  BY Struck DEF Informed, Pinned
<1>8. /\ \A s \in LinedUp(b, them, k) : s \in Sq /\ s \in b.colour_bb[them]
      /\ \A s \in Leapers(b, them, k) : s \in Sq /\ s \in b.colour_bb[them] /\ Between[k][s] = {}
  BY <1>1, <1>2, CheckersKnown
<1>9. \A x \in a.pinned : \E s \in LinedUp(b, them, k) : Between[k][s] \cap occ = {x}
  BY <1>1, <1>2, <1>7, Alone
\* A pawn is in line with nothing, and gives check by a leap alone.
<1>10. /\ cap \notin LinedUp(b, them, k)
       /\ cap \in Leapers(b, them, k) => cap \in pawn_attacks(us, k)
  <2>1. \A p \in PieceTypes : p # "PAWN" => cap \notin b.piece_bb[p]
    BY <1>3 DEF Views, pieces, PieceTypes
  <2>2. cap \notin b.piece_bb["ROOK"] /\ cap \notin b.piece_bb["BISHOP"] /\ cap \notin b.piece_bb["QUEEN"]
        /\ cap \notin b.piece_bb["KNIGHT"]
    BY <2>1 DEF PieceTypes
  <2> HIDE DEF cap
  <2> QED BY <1>1, <2>2 DEF LinedUp, Leapers, RookLike, BishopLike, pieces
<1>11. \A s \in Sq :
         /\ t \in Between[k][s] /\ start \in Between[k][s] => cap \in Between[k][s] \cup {k, s}
         /\ cap \in pawn_attacks(us, k) => ~(o \in Between[k][s] /\ t \in Between[k][s])
         /\ rank(o) = rank(k) /\ s \in Line[k][o] => t \notin Between[k][s]
  BY <1>1, <1>2, <1>3, PassingLines
<1>12. EpSafe(b, a, o) <=> (rank(k) = rank(o) =>
           rook_attacks(Xor(Xor(occ, {o}), {cap}), k) \cap Line[k][o] \cap RookLike(b, them) = {})
  BY DEF EpSafe, EpPawn
<1> HIDE DEF us, them, made, k, o, t, occ, ep, cap, start
<1>13. ASSUME NEW s \in LinedUp(b, them, k), Between[k][s] \cap occ \subseteq {o, cap}
       PROVE  t \in Between[k][s]
  <2> SUFFICES ASSUME t \notin Between[k][s] PROVE FALSE
    OBVIOUS
  <2>1. s \in LinedUp(made, them, k)
    BY <1>4, <1>5, <1>10
  <2>2. Between[k][s] \cap made.occupied_bb = {}
    BY <1>4, <1>13
  <2> QED BY <1>6, <2>1, <2>2 DEF Strikers
<1>14. ASSUME NEW s \in a.checkers PROVE s = cap /\ cap \in pawn_attacks(us, k)
  <2>1. CASE s \in Leapers(b, them, k)
    <3>1. s \in TheirsLost(m)
      BY <1>5, <1>6, <2>1 DEF Strikers
    <3> QED BY <1>4, <1>10, <2>1, <3>1
  <2>2. CASE s \in LinedUp(b, them, k) /\ Between[k][s] \cap occ = {}
    <3>1. t \in Between[k][s]
      BY <1>13, <2>2
    <3>2. start \in Between[k][s] /\ cap \notin Between[k][s]
      BY <1>2, <1>3, <2>2
    <3>3. cap = s \/ cap = k
      BY <1>8, <1>11, <2>2, <3>1, <3>2
    <3> QED BY <1>2, <1>3, <1>10, <2>2, <3>3
  <2> QED BY <1>7, <2>1, <2>2 DEF Strikers, occ
<1>15. ASSUME o \in a.pinned
       PROVE  \E s \in LinedUp(b, them, k) : s \in Sq /\ o \in Between[k][s] /\ t \in Between[k][s]
  <2>1. PICK s \in LinedUp(b, them, k) : Between[k][s] \cap occ = {o}
    BY <1>9, <1>15
  <2> QED BY <1>8, <1>13, <2>1
<1>16. EpSafe(b, a, o)
  <2> SUFFICES ASSUME rank(k) = rank(o),
                      NEW s \in rook_attacks(Xor(Xor(occ, {o}), {cap}), k) \cap Line[k][o] \cap RookLike(b, them)
               PROVE  FALSE
    BY <1>12
  <2>1. Xor(Xor(occ, {o}), {cap}) = occ \ {o, cap}
    <3>1. cap # o /\ cap \in occ /\ o \in occ
      BY <1>2, <1>3
    <3> QED BY <3>1 DEF Xor
  <2>2. s \in LinedUp(b, them, k) /\ Between[k][s] \cap occ \subseteq {o, cap}
    BY <2>1 DEF rook_attacks, LinedUp
  <2>3. t \in Between[k][s] /\ s \in Sq
    BY <1>8, <1>13, <2>2
  <2> QED BY <1>11, <2>3
<1>17. is_check(a) => o \notin a.pinned /\ a.checkers = {cap}
  <2> HAVE is_check(a)
  <2>1. a.checkers = {cap} /\ cap \in pawn_attacks(us, k)
    BY <1>14 DEF is_check
  <2> QED BY <1>11, <1>15, <2>1
<1>18. o \in a.pinned => t \in Line[k][o]
  BY <1>2, <1>15, OnTheRay
<1>19. /\ m.type = "EN_PASSENT" /\ m.moving_piece = "PAWN" /\ ep # NO_FILE
       /\ m.target = EpTo(us, ep) /\ TakenSquare(m) = EpPawn(us, ep)
       /\ rank(m.origin) = relative_rank(us, 4) /\ Dist(file(m.origin), ep) = 1
  BY DEF us, ep
<1> QED BY <1>16, <1>17, <1>18, <1>19 DEF InPassing, us, k, o, t, ep, cap

-----------------------------------------------------------------------------
(***************************************************************************)
(* The board as the rules see it.                                          *)
(***************************************************************************)
\* The function from squares to pieces holds what the bitboards hold.
LEMMA BoardSeen ==
  ASSUME NEW b \in Boards, Views(b)
  PROVE  /\ DOMAIN AtOf(b) = b.occupied_bb
         /\ \A s \in b.occupied_bb :
              /\ AtOf(b)[s][1] \in Colours /\ AtOf(b)[s][2] \in PieceTypes
              /\ AtOf(b)[s] = <<AtOf(b)[s][1], AtOf(b)[s][2]>>
              /\ \A c \in Colours : AtOf(b)[s][1] = c <=> s \in b.colour_bb[c]
              /\ \A p \in PieceTypes : AtOf(b)[s][2] = p <=> s \in b.piece_bb[p]
         /\ \A c \in Colours, p \in PieceTypes : \A s \in pieces(b, c, p) :
              s \in b.occupied_bb /\ AtOf(b)[s] = <<c, p>>
<1>1. DOMAIN AtOf(b) = b.occupied_bb
  BY DEF AtOf
<1>2. ASSUME NEW s \in b.occupied_bb
      PROVE  /\ AtOf(b)[s][1] \in Colours /\ AtOf(b)[s][2] \in PieceTypes
             /\ AtOf(b)[s] = <<AtOf(b)[s][1], AtOf(b)[s][2]>>
             /\ \A c \in Colours : AtOf(b)[s][1] = c <=> s \in b.colour_bb[c]
             /\ \A p \in PieceTypes : AtOf(b)[s][2] = p <=> s \in b.piece_bb[p]
  <2> DEFINE c0 == IF s \in b.colour_bb["WHITE"] THEN "WHITE" ELSE "BLACK"
             p0 == piece_type(b, s)
  <2>1. AtOf(b)[s] = <<c0, p0>>
    BY DEF AtOf
  <2>2. c0 \in Colours /\ \A c \in Colours : c0 = c <=> s \in b.colour_bb[c]
    BY DEF Views, Colours
  <2>3. \E p \in PieceTypes : s \in b.piece_bb[p]
    BY DEF Views
  <2>4. p0 \in PieceTypes /\ s \in b.piece_bb[p0]
    BY <2>3 DEF piece_type
  <2> HIDE DEF c0, p0
  <2>5. \A p \in PieceTypes : p0 = p <=> s \in b.piece_bb[p]
    BY <2>4 DEF Views
  <2> QED BY <2>1, <2>2, <2>4, <2>5
<1>3. ASSUME NEW c \in Colours, NEW p \in PieceTypes, NEW s \in pieces(b, c, p)
      PROVE  s \in b.occupied_bb /\ AtOf(b)[s] = <<c, p>>
  <2>1. s \in b.occupied_bb /\ s \in b.colour_bb[c] /\ s \in b.piece_bb[p]
    BY DEF pieces, Views, Colours
  <2> QED BY <1>2, <2>1
<1> QED BY <1>1, <1>2, <1>3

\* A square is struck when one of the engine's strikers, or the king, reaches it.
LEMMA StruckSeen ==
  ASSUME NEW b \in Boards, Views(b), Counted(b), NEW c \in Colours, NEW t \in Sq
  PROVE  StruckBy(AtOf(b), c, t) <=> Strikers(b, c, t) # {} \/ t \in KingAttacks[b.king_square[c]]
<1> DEFINE at == AtOf(b)
           occ == b.occupied_bb
<1>1. /\ DOMAIN at = occ
      /\ \A s \in occ : /\ at[s][2] \in PieceTypes
                        /\ at[s][1] = c <=> s \in b.colour_bb[c]
                        /\ \A p \in PieceTypes : at[s][2] = p <=> s \in b.piece_bb[p]
  BY BoardSeen
<1>2. occ \subseteq Sq /\ b.colour_bb[c] \subseteq occ
  BY DEF Boards, Views, Colours
<1>3. pieces(b, c, "KING") = {b.king_square[c]}
  BY DEF Counted
<1>4. Other(c) \in Colours /\ Other(Other(c)) = c
  BY DEF Other, Colours
<1> HIDE DEF at, occ
<1>5. ASSUME NEW s \in occ, at[s][1] = c, Strikes(at, s, t)
      PROVE  Strikers(b, c, t) # {} \/ t \in KingAttacks[b.king_square[c]]
  <2>0. s \in b.colour_bb[c] /\ s \in Sq
    BY <1>1, <1>2, <1>5
  <2>1. CASE at[s][2] = "PAWN"
    <3>1. t \in pawn_attacks(c, s) /\ s \in pieces(b, c, "PAWN")
      BY <1>1, <1>5, <2>0, <2>1 DEF Strikes, pawn_attacks, pieces, PieceTypes
    <3>2. s \in pawn_attacks(Other(c), t)
      BY <1>4, <2>0, <3>1, Sym
    <3> QED BY <3>1, <3>2 DEF Strikers, Leapers
  <2>2. CASE at[s][2] = "KNIGHT"
    <3>1. t \in KnightAttacks[s] /\ s \in pieces(b, c, "KNIGHT")
      BY <1>1, <1>5, <2>0, <2>2 DEF Strikes, pieces, PieceTypes
    <3>2. s \in KnightAttacks[t]
      BY <2>0, <3>1, Sym
    <3> QED BY <3>1, <3>2 DEF Strikers, Leapers
  <2>3. CASE at[s][2] = "KING"
    <3>1. t \in KingAttacks[s] /\ s \in pieces(b, c, "KING")
      BY <1>1, <1>5, <2>0, <2>3 DEF Strikes, pieces, PieceTypes
    <3> QED BY <1>3, <3>1
  <2>4. CASE at[s][2] \in {"ROOK", "BISHOP", "QUEEN"}
    <3>1. \/ at[s][2] # "BISHOP" /\ OnRookLine(s, t) /\ Between[s][t] \cap occ = {}
          \/ at[s][2] # "ROOK" /\ OnBishopLine(s, t) /\ Between[s][t] \cap occ = {}
      <4>1. CASE at[s][2] = "ROOK"
        BY <1>1, <1>5, <4>1 DEF Strikes
      <4>2. CASE at[s][2] = "BISHOP"
        BY <1>1, <1>5, <4>2 DEF Strikes
      <4>3. CASE at[s][2] = "QUEEN"
        BY <1>1, <1>5, <4>3 DEF Strikes
      <4> QED BY <2>4, <4>1, <4>2, <4>3
    <3>2. /\ at[s][2] # "BISHOP" => s \in RookLike(b, c)
          /\ at[s][2] # "ROOK" => s \in BishopLike(b, c)
      BY <1>1, <2>0, <2>4 DEF RookLike, BishopLike, PieceTypes
    <3>3. /\ OnRookLine(s, t) => s \in RookLines[t]
          /\ OnBishopLine(s, t) => s \in BishopLines[t]
      <4>1. /\ OnRookLine(s, t) => t \in RookLines[s]
            /\ OnBishopLine(s, t) => t \in BishopLines[s]
        BY <2>0 DEF RookLines, BishopLines
      <4> QED BY <2>0, <4>1, Sym
    <3>4. s \in LinedUp(b, c, t) /\ Between[t][s] \cap occ = {}
      BY <2>0, <3>1, <3>2, <3>3, Sym DEF LinedUp
    <3> QED BY <3>4 DEF Strikers, occ
  <2> QED BY <1>1, <2>1, <2>2, <2>3, <2>4 DEF PieceTypes
<1>6. ASSUME NEW s \in Leapers(b, c, t) PROVE s \in occ /\ at[s][1] = c /\ Strikes(at, s, t)
  <2>1. s \in Sq /\ s \in b.colour_bb[c] /\ s \in occ
    BY <1>2, CheckersKnown
  <2>2. CASE s \in KnightAttacks[t] \cap pieces(b, c, "KNIGHT")
    <3>1. at[s][2] = "KNIGHT" /\ t \in KnightAttacks[s]
      BY <1>1, <2>1, <2>2, Sym DEF pieces, PieceTypes
    <3> QED BY <1>1, <2>1, <3>1 DEF Strikes
  <2>3. CASE s \in pawn_attacks(Other(c), t) \cap pieces(b, c, "PAWN")
    <3>1. at[s][2] = "PAWN" /\ t \in pawn_attacks(c, s)
      BY <1>1, <1>4, <2>1, <2>3, Sym DEF pieces, PieceTypes
    <3> QED BY <1>1, <2>1, <3>1 DEF Strikes, pawn_attacks
  <2> QED BY <2>2, <2>3 DEF Leapers
<1>7. ASSUME NEW s \in LinedUp(b, c, t), Between[t][s] \cap occ = {}
      PROVE  s \in occ /\ at[s][1] = c /\ Strikes(at, s, t)
  <2>1. s \in Sq /\ s \in b.colour_bb[c] /\ s \in occ /\ Between[s][t] \cap DOMAIN at = {}
    BY <1>1, <1>2, <1>7, CheckersKnown, Sym
  <2>2. at[s][1] = c
    BY <1>1, <2>1
  <2>3. CASE s \in RookLines[t] \cap RookLike(b, c)
    <3>1. OnRookLine(s, t)
      <4>1. t \in RookLines[s]
        BY <2>1, <2>3, Sym
      <4> QED BY <2>1, <4>1 DEF RookLines
    <3>2. at[s][2] = "ROOK" \/ at[s][2] = "QUEEN"
      BY <1>1, <2>1, <2>3 DEF RookLike, PieceTypes
    <3> QED BY <2>1, <2>2, <3>1, <3>2 DEF Strikes
  <2>4. CASE s \in BishopLines[t] \cap BishopLike(b, c)
    <3>1. OnBishopLine(s, t)
      <4>1. t \in BishopLines[s]
        BY <2>1, <2>4, Sym
      <4> QED BY <2>1, <4>1 DEF BishopLines
    <3>2. at[s][2] = "BISHOP" \/ at[s][2] = "QUEEN"
      BY <1>1, <2>1, <2>4 DEF BishopLike, PieceTypes
    <3> QED BY <2>1, <2>2, <3>1, <3>2 DEF Strikes
  <2> QED BY <2>3, <2>4 DEF LinedUp
<1>8. ASSUME t \in KingAttacks[b.king_square[c]]
      PROVE  \E s \in occ : at[s][1] = c /\ Strikes(at, s, t)
  <2> DEFINE s == b.king_square[c]
  <2>1. s \in b.colour_bb[c] /\ s \in occ /\ at[s][1] = c /\ at[s][2] = "KING"
    <3>1. s \in pieces(b, c, "KING")
      BY <1>3
    <3>2. s \in b.colour_bb[c] /\ s \in b.piece_bb["KING"]
      BY <3>1 DEF pieces
    <3> QED BY <1>1, <1>2, <3>2 DEF PieceTypes
  <2>2. Strikes(at, s, t)
    BY <1>8, <2>1 DEF Strikes
  <2> QED BY <2>1, <2>2
<1>9. StruckBy(at, c, t) <=> \E s \in occ : at[s][1] = c /\ Strikes(at, s, t)
  BY <1>1 DEF StruckBy
<1>10. \A s \in Strikers(b, c, t) : s \in Leapers(b, c, t) \/ (s \in LinedUp(b, c, t) /\ Between[t][s] \cap occ = {})
  BY DEF Strikers, occ
<1>11. StruckBy(at, c, t) <=> Strikers(b, c, t) # {} \/ t \in KingAttacks[b.king_square[c]]
  BY <1>5, <1>6, <1>7, <1>8, <1>9, <1>10
<1> QED BY <1>11 DEF at

\* Check, as the rules have it: kings that stand beside each other strike each other.
LEMMA CheckSeen ==
  ASSUME NEW b \in Boards, Views(b), Counted(b), NEW c \in Colours
  PROVE  InCheck(AtOf(b), c) <=>
            \/ Strikers(b, Other(c), b.king_square[c]) # {}
            \/ b.king_square[c] \in KingAttacks[b.king_square[Other(c)]]
<1> DEFINE k == b.king_square[c]
<1>1. k \in Sq /\ Other(c) \in Colours /\ pieces(b, c, "KING") = {k} /\ "KING" \in PieceTypes
  BY DEF Boards, Other, Colours, Counted, PieceTypes
<1>2. \A s : s \in DOMAIN AtOf(b) /\ AtOf(b)[s] = <<c, "KING">> <=> s = k
  <2>1. k \in DOMAIN AtOf(b) /\ AtOf(b)[k] = <<c, "KING">>
    BY <1>1, BoardSeen
  <2>2. ASSUME NEW s \in b.occupied_bb, AtOf(b)[s] = <<c, "KING">> PROVE s = k
    <3>1. AtOf(b)[s][1] = c /\ AtOf(b)[s][2] = "KING"
      BY <2>2
    <3>2. s \in pieces(b, c, "KING")
      BY <1>1, <3>1, BoardSeen DEF pieces
    <3> QED BY <1>1, <3>2
  <2> QED BY <2>1, <2>2, BoardSeen
<1>3. StruckBy(AtOf(b), Other(c), k)
        <=> Strikers(b, Other(c), k) # {} \/ k \in KingAttacks[b.king_square[Other(c)]]
  BY <1>1, StruckSeen
<1>4. InCheck(AtOf(b), c) <=> StruckBy(AtOf(b), Other(c), k)
  BY <1>2 DEF InCheck
<1> QED BY <1>3, <1>4

\* What a move makes of the rules' board is what make_move makes of the engine's.
LEMMA MadeSeen ==
  ASSUME NEW b \in Boards, Views(b), NEW m, Playable(b, m)
  PROVE  Played(AtOf(b), m) = AtOf(MakeBoard(b, m))
<1> DEFINE us == b.whos_move
           them == Other(us)
           made == MakeBoard(b, m)
           at == AtOf(b)
           o == m.origin
           t == m.target
           occ == b.occupied_bb
           what == IF is_promotion(m) THEN <<us, m.promoted>> ELSE at[o]
           gone == {o} \cup (IF m.type = "EN_PASSENT" THEN {CapturedSquare(m)} ELSE {})
                   \cup (IF is_castle(m) THEN {Home(us, m)} ELSE {})
           rook == IF is_castle(m) THEN {Castled(us, m)} ELSE {}
           D == (occ \ gone) \cup {t} \cup rook
<1>1. us \in Colours /\ them \in Colours /\ them # us
  BY DEF Boards, Colours, Other
<1>2. /\ made \in Boards /\ Views(made)
      /\ made.occupied_bb = (occ \ (OwnLeft(us, m) \cup TheirsLost(m))) \cup OwnFilled(us, m)
      /\ \A c \in Colours, p \in PieceTypes :
            pieces(made, c, p) = (pieces(b, c, p) \ Left(us, m, c, p)) \cup Filled(us, m, c, p)
  BY MadeBoard
<1>3. /\ m.moving_piece \in PieceTypes /\ o \in pieces(b, us, m.moving_piece)
      /\ (is_promotion(m) => m.promoted \in PieceTypes)
  BY DEF Playable, MadeMoves
<1>4. o \in occ /\ at[o] = <<us, m.moving_piece>> /\ at[o][1] = us
  BY <1>1, <1>3, BoardSeen
<1>5. what = <<us, Becomes(m)>> /\ Becomes(m) \in PieceTypes
  BY <1>3, <1>4 DEF Becomes
<1>6. /\ DOMAIN at = occ
      /\ \A s \in occ : /\ at[s][1] \in Colours /\ at[s][2] \in PieceTypes
                        /\ at[s] = <<at[s][1], at[s][2]>>
                        /\ s \in pieces(b, at[s][1], at[s][2])
  BY BoardSeen DEF pieces
<1>7. Played(at, m) = [s \in D |-> IF s = t THEN what ELSE IF s \in rook THEN <<us, "ROOK">> ELSE at[s]]
  BY <1>4, <1>6 DEF Played, Home, Castled
<1>8. TheirsLost(m) \subseteq gone \cup {t} /\ gone \subseteq OwnLeft(us, m) \cup TheirsLost(m)
      /\ OwnLeft(us, m) \subseteq gone /\ OwnFilled(us, m) = {t} \cup rook
  BY DEF TheirsLost, TakenSquare, OwnLeft, OwnFilled, is_capture
<1>9. D = made.occupied_bb
  <2> HIDE DEF gone, rook, made
  <2> QED BY <1>2, <1>8
<1>10. \A c \in Colours, p \in PieceTypes : Left(us, m, c, p) \subseteq gone \cup {t}
  <2>1. \A c, p : Left(us, m, c, p) \subseteq OwnLeft(us, m) \cup TheirsLost(m)
    BY DEF Left, OwnLeft, TheirsLost
  <2> HIDE DEF gone
  <2> QED BY <1>8, <2>1
<1>11. t \in pieces(made, us, Becomes(m))
  <2>1. t \in Filled(us, m, us, Becomes(m))
    BY DEF Filled
  <2> QED BY <1>1, <1>2, <1>5, <2>1
<1>12. \A s \in rook : s \in pieces(made, us, "ROOK")
  <2>1. \A s \in rook : s \in Filled(us, m, us, "ROOK")
    BY DEF Filled
  <2>2. "ROOK" \in PieceTypes
    BY DEF PieceTypes
  <2> QED BY <1>1, <1>2, <2>1, <2>2
<1>13. \A c \in Colours, p \in PieceTypes : \A s \in pieces(made, c, p) :
          AtOf(made)[s] = <<c, p>>
  BY <1>2, BoardSeen
<1>14. DOMAIN AtOf(made) = made.occupied_bb /\ AtOf(made) = [s \in made.occupied_bb |-> AtOf(made)[s]]
  BY DEF AtOf
<1>15. "ROOK" \in PieceTypes
  BY DEF PieceTypes
<1> HIDE DEF us, them, made, at, o, t, occ, what, gone, rook, D
<1>16. ASSUME NEW s \in D
       PROVE  AtOf(made)[s] = IF s = t THEN what ELSE IF s \in rook THEN <<us, "ROOK">> ELSE at[s]
  <2>1. CASE s = t
    BY <1>1, <1>5, <1>11, <1>13, <2>1
  <2>2. CASE s # t /\ s \in rook
    BY <1>1, <1>12, <1>13, <1>15, <2>2
  <2>3. CASE s # t /\ s \notin rook
    <3>1. s \in occ /\ s \notin gone
      BY <2>3 DEF D
    <3>2. s \in pieces(made, at[s][1], at[s][2])
      BY <1>2, <1>6, <1>10, <2>3, <3>1
    <3> QED BY <1>6, <1>13, <2>3, <3>1, <3>2
  <2> QED BY <2>1, <2>2, <2>3
<1>17. AtOf(made) = [s \in D |-> AtOf(made)[s]]
  BY <1>9, <1>14
<1>18. AtOf(made) = [s \in D |-> IF s = t THEN what ELSE IF s \in rook THEN <<us, "ROOK">> ELSE at[s]]
  BY <1>16, <1>17
<1> QED BY <1>7, <1>18 DEF made, at

-----------------------------------------------------------------------------
(***************************************************************************)
(* What the generator makes, whatever keeps the king safe.                 *)
(***************************************************************************)
OfficerGoes(b, m) ==
    LET us == b.whos_move
        occ == b.occupied_bb
    IN \E p \in Officers : \E o \in pieces(b, us, p) : \E t \in attacks(p, occ, o) \ b.colour_bb[us] :
          m = Move(p, o, t, IF t \in occ THEN "CAPTURE" ELSE "QUIETmv")
PawnTakes(b, m) ==
    LET us == b.whos_move
    IN \E o \in pieces(b, us, "PAWN") : \E t \in pawn_attacks(us, o) \cap b.colour_bb[Other(us)] :
          m \in PawnCaps(us, o, t)
PawnAdvances(b, m) ==
    LET us == b.whos_move
        occ == b.occupied_bb
    IN \E o \in pieces(b, us, "PAWN") :
          /\ o + forwards(us) \notin occ
          /\ \/ m \in PawnPushes(us, o)
             \/ /\ rank(o) = relative_rank(us, 1) /\ o + 2 * forwards(us) \notin occ
                /\ m = DoublePush(us, o)
KingGoes(b, m) ==
    LET us == b.whos_move
        ks == b.king_square[us]
    IN \E t \in KingAttacks[ks] \ b.colour_bb[us] :
          m = Move("KING", ks, t, IF t \in b.occupied_bb THEN "CAPTURE" ELSE "QUIETmv")
PawnPasses(b, a, m) ==
    LET us == b.whos_move
    IN \E o \in EpOrigins(us, pieces(b, us, "PAWN"), a) :
          m = Move("PAWN", o, EpTarget(us, a), "EN_PASSENT")
PassesSafely(b, a, o) ==
    LET us == b.whos_move
    IN /\ EpSafe(b, a, o)
       /\ is_check(a) => o \notin a.pinned /\ a.checkers = {EpPawn(us, a.en_passent_target)}
       /\ ~is_check(a) => (o \in a.pinned => EpTarget(us, a) \in Line[b.king_square[us]][o])

\* The generator, described: each move it may make, and the condition it is made under.
Makes(b, a, m) ==
    \/ (OfficerGoes(b, m) \/ PawnTakes(b, m) \/ PawnAdvances(b, m)) /\ Keeps(b, a, m.origin, m.target)
    \/ KingGoes(b, m) /\ m.target \notin a.attacked
    \/ PawnPasses(b, a, m) /\ PassesSafely(b, a, m.origin)
    \/ ~is_check(a) /\ m \in Castles(b, a)

\* The fields of a move, as it is written down.
LEMMA Fields ==
  /\ \A p, o, t, type :
       LET m == Move(p, o, t, type)
       IN m.moving_piece = p /\ m.origin = o /\ m.target = t /\ m.type = type
  /\ \A c, o, t : \A m \in PawnCaps(c, o, t) :
       /\ m.moving_piece = "PAWN" /\ m.origin = o /\ m.target = t
       /\ m.type \in {"CAPTURE", "CAPTURE_PROMOTION"}
  /\ \A c, o : \A m \in PawnPushes(c, o) :
       /\ m.moving_piece = "PAWN" /\ m.origin = o /\ m.target = o + forwards(c)
       /\ m.type \in {"QUIETmv", "PROMOTION"}
  /\ \A c, o : DoublePush(c, o).origin = o /\ DoublePush(c, o).target = o + 2 * forwards(c)
<1>1. \A p, o, t, type :
       LET m == Move(p, o, t, type)
       IN m.moving_piece = p /\ m.origin = o /\ m.target = t /\ m.type = type
  BY DEF Move
<1>2. \A p, o, t, type : \A m \in Promotions(Move(p, o, t, type)) :
         m.moving_piece = p /\ m.origin = o /\ m.target = t /\ m.type = type
  BY DEF Promotions, Move
<1>3. ASSUME NEW c, NEW o, NEW t, NEW m \in PawnCaps(c, o, t)
      PROVE  /\ m.moving_piece = "PAWN" /\ m.origin = o /\ m.target = t
             /\ m.type \in {"CAPTURE", "CAPTURE_PROMOTION"}
  <2>1. CASE rank(o) = relative_rank(c, 6)
    <3>1. m \in Promotions(Move("PAWN", o, t, "CAPTURE_PROMOTION"))
      BY <1>3, <2>1 DEF PawnCaps
    <3> QED BY <1>2, <3>1
  <2>2. CASE rank(o) # relative_rank(c, 6)
    BY <1>1, <1>3, <2>2 DEF PawnCaps
  <2> QED BY <2>1, <2>2
<1>4. ASSUME NEW c, NEW o, NEW m \in PawnPushes(c, o)
      PROVE  /\ m.moving_piece = "PAWN" /\ m.origin = o /\ m.target = o + forwards(c)
             /\ m.type \in {"QUIETmv", "PROMOTION"}
  <2>1. CASE rank(o) = relative_rank(c, 6)
    <3>1. m \in Promotions(Move("PAWN", o, o + forwards(c), "PROMOTION"))
      BY <1>4, <2>1 DEF PawnPushes
    <3> QED BY <1>2, <3>1
  <2>2. CASE rank(o) # relative_rank(c, 6)
    BY <1>1, <1>4, <2>2 DEF PawnPushes
  <2> QED BY <2>1, <2>2
<1>5. \A c, o : DoublePush(c, o).origin = o /\ DoublePush(c, o).target = o + 2 * forwards(c)
  BY <1>1 DEF DoublePush
<1> QED BY <1>1, <1>3, <1>4, <1>5

\* Out of check: what a pinned pawn may be pushed to is on the king's file, and it does
\* not promote.
LEMMA PinnedPush ==
  ASSUME NEW b, NEW a, Lawful(b, a.castling_rights, a.en_passent_target), Informed(b, a),
         NEW o \in pieces(b, b.whos_move, "PAWN"), o \in a.pinned,
         file(o) = file(b.king_square[b.whos_move]), o + forwards(b.whos_move) \notin b.occupied_bb
  PROVE  rank(o) # relative_rank(b.whos_move, 6)
<1> DEFINE us == b.whos_move
           them == Other(us)
           ks == b.king_square[us]
           occ == b.occupied_bb
<1>1. /\ b \in Boards /\ Views(b) /\ Counted(b) /\ PawnsInside(b) /\ a.pinned = Pinned(b)
  BY DEF Lawful, Informed
<1>2. /\ us \in Colours /\ them \in Colours /\ o \in Sq /\ rank(o) \in 1 .. 6
      /\ ks \in Sq /\ ks \in occ /\ \A c \in Colours : b.colour_bb[c] \subseteq occ /\ b.colour_bb[c] \subseteq Sq
  <2>1. us \in Colours /\ them \in Colours /\ o \in Sq /\ ks \in Sq /\ ks \in pieces(b, us, "KING")
    BY <1>1 DEF Boards, Colours, Other, pieces, Counted
  <2>2. \A c \in Colours : b.colour_bb[c] \subseteq occ /\ b.colour_bb[c] \subseteq Sq
    BY <1>1 DEF Boards, Views, Colours
  <2> QED BY <1>1, <2>1, <2>2 DEF PawnsInside, pieces
<1>3. PICK s \in LinedUp(b, them, ks) : o \in Between[ks][s]
  BY <1>1, <1>2, Struck DEF Pinned
<1>4. s \in Sq /\ s \in occ /\ Inside(ks, s, o)
  BY <1>1, <1>2, <1>3, Struck, Btw
<1>5. /\ rank(s) \in 0 .. 7 /\ file(s) \in 0 .. 7 /\ rank(ks) \in 0 .. 7 /\ file(ks) \in 0 .. 7
      /\ rank(o) \in 0 .. 7 /\ file(o) \in 0 .. 7
  BY <1>2, <1>4, Coordinates
<1>6. file(s) = file(ks) /\ Strictly(rank(o), rank(ks), rank(s))
  BY <1>4, <1>5 DEF Inside, Aligned, Strictly
<1> SUFFICES ASSUME rank(o) = relative_rank(us, 6) PROVE FALSE
  OBVIOUS
<1>7. /\ o + forwards(us) \in Sq /\ file(o + forwards(us)) = file(o)
      /\ rank(o + forwards(us)) = rank(o) + (forwards(us) \div 8)
  BY <1>2, Steps
<1>8. rank(o + forwards(us)) = rank(ks) \/ rank(o + forwards(us)) = rank(s)
  <2>1. CASE us = "WHITE"
    <3>1. rank(o) = 6 /\ rank(o + forwards(us)) = 7
      BY <1>7, <2>1 DEF relative_rank, forwards
    <3> QED BY <1>5, <1>6, <3>1 DEF Strictly
  <2>2. CASE us = "BLACK"
    <3>1. rank(o) = 1 /\ rank(o + forwards(us)) = 0
      BY <1>7, <2>2 DEF relative_rank, forwards
    <3> QED BY <1>5, <1>6, <3>1 DEF Strictly
  <2> QED BY <1>2, <2>1, <2>2 DEF Colours
<1>9. o + forwards(us) = ks \/ o + forwards(us) = s
  BY <1>2, <1>4, <1>6, <1>7, <1>8, Coordinates
<1> QED BY <1>2, <1>4, <1>9

\* The king's moves.
LEMMA KingMovesAre ==
  ASSUME NEW b \in Boards, Views(b), NEW a, NEW m
  PROVE  m \in KingMoves(b, a) <=> KingGoes(b, m) /\ m.target \notin a.attacked
<1> DEFINE us == b.whos_move
           them == Other(us)
           ks == b.king_square[us]
           occ == b.occupied_bb
<1>1. /\ us \in Colours /\ ks \in Sq /\ \A t : t \in occ <=> t \in b.colour_bb[us] \/ t \in b.colour_bb[them]
      /\ b.colour_bb[us] \cap b.colour_bb[them] = {}
  BY DEF Boards, Colours, Other, Views
<1>2. attacks("KING", occ, ks) = KingAttacks[ks] /\ KingSafe(b, a) = Sq \ a.attacked /\ KingAttacks[ks] \subseteq Sq
  BY <1>1 DEF attacks, KingSafe, KingAttacks
<1> HIDE DEF us, them, ks, occ
<1>3. m \in PieceQuiets(b, "KING", ks, KingSafe(b, a))
        <=> \E t \in KingAttacks[ks] : t \notin a.attacked /\ t \notin occ /\ m = Move("KING", ks, t, "QUIETmv")
  BY <1>2 DEF PieceQuiets, occ
<1>4. m \in PieceCaptures(b, "KING", ks, KingSafe(b, a))
        <=> \E t \in KingAttacks[ks] : t \notin a.attacked /\ t \in b.colour_bb[them] /\ m = Move("KING", ks, t, "CAPTURE")
  BY <1>2 DEF PieceCaptures, occ, them, us
<1>5. KingGoes(b, m) <=> \E t \in KingAttacks[ks] :
         t \notin b.colour_bb[us] /\ m = Move("KING", ks, t, IF t \in occ THEN "CAPTURE" ELSE "QUIETmv")
  BY DEF KingGoes, us, ks, occ
<1>6. \A t, type : Move("KING", ks, t, type).target = t
  BY Fields
<1>7. (\E t \in KingAttacks[ks] : t \notin a.attacked /\ t \notin occ /\ m = Move("KING", ks, t, "QUIETmv"))
      \/ (\E t \in KingAttacks[ks] : t \notin a.attacked /\ t \in b.colour_bb[them] /\ m = Move("KING", ks, t, "CAPTURE"))
      <=> (\E t \in KingAttacks[ks] :
             t \notin b.colour_bb[us] /\ m = Move("KING", ks, t, IF t \in occ THEN "CAPTURE" ELSE "QUIETmv"))
          /\ m.target \notin a.attacked
  BY <1>1, <1>6
<1> QED BY <1>3, <1>4, <1>5, <1>7 DEF KingMoves, us, ks

\* Out of check, the moves are those that a pin allows.
LEMMA AnatomyQuiet ==
  ASSUME NEW b, NEW a, Lawful(b, a.castling_rights, a.en_passent_target), Informed(b, a),
         ~is_check(a), NEW move
  PROVE  move \in get_moves(b, a) <=> Makes(b, a, move)
<1> DEFINE us == b.whos_move
           them == Other(us)
           ks == b.king_square[us]
           occ == b.occupied_bb
           pawns == pieces(b, us, "PAWN")
           fw == forwards(us)
<1>0. /\ b \in Boards /\ Views(b) /\ Counted(b) /\ PawnsInside(b)
  BY DEF Lawful
<1>1. /\ us \in Colours /\ them \in Colours /\ \A p : pieces(b, us, p) \subseteq Sq
      /\ ks \in Sq /\ ks \in pieces(b, us, "KING") /\ ks \in occ
      /\ \A c \in Colours : b.colour_bb[c] \subseteq occ /\ b.colour_bb[c] \subseteq Sq
      /\ \A t : t \in occ <=> t \in b.colour_bb[us] \/ t \in b.colour_bb[them]
      /\ b.colour_bb[us] \cap b.colour_bb[them] = {}
  BY <1>0 DEF Boards, Colours, Other, pieces, Counted, Views
<1>2. \A o \in pawns : o # ks /\ o \in Sq /\ rank(o) \in 1 .. 6
  BY <1>0, <1>1 DEF Views, pieces, PieceTypes, PawnsInside
<1>3. \A o, t : t \in Sq => (Keeps(b, a, o, t) <=> t \in PinLine(b, a, o))
  BY DEF PinLine, Keeps
<1>4. \A p \in Officers : \A o \in Sq : attacks(p, occ, o) \subseteq Sq
  BY DEF Officers, attacks, rook_attacks, bishop_attacks, RookLines, BishopLines, KnightAttacks
<1> DEFINE FewQ(p) == UNION {PieceQuiets(b, p, o, PinLine(b, a, o)) : o \in OfficerSquares(b, a, p)}
           FewC(p) == UNION {PieceCaptures(b, p, o, PinLine(b, a, o)) : o \in OfficerSquares(b, a, p)}
           OffQ == UNION {FewQ(p) : p \in Officers}
           OffC == UNION {FewC(p) : p \in Officers}
<1>5. get_moves(b, a) = PawnCaptures(b, a) \cup OffC \cup Castles(b, a) \cup PawnQuiets(b, a)
                        \cup OffQ \cup KingMoves(b, a)
  BY DEF get_moves, Captures, Quiets, KingMoves
<1>6. move \in OffQ \cup OffC <=> OfficerGoes(b, move) /\ Keeps(b, a, move.origin, move.target)
  <2>1. \A p, x : /\ x \in FewQ(p) <=> \E o \in OfficerSquares(b, a, p) : x \in PieceQuiets(b, p, o, PinLine(b, a, o))
                  /\ x \in FewC(p) <=> \E o \in OfficerSquares(b, a, p) : x \in PieceCaptures(b, p, o, PinLine(b, a, o))
    OBVIOUS
  <2>2. \A p, o, x :
          /\ x \in PieceQuiets(b, p, o, PinLine(b, a, o)) <=>
               \E t \in attacks(p, occ, o) : t \in PinLine(b, a, o) /\ t \notin occ /\ x = Move(p, o, t, "QUIETmv")
          /\ x \in PieceCaptures(b, p, o, PinLine(b, a, o)) <=>
               \E t \in attacks(p, occ, o) :
                  t \in PinLine(b, a, o) /\ t \in b.colour_bb[them] /\ x = Move(p, o, t, "CAPTURE")
    BY DEF PieceQuiets, PieceCaptures
  <2>3. \A p, o : o \in OfficerSquares(b, a, p) <=>
                     o \in pieces(b, us, p) /\ (p = "KNIGHT" => o \notin a.pinned)
    BY DEF OfficerSquares
  <2>4. OfficerGoes(b, move) <=>
          \E p \in Officers : \E o \in pieces(b, us, p) : \E t \in attacks(p, occ, o) :
             t \notin b.colour_bb[us] /\ move = Move(p, o, t, IF t \in occ THEN "CAPTURE" ELSE "QUIETmv")
    BY DEF OfficerGoes
  <2>5. ASSUME NEW o \in pieces(b, us, "KNIGHT"), NEW t \in attacks("KNIGHT", occ, o), Keeps(b, a, o, t)
        PROVE  o \notin a.pinned
    <3>1. t \in KnightAttacks[o] /\ o \in Sq
      BY <1>1 DEF attacks
    <3>2. t \notin Line[ks][o]
      BY <1>1, <3>1, OnTheRay
    <3> QED BY <2>5, <3>2 DEF Keeps
  <2> HIDE DEF FewQ, FewC, us, them, ks, occ, pawns
  <2>6. ASSUME move \in OffQ PROVE OfficerGoes(b, move) /\ Keeps(b, a, move.origin, move.target)
    <3>0. PICK p \in Officers : move \in FewQ(p)
      BY <2>6
    <3>1. PICK o \in OfficerSquares(b, a, p) : move \in PieceQuiets(b, p, o, PinLine(b, a, o))
      BY <2>1, <3>0
    <3>2. PICK t \in attacks(p, occ, o) :
             t \in PinLine(b, a, o) /\ t \notin occ /\ move = Move(p, o, t, "QUIETmv")
      BY <2>2, <3>1
    <3>3. o \in pieces(b, us, p) /\ t \in Sq
      BY <1>1, <1>4, <2>3
    <3>4. OfficerGoes(b, move)
      BY <1>1, <2>4, <3>2, <3>3
    <3> QED BY <1>3, <3>2, <3>3, <3>4, Fields
  <2>7. ASSUME move \in OffC PROVE OfficerGoes(b, move) /\ Keeps(b, a, move.origin, move.target)
    <3>0. PICK p \in Officers : move \in FewC(p)
      BY <2>7
    <3>1. PICK o \in OfficerSquares(b, a, p) : move \in PieceCaptures(b, p, o, PinLine(b, a, o))
      BY <2>1, <3>0
    <3>2. PICK t \in attacks(p, occ, o) :
             t \in PinLine(b, a, o) /\ t \in b.colour_bb[them] /\ move = Move(p, o, t, "CAPTURE")
      BY <2>2, <3>1
    <3>3. o \in pieces(b, us, p) /\ t \in Sq /\ t \in occ /\ t \notin b.colour_bb[us]
      BY <1>1, <1>4, <2>3, <3>2
    <3>4. OfficerGoes(b, move)
      BY <1>1, <2>4, <3>2, <3>3
    <3> QED BY <1>3, <3>2, <3>3, <3>4, Fields
  <2>8. ASSUME OfficerGoes(b, move), Keeps(b, a, move.origin, move.target) PROVE move \in OffQ \cup OffC
    <3>0. PICK p \in Officers :
             \E o \in pieces(b, us, p) : \E t \in attacks(p, occ, o) :
               t \notin b.colour_bb[us] /\ move = Move(p, o, t, IF t \in occ THEN "CAPTURE" ELSE "QUIETmv")
      BY <2>4, <2>8
    <3>9. PICK o \in pieces(b, us, p) :
             \E t \in attacks(p, occ, o) :
               t \notin b.colour_bb[us] /\ move = Move(p, o, t, IF t \in occ THEN "CAPTURE" ELSE "QUIETmv")
      BY <3>0
    <3>1. PICK t \in attacks(p, occ, o) :
             t \notin b.colour_bb[us] /\ move = Move(p, o, t, IF t \in occ THEN "CAPTURE" ELSE "QUIETmv")
      BY <3>9
    <3>2. Keeps(b, a, o, t) /\ t \in Sq /\ o \in Sq
      BY <1>1, <1>4, <2>8, <3>1, Fields
    <3>3. t \in PinLine(b, a, o) /\ o \in OfficerSquares(b, a, p)
      BY <1>3, <2>3, <2>5, <3>2
    <3>4. t \notin occ => move \in FewQ(p)
      BY <2>1, <2>2, <3>1, <3>3
    <3>5. t \in occ => move \in FewC(p)
      BY <1>1, <2>1, <2>2, <3>1, <3>3
    <3> QED BY <3>4, <3>5
  <2> QED BY <2>6, <2>7, <2>8
<1>7. move \in PawnQuiets(b, a) <=> PawnAdvances(b, move) /\ Keeps(b, a, move.origin, move.target)
  <2> DEFINE pushes(o) == IF o \in a.pinned THEN {Move("PAWN", o, o + fw, "QUIETmv")}
                          ELSE PawnPushes(us, o)
             open == {o \in pawns : o + fw \notin occ /\ (o \in a.pinned => file(o) = file(ks))}
             second == {o \in open : rank(o) = relative_rank(us, 1) /\ o + fw + fw \notin occ}
  <2>1. PawnQuiets(b, a) = (UNION {pushes(o) : o \in open}) \cup {DoublePush(us, o) : o \in second}
    BY DEF PawnQuiets
  <2>2. \A o : o \in open <=> o \in pawns /\ o + fw \notin occ /\ (o \in a.pinned => file(o) = file(ks))
    OBVIOUS
  <2>3. \A o \in pawns : o + fw + fw = o + 2 * fw
    BY <1>2 DEF Sq, forwards
  <2>4. \A o : o \in second <=> o \in open /\ rank(o) = relative_rank(us, 1) /\ o + 2 * fw \notin occ
    BY <2>2, <2>3
  <2>5. \A o \in pawns :
          /\ o + fw \in Sq
          /\ Keeps(b, a, o, o + fw) <=> (o \in a.pinned => file(o) = file(ks))
          /\ rank(o) = relative_rank(us, 1) =>
               /\ o + 2 * fw \in Sq
               /\ Keeps(b, a, o, o + 2 * fw) <=> (o \in a.pinned => file(o) = file(ks))
    <3> SUFFICES ASSUME NEW o \in pawns
                 PROVE  /\ o + fw \in Sq
                        /\ Keeps(b, a, o, o + fw) <=> (o \in a.pinned => file(o) = file(ks))
                        /\ rank(o) = relative_rank(us, 1) =>
                             /\ o + 2 * fw \in Sq
                             /\ Keeps(b, a, o, o + 2 * fw) <=> (o \in a.pinned => file(o) = file(ks))
      OBVIOUS
    <3>1. o \in Sq /\ o # ks /\ rank(o) \in 1 .. 6
      BY <1>2
    <3>2. /\ o + fw \in Sq /\ o + fw # o /\ file(o + fw) = file(o)
          /\ file(o) = file(ks) => o + fw \in Line[ks][o]
          /\ rank(o) = relative_rank(us, 1) =>
               /\ o + 2 * fw \in Sq /\ o + 2 * fw # o /\ file(o + 2 * fw) = file(o)
               /\ file(o) = file(ks) => o + 2 * fw \in Line[ks][o]
      BY <1>1, <3>1, Steps
    <3>3. /\ o + fw \in Line[ks][o] => file(o) = file(ks)
          /\ rank(o) = relative_rank(us, 1) =>
               (o + 2 * fw \in Line[ks][o] => file(o) = file(ks))
      BY <1>1, <3>1, <3>2, OnTheRay
    <3> HIDE DEF fw, us, ks
    <3> QED BY <3>2, <3>3 DEF Keeps, us, ks
  <2>6. \A o \in open : o \in a.pinned => PawnPushes(us, o) = {Move("PAWN", o, o + fw, "QUIETmv")}
    <3> SUFFICES ASSUME NEW o \in open, o \in a.pinned PROVE PawnPushes(us, o) = {Move("PAWN", o, o + fw, "QUIETmv")}
      OBVIOUS
    <3>1. rank(o) # relative_rank(us, 6)
      BY <2>2, PinnedPush
    <3> QED BY <3>1 DEF PawnPushes
  <2>7. \A o \in open : pushes(o) = PawnPushes(us, o)
    BY <2>6
  <2>8. PawnAdvances(b, move) <=>
          \E o \in pawns : /\ o + fw \notin occ
                           /\ \/ move \in PawnPushes(us, o)
                              \/ /\ rank(o) = relative_rank(us, 1) /\ o + 2 * fw \notin occ
                                 /\ move = DoublePush(us, o)
    BY DEF PawnAdvances
  <2> HIDE DEF us, them, ks, occ, pawns, fw, open, second, pushes
  <2>9. move \in PawnQuiets(b, a) <=> \/ \E o \in open : move \in PawnPushes(us, o)
                                      \/ \E o \in second : move = DoublePush(us, o)
    BY <2>1, <2>7
  <2>10. \A o : /\ move \in PawnPushes(us, o) => move.origin = o /\ move.target = o + fw
                /\ move = DoublePush(us, o) => move.origin = o /\ move.target = o + 2 * fw
    BY Fields DEF fw
  <2> QED BY <2>2, <2>4, <2>5, <2>8, <2>9, <2>10
<1>8. move \in PawnCaptures(b, a) <=>
        \/ PawnTakes(b, move) /\ Keeps(b, a, move.origin, move.target)
        \/ PawnPasses(b, a, move) /\ PassesSafely(b, a, move.origin)
  <2> DEFINE taken(o) == pawn_attacks(us, o) \cap b.colour_bb[them] \cap PinLine(b, a, o)
             origins == {o \in EpOrigins(us, pawns, a) : EpTarget(us, a) \in PinLine(b, a, o)}
             from(o) == UNION {PawnCaps(us, o, t) : t \in taken(o)}
  <2>1. PawnCaptures(b, a) = (UNION {from(o) : o \in pawns}) \cup EpMoves(b, a, origins)
    BY DEF PawnCaptures
  <2>2. \A o, x : x \in from(o) <=> \E t \in taken(o) : x \in PawnCaps(us, o, t)
    OBVIOUS
  <2>3. \A o : o \in pawns => \A t : t \in taken(o) <=>
           t \in pawn_attacks(us, o) \cap b.colour_bb[them] /\ Keeps(b, a, o, t)
    BY <1>1, <1>3
  <2>4. \A o \in EpOrigins(us, pawns, a) :
          (EpTarget(us, a) \in PinLine(b, a, o) /\ EpSafe(b, a, o)) <=> PassesSafely(b, a, o)
    <3> SUFFICES ASSUME NEW o \in EpOrigins(us, pawns, a)
                 PROVE  (EpTarget(us, a) \in PinLine(b, a, o) /\ EpSafe(b, a, o)) <=> PassesSafely(b, a, o)
      OBVIOUS
    <3>1. o \in Sq /\ a.en_passent_target # NO_FILE /\ Dist(file(o), a.en_passent_target) = 1
          /\ rank(o) = relative_rank(us, 4)
      BY <1>2 DEF EpOrigins
    <3>2. a.en_passent_target \in Files
      BY <3>1 DEF Lawful, EpHeld
    <3>3. EpTarget(us, a) \in Sq
      BY <1>1, <3>1, <3>2, PassingSquares DEF EpTarget, EpTo
    <3> QED BY <3>3 DEF PinLine, PassesSafely
  <2>5. move \in EpMoves(b, a, origins) <=>
          \E o \in EpOrigins(us, pawns, a) :
             /\ EpTarget(us, a) \in PinLine(b, a, o) /\ EpSafe(b, a, o)
             /\ move = Move("PAWN", o, EpTarget(us, a), "EN_PASSENT")
    BY DEF EpMoves
  <2>6. PawnPasses(b, a, move) <=>
          \E o \in EpOrigins(us, pawns, a) : move = Move("PAWN", o, EpTarget(us, a), "EN_PASSENT")
    BY DEF PawnPasses
  <2>7. PawnTakes(b, move) <=>
          \E o \in pawns : \E t \in pawn_attacks(us, o) \cap b.colour_bb[them] : move \in PawnCaps(us, o, t)
    BY DEF PawnTakes
  <2> HIDE DEF us, them, ks, occ, pawns, fw, taken, origins, from
  <2>8. move \in EpMoves(b, a, origins) <=> PawnPasses(b, a, move) /\ PassesSafely(b, a, move.origin)
    <3>1. \A o, t : Move("PAWN", o, t, "EN_PASSENT").origin = o
      BY Fields
    <3> QED BY <2>4, <2>5, <2>6, <3>1
  <2>9. move \in UNION {from(o) : o \in pawns} <=>
          PawnTakes(b, move) /\ Keeps(b, a, move.origin, move.target)
    <3>1. \A o, t : move \in PawnCaps(us, o, t) => move.origin = o /\ move.target = t
      BY Fields
    <3>2. move \in UNION {from(o) : o \in pawns} <=>
            \E o \in pawns : \E t \in taken(o) : move \in PawnCaps(us, o, t)
      BY <2>2
    <3> QED BY <2>3, <2>7, <3>1, <3>2
  <2> QED BY <2>1, <2>8, <2>9
<1>9. move \in KingMoves(b, a) <=> KingGoes(b, move) /\ move.target \notin a.attacked
  BY <1>0, KingMovesAre
<1> HIDE DEF OffQ, OffC
<1> QED BY <1>5, <1>6, <1>7, <1>8, <1>9 DEF Makes

\* In check, they are the king's, and from one checker those that take it or step
\* between, of the pieces that are not pinned.
LEMMA AnatomyChecked ==
  ASSUME NEW b, NEW a, Lawful(b, a.castling_rights, a.en_passent_target), Informed(b, a),
         is_check(a), NEW move
  PROVE  move \in get_moves(b, a) <=> Makes(b, a, move)
<1> DEFINE us == b.whos_move
           them == Other(us)
           ks == b.king_square[us]
           occ == b.occupied_bb
           fw == forwards(us)
           ep == a.en_passent_target
           All == pieces(b, us, "PAWN")
<1>0. /\ b \in Boards /\ Views(b) /\ Counted(b) /\ PawnsInside(b) /\ Cardinality(Checkers(b)) <= 2
      /\ Safe(b) /\ Apart(b) /\ a.checkers = Checkers(b) /\ a.pinned = Pinned(b)
  BY DEF Lawful, Informed
<1>1. /\ us \in Colours /\ them \in Colours /\ \A p : pieces(b, us, p) \subseteq Sq
      /\ ks \in Sq /\ ks \in pieces(b, us, "KING") /\ ks \in occ
      /\ \A c \in Colours : b.colour_bb[c] \subseteq occ /\ b.colour_bb[c] \subseteq Sq
      /\ \A t : t \in occ <=> t \in b.colour_bb[us] \/ t \in b.colour_bb[them]
      /\ b.colour_bb[us] \cap b.colour_bb[them] = {}
  BY <1>0 DEF Boards, Colours, Other, pieces, Counted, Views
<1>2. \A p \in Officers : \A o \in Sq : attacks(p, occ, o) \subseteq Sq
  BY DEF Officers, attacks, rook_attacks, bishop_attacks, RookLines, BishopLines, KnightAttacks
<1>3. move \in KingMoves(b, a) <=> KingGoes(b, move) /\ move.target \notin a.attacked
  BY <1>0, KingMovesAre
<1>4. ASSUME Cardinality(a.checkers) # 2 PROVE \E ts : a.checkers = {ts}
  <2>1. Strikers(b, them, ks) \subseteq b.colour_bb[them] /\ Checkers(b) = Strikers(b, them, ks)
    BY <1>0, <1>1, Struck DEF Strikers
  <2>2. IsFiniteSet(Sq)
    <3>1. Sq = 0 .. 63 /\ 0 \in Int /\ 63 \in Int
      BY DEF Sq
    <3> QED BY <3>1, FS_Interval
  <2>3. IsFiniteSet(Checkers(b))
    BY <1>1, <2>1, <2>2, FS_Subset
  <2>4. Cardinality(Checkers(b)) \in Nat /\ Cardinality(Checkers(b)) # 0
    BY <1>0, <2>3, FS_CardinalityType, FS_EmptySet DEF is_check
  <2>5. Cardinality(Checkers(b)) = 1
    BY <1>0, <1>4, <2>4
  <2> QED BY <1>0, <2>3, <2>5, FS_Singleton
<1>5. ASSUME Cardinality(a.checkers) = 2 PROVE move \in get_moves(b, a) <=> Makes(b, a, move)
  <2>1. \A ts : a.checkers # {ts}
    <3>1. \A ts : Cardinality({ts}) = 1
      BY FS_Singleton
    <3> QED BY <1>5, <3>1
  <2>2. \A o, t : ~Keeps(b, a, o, t) /\ ~PassesSafely(b, a, o)
    BY <2>1 DEF Keeps, PassesSafely
  <2> QED BY <1>3, <1>5, <2>2 DEF get_moves, Evasions, Makes
<1>6. ASSUME Cardinality(a.checkers) # 2 PROVE move \in get_moves(b, a) <=> Makes(b, a, move)
  <2>1. PICK ts : a.checkers = {ts}
    BY <1>4, <1>6
  <2> DEFINE between == Between[ks][ts]
             free(p) == pieces(b, us, p) \ a.pinned
             pawns == All \ a.pinned
  <2>2. /\ ts \in Sq /\ ts \in b.colour_bb[them] /\ ts \in occ /\ ts \notin b.colour_bb[us]
        /\ between \cap occ = {} /\ between \subseteq Sq
    <3>0. Checkers(b) = Strikers(b, them, ks)
      BY <1>0, Struck
    <3>1. ts \in Strikers(b, them, ks)
      BY <1>0, <2>1, <3>0
    <3>2. \/ ts \in Leapers(b, them, ks)
          \/ ts \in LinedUp(b, them, ks) /\ Between[ks][ts] \cap occ = {}
      BY <3>1 DEF Strikers
    <3>3. ts \in Sq /\ ts \in b.colour_bb[them] /\ between \cap occ = {}
      BY <1>0, <1>1, <3>2, CheckersKnown
    <3>4. between \subseteq Sq
      BY <1>1, <3>3 DEF Between, Line, RookLines, BishopLines
    <3> QED BY <1>1, <3>3, <3>4
  <2>3. \A o, t : Keeps(b, a, o, t) <=> o \notin a.pinned /\ (t = ts \/ t \in between)
    BY <2>1 DEF Keeps
  <2>4. (CHOOSE s \in a.checkers : TRUE) = ts
    BY <2>1
  <2> DEFINE Takes(p) == {Move(p, o, ts, "CAPTURE") : o \in attacks(p, occ, ts) \cap free(p)}
             Blocks(p) == UNION {PieceQuiets(b, p, o, between) : o \in free(p)}
             OffT == UNION {Takes(p) : p \in Officers}
             OffB == UNION {Blocks(p) : p \in Officers}
  <2>5. OneCheckerEvasions(b, a) = OffT \cup PawnEvasions(b, a, ts, between) \cup OffB
    <3> DEFINE tc == CHOOSE s \in a.checkers : TRUE
               E(x) == (UNION {{Move(p, o, x, "CAPTURE") : o \in attacks(p, occ, x) \cap free(p)} :
                                 p \in Officers})
                       \cup PawnEvasions(b, a, x, Between[ks][x])
                       \cup (UNION {UNION {PieceQuiets(b, p, o, Between[ks][x]) : o \in free(p)} :
                                      p \in Officers})
    <3>1. OneCheckerEvasions(b, a) = E(tc)
      BY DEF OneCheckerEvasions
    <3>2. E(ts) = OffT \cup PawnEvasions(b, a, ts, between) \cup OffB
      OBVIOUS
    <3> HIDE DEF E
    <3> QED BY <2>4, <3>1, <3>2
  <2>6. move \in OffT \cup OffB <=> OfficerGoes(b, move) /\ Keeps(b, a, move.origin, move.target)
    <3>1. \A p, x : /\ x \in Takes(p) <=> \E o \in attacks(p, occ, ts) \cap free(p) : x = Move(p, o, ts, "CAPTURE")
                    /\ x \in Blocks(p) <=> \E o \in free(p) : x \in PieceQuiets(b, p, o, between)
      OBVIOUS
    <3>2. \A p, o, x : x \in PieceQuiets(b, p, o, between) <=>
             \E t \in attacks(p, occ, o) : t \in between /\ t \notin occ /\ x = Move(p, o, t, "QUIETmv")
      BY DEF PieceQuiets
    <3>3. \A p, o : o \in free(p) <=> o \in pieces(b, us, p) /\ o \notin a.pinned
      OBVIOUS
    <3>4. OfficerGoes(b, move) <=>
            \E p \in Officers : \E o \in pieces(b, us, p) : \E t \in attacks(p, occ, o) :
               t \notin b.colour_bb[us] /\ move = Move(p, o, t, IF t \in occ THEN "CAPTURE" ELSE "QUIETmv")
      BY DEF OfficerGoes
    <3>5. \A p \in Officers : \A o, t \in Sq : t \in attacks(p, occ, o) <=> o \in attacks(p, occ, t)
      BY <1>0, Targets
    <3> HIDE DEF Takes, Blocks, free, us, them, ks, occ, between
    <3>6. ASSUME move \in OffT PROVE OfficerGoes(b, move) /\ Keeps(b, a, move.origin, move.target)
      <4>1. PICK p \in Officers : move \in Takes(p)
        BY <3>6
      <4>2. PICK o \in attacks(p, occ, ts) \cap free(p) : move = Move(p, o, ts, "CAPTURE")
        BY <3>1, <4>1
      <4>3. o \in pieces(b, us, p) /\ o \notin a.pinned /\ o \in Sq /\ ts \in attacks(p, occ, o)
        BY <1>1, <2>2, <3>3, <3>5
      <4>4. OfficerGoes(b, move)
        BY <2>2, <3>4, <4>2, <4>3
      <4> QED BY <2>3, <4>2, <4>3, <4>4, Fields
    <3>7. ASSUME move \in OffB PROVE OfficerGoes(b, move) /\ Keeps(b, a, move.origin, move.target)
      <4>1. PICK p \in Officers : move \in Blocks(p)
        BY <3>7
      <4>2. PICK o \in free(p) : move \in PieceQuiets(b, p, o, between)
        BY <3>1, <4>1
      <4>3. PICK t \in attacks(p, occ, o) : t \in between /\ t \notin occ /\ move = Move(p, o, t, "QUIETmv")
        BY <3>2, <4>2
      <4>4. o \in pieces(b, us, p) /\ o \notin a.pinned /\ t \notin b.colour_bb[us]
        BY <1>1, <3>3, <4>3
      <4>5. OfficerGoes(b, move)
        BY <3>4, <4>3, <4>4
      <4> QED BY <2>3, <4>3, <4>4, <4>5, Fields
    <3>8. ASSUME OfficerGoes(b, move), Keeps(b, a, move.origin, move.target) PROVE move \in OffT \cup OffB
      <4>1. PICK p \in Officers :
               \E o \in pieces(b, us, p) : \E t \in attacks(p, occ, o) :
                 t \notin b.colour_bb[us] /\ move = Move(p, o, t, IF t \in occ THEN "CAPTURE" ELSE "QUIETmv")
        BY <3>4, <3>8
      <4>2. PICK o \in pieces(b, us, p) :
               \E t \in attacks(p, occ, o) :
                 t \notin b.colour_bb[us] /\ move = Move(p, o, t, IF t \in occ THEN "CAPTURE" ELSE "QUIETmv")
        BY <4>1
      <4>3. PICK t \in attacks(p, occ, o) :
               t \notin b.colour_bb[us] /\ move = Move(p, o, t, IF t \in occ THEN "CAPTURE" ELSE "QUIETmv")
        BY <4>2
      <4>4. o \in Sq /\ o \in free(p) /\ (t = ts \/ t \in between)
        BY <1>1, <2>3, <3>3, <3>8, <4>3, Fields
      <4>5. CASE t = ts
        <5>1. move = Move(p, o, ts, "CAPTURE") /\ o \in attacks(p, occ, ts)
          BY <2>2, <3>5, <4>3, <4>4, <4>5
        <5>2. move \in Takes(p)
          BY <3>1, <4>4, <5>1
        <5> QED BY <5>2
      <4>6. CASE t \in between
        <5>1. t \notin occ
          BY <2>2, <4>6
        <5>2. move \in Blocks(p)
          BY <3>1, <3>2, <4>3, <4>4, <4>6, <5>1
        <5> QED BY <5>2
      <4> QED BY <4>4, <4>5, <4>6
    <3> QED BY <3>6, <3>7, <3>8
  <2>7. move \in PawnEvasions(b, a, ts, between) <=>
          \/ (PawnTakes(b, move) \/ PawnAdvances(b, move)) /\ Keeps(b, a, move.origin, move.target)
          \/ PawnPasses(b, a, move) /\ PassesSafely(b, a, move.origin)
    <3> DEFINE one(o) == o + fw
               two(o) == o + 2 * fw
               caps == {o \in pawns : ts \in pawn_attacks(us, o)}
               pushed == {o \in pawns : one(o) \in between}
               second == {o \in pawns : /\ two(o) \in between
                                        /\ rank(o) = relative_rank(us, 1)
                                        /\ one(o) \notin occ}
               passing == IF ts = Square(relative_rank(us, 4), ep) THEN EpOrigins(us, pawns, a) ELSE {}
    <3>1. PawnEvasions(b, a, ts, between)
          = (UNION {PawnCaps(us, o, ts) : o \in caps}) \cup EpMoves(b, a, passing)
            \cup (UNION {PawnPushes(us, o) : o \in pushed}) \cup {DoublePush(us, o) : o \in second}
      BY DEF PawnEvasions
    <3>2. PawnTakes(b, move) <=>
            \E o \in All : \E t \in pawn_attacks(us, o) \cap b.colour_bb[them] : move \in PawnCaps(us, o, t)
      BY DEF PawnTakes
    <3>3. PawnAdvances(b, move) <=>
            \E o \in All : /\ one(o) \notin occ
                           /\ \/ move \in PawnPushes(us, o)
                              \/ /\ rank(o) = relative_rank(us, 1) /\ two(o) \notin occ
                                 /\ move = DoublePush(us, o)
      BY DEF PawnAdvances
    <3>4. PawnPasses(b, a, move) <=>
            \E o \in EpOrigins(us, All, a) : move = Move("PAWN", o, EpTarget(us, a), "EN_PASSENT")
      BY DEF PawnPasses
    <3>5. \A o : o \in pawns <=> o \in All /\ o \notin a.pinned
      OBVIOUS
    <3>6. /\ \A o : o \in caps <=> o \in pawns /\ ts \in pawn_attacks(us, o)
          /\ \A o : o \in pushed <=> o \in pawns /\ one(o) \in between
          /\ \A o : o \in second <=> /\ o \in pawns /\ two(o) \in between
                                     /\ rank(o) = relative_rank(us, 1) /\ one(o) \notin occ
      OBVIOUS
    <3>7. \A o : o \in passing <=> /\ ts = EpPawn(us, ep) /\ o \in EpOrigins(us, All, a) /\ o \notin a.pinned
      BY DEF EpOrigins, EpPawn
    <3>8. \A o : PassesSafely(b, a, o) <=> EpSafe(b, a, o) /\ o \notin a.pinned /\ ts = EpPawn(us, ep)
      BY <2>1 DEF PassesSafely
    <3>9. move \in EpMoves(b, a, passing) <=>
            \E o \in passing : EpSafe(b, a, o) /\ move = Move("PAWN", o, EpTarget(us, a), "EN_PASSENT")
      BY DEF EpMoves
    <3>10. \A o, t :
             /\ move \in PawnCaps(us, o, t) => move.origin = o /\ move.target = t
             /\ move \in PawnPushes(us, o) => move.origin = o /\ move.target = one(o)
             /\ move = DoublePush(us, o) => move.origin = o /\ move.target = two(o)
             /\ move = Move("PAWN", o, t, "EN_PASSENT") => move.origin = o
      BY Fields
    <3> HIDE DEF us, them, ks, occ, fw, ep, All, pawns, between, caps, pushed, second, passing, one, two
    <3>11. move \in UNION {PawnCaps(us, o, ts) : o \in caps}
             <=> PawnTakes(b, move) /\ Keeps(b, a, move.origin, move.target)
      <4>1. move \in UNION {PawnCaps(us, o, ts) : o \in caps} <=> \E o \in caps : move \in PawnCaps(us, o, ts)
        OBVIOUS
      <4>2. \A t \in between : t \notin b.colour_bb[them]
        BY <1>1, <2>2
      <4> QED BY <2>2, <2>3, <3>2, <3>5, <3>6, <3>10, <4>1, <4>2
    <3>12. (move \in UNION {PawnPushes(us, o) : o \in pushed} \/ move \in {DoublePush(us, o) : o \in second})
             <=> PawnAdvances(b, move) /\ Keeps(b, a, move.origin, move.target)
      <4>1. (move \in UNION {PawnPushes(us, o) : o \in pushed} \/ move \in {DoublePush(us, o) : o \in second})
              <=> (\E o \in pushed : move \in PawnPushes(us, o)) \/ (\E o \in second : move = DoublePush(us, o))
        OBVIOUS
      <4>2. \A t \in between : t \notin occ
        BY <2>2
      <4>3. \A o : /\ move \in PawnPushes(us, o) =>
                       (Keeps(b, a, move.origin, move.target)
                          <=> o \notin a.pinned /\ (one(o) = ts \/ one(o) \in between))
                   /\ move = DoublePush(us, o) =>
                       (Keeps(b, a, move.origin, move.target)
                          <=> o \notin a.pinned /\ (two(o) = ts \/ two(o) \in between))
        BY <2>3, <3>10
      <4>4. ASSUME NEW o \in pushed, move \in PawnPushes(us, o)
            PROVE  PawnAdvances(b, move) /\ Keeps(b, a, move.origin, move.target)
        BY <3>3, <3>5, <3>6, <4>2, <4>3, <4>4
      <4>5. ASSUME NEW o \in second, move = DoublePush(us, o)
            PROVE  PawnAdvances(b, move) /\ Keeps(b, a, move.origin, move.target)
        <5>1. Keeps(b, a, move.origin, move.target)
          BY <3>5, <3>6, <4>3, <4>5
        <5>2. o \in All /\ one(o) \notin occ /\ rank(o) = relative_rank(us, 1) /\ two(o) \notin occ
          BY <3>5, <3>6, <4>2
        <5> QED BY <3>3, <4>5, <5>1, <5>2
      <4>6. ASSUME PawnAdvances(b, move), Keeps(b, a, move.origin, move.target)
            PROVE  (\E o \in pushed : move \in PawnPushes(us, o)) \/ (\E o \in second : move = DoublePush(us, o))
        <5>1. PICK o \in All : /\ one(o) \notin occ
                              /\ \/ move \in PawnPushes(us, o)
                                 \/ /\ rank(o) = relative_rank(us, 1) /\ two(o) \notin occ
                                    /\ move = DoublePush(us, o)
          BY <3>3, <4>6
        <5>2. CASE move \in PawnPushes(us, o)
          BY <2>2, <3>5, <3>6, <4>3, <4>6, <5>1, <5>2
        <5>3. CASE rank(o) = relative_rank(us, 1) /\ two(o) \notin occ /\ move = DoublePush(us, o)
          <6>1. o \notin a.pinned /\ two(o) \in between
            BY <2>2, <4>3, <4>6, <5>3
          <6>2. o \in second
            BY <3>5, <3>6, <5>1, <5>3, <6>1
          <6> QED BY <5>3, <6>2
        <5> QED BY <5>1, <5>2, <5>3
      <4> QED BY <4>1, <4>4, <4>5, <4>6
    <3>13. move \in EpMoves(b, a, passing) <=> PawnPasses(b, a, move) /\ PassesSafely(b, a, move.origin)
      BY <3>4, <3>7, <3>8, <3>9, <3>10
    <3> QED BY <3>1, <3>11, <3>12, <3>13
  <2>8. get_moves(b, a) = KingMoves(b, a) \cup OneCheckerEvasions(b, a)
    BY <1>6 DEF get_moves, Evasions
  <2> HIDE DEF OffT, OffB, between
  <2> QED BY <1>3, <2>5, <2>6, <2>7, <2>8 DEF Makes
<1> QED BY <1>5, <1>6

\* A move is generated if and only if it is one a piece can make, of the king to where
\* it is not attacked, of another piece along its pin or to answer the check, or a
\* capture en passant that opens no line, or castling out of no check.
LEMMA Anatomy ==
  ASSUME NEW b, NEW a, Lawful(b, a.castling_rights, a.en_passent_target), Informed(b, a), NEW move
  PROVE  move \in get_moves(b, a) <=> Makes(b, a, move)
BY AnatomyQuiet, AnatomyChecked

\* Every move of get_moves is as described, out of check and in check from one piece
\* or from two.
LEMMA Generated ==
  ASSUME NEW b, NEW a, Lawful(b, a.castling_rights, a.en_passent_target), Informed(b, a),
         NEW move \in get_moves(b, a)
  PROVE  Described(b, a, move)
<1> DEFINE us == b.whos_move
           them == Other(us)
           occ == b.occupied_bb
<1>1. /\ \A t : t \in occ <=> t \in b.colour_bb[us] \/ t \in b.colour_bb[them]
      /\ b \in Boards /\ Views(b)
  BY DEF Lawful, Boards, Colours, Other, Views
<1>2. Makes(b, a, move)
  BY Anatomy
<1>3. CASE OfficerGoes(b, move) /\ Keeps(b, a, move.origin, move.target)
  <2>1. PICK p \in Officers :
           \E o \in pieces(b, us, p) : \E t \in attacks(p, occ, o) \ b.colour_bb[us] :
              move = Move(p, o, t, IF t \in occ THEN "CAPTURE" ELSE "QUIETmv")
    BY <1>3 DEF OfficerGoes
  <2>2. PICK o \in pieces(b, us, p) : \E t \in attacks(p, occ, o) \ b.colour_bb[us] :
           move = Move(p, o, t, IF t \in occ THEN "CAPTURE" ELSE "QUIETmv")
    BY <2>1
  <2>3. PICK t \in attacks(p, occ, o) \ b.colour_bb[us] :
           move = Move(p, o, t, IF t \in occ THEN "CAPTURE" ELSE "QUIETmv")
    BY <2>2
  <2>4. Keeps(b, a, o, t)
    BY <1>3, <2>3, Fields
  <2> QED BY <1>1, <2>3, <2>4, Appended
<1>4. CASE PawnTakes(b, move) /\ Keeps(b, a, move.origin, move.target)
  <2>1. PICK o \in pieces(b, us, "PAWN") :
           \E t \in pawn_attacks(us, o) \cap b.colour_bb[them] : move \in PawnCaps(us, o, t)
    BY <1>4 DEF PawnTakes
  <2>2. PICK t \in pawn_attacks(us, o) \cap b.colour_bb[them] : move \in PawnCaps(us, o, t)
    BY <2>1
  <2>3. Keeps(b, a, o, t)
    BY <1>4, <2>2, Fields
  <2> QED BY <2>2, <2>3, Appended
<1>5. CASE PawnAdvances(b, move) /\ Keeps(b, a, move.origin, move.target)
  <2>1. PICK o \in pieces(b, us, "PAWN") :
           /\ o + forwards(us) \notin occ
           /\ \/ move \in PawnPushes(us, o)
              \/ /\ rank(o) = relative_rank(us, 1) /\ o + 2 * forwards(us) \notin occ
                 /\ move = DoublePush(us, o)
    BY <1>5 DEF PawnAdvances
  <2>2. CASE move \in PawnPushes(us, o)
    <3>1. Keeps(b, a, o, o + forwards(us))
      BY <1>5, <2>2, Fields
    <3> QED BY <2>1, <2>2, <3>1, Appended
  <2>3. CASE rank(o) = relative_rank(us, 1) /\ o + 2 * forwards(us) \notin occ /\ move = DoublePush(us, o)
    <3>1. Keeps(b, a, o, o + 2 * forwards(us))
      BY <1>5, <2>3, Fields
    <3> QED BY <2>1, <2>3, <3>1, Appended
  <2> QED BY <2>1, <2>2, <2>3
<1>6. CASE KingGoes(b, move) /\ move.target \notin a.attacked
  BY <1>1, <1>6, KingMovesAre, OfKingsAndPassing
<1>7. CASE PawnPasses(b, a, move) /\ PassesSafely(b, a, move.origin)
  <2>1. PICK o \in EpOrigins(us, pieces(b, us, "PAWN"), a) : move = Move("PAWN", o, EpTarget(us, a), "EN_PASSENT")
    BY <1>7 DEF PawnPasses
  <2>2. PassesSafely(b, a, o)
    BY <1>7, <2>1, Fields
  <2> QED BY <2>1, <2>2, OfKingsAndPassing DEF PassesSafely
<1>8. CASE move \in Castles(b, a)
  BY <1>8, OfKingsAndPassing
<1> QED BY <1>2, <1>3, <1>4, <1>5, <1>6, <1>7, <1>8 DEF Makes

\* A move leaves its king safe, as the rules have it, when on the board that make_move
\* makes nothing strikes the king and the kings are apart.
LEMMA SafeSeen ==
  ASSUME NEW b \in Boards, Views(b), Counted(b), NEW move, Sound(b, move)
  PROVE  LET us == b.whos_move
             them == Other(us)
             made == MakeBoard(b, [move EXCEPT !.captured_piece = Captured(b, move)])
         IN ~InCheck(Played(AtOf(b), move), us) <=>
               /\ Strikers(made, them, made.king_square[us]) = {}
               /\ made.king_square[us] \notin KingAttacks[made.king_square[them]]
<1> DEFINE us == b.whos_move
           them == Other(us)
           m == [move EXCEPT !.captured_piece = Captured(b, move)]
           made == MakeBoard(b, m)
<1>1. us \in Colours /\ them \in Colours
  BY DEF Boards, Colours, Other
<1>2. /\ Playable(b, m) /\ m.origin = move.origin /\ m.target = move.target /\ m.type = move.type
      /\ m.promoted = move.promoted /\ is_promotion(m) = is_promotion(move)
      /\ is_castle(m) = is_castle(move) /\ get_castleside(m) = get_castleside(move)
      /\ CapturedSquare(m) = CapturedSquare(move)
  BY CaptureFound
<1> HIDE DEF m
<1>3. Played(AtOf(b), move) = Played(AtOf(b), m)
  BY <1>2 DEF Played
<1>4. made \in Boards /\ Views(made) /\ Counted(made)
  BY <1>2, MadeBoard, MadeCounts
<1>5. Played(AtOf(b), m) = AtOf(made)
  BY <1>2, MadeSeen
<1> HIDE DEF made, us, them
<1>6. InCheck(AtOf(made), us) <=>
         \/ Strikers(made, Other(us), made.king_square[us]) # {}
         \/ made.king_square[us] \in KingAttacks[made.king_square[Other(us)]]
  BY <1>1, <1>4, CheckSeen
<1> QED BY <1>3, <1>5, <1>6 DEF made, them, us, m

\* What a piece may do, whatever becomes of its king, make_move may take.
LEMMA GoesSound ==
  ASSUME NEW b, NEW a, Lawful(b, a.castling_rights, a.en_passent_target), NEW m
  PROVE  /\ OfficerGoes(b, m) \/ PawnTakes(b, m) \/ PawnAdvances(b, m) =>
              /\ Sound(b, m) /\ m.moving_piece # "KING" /\ m.type # "EN_PASSENT" /\ ~is_castle(m)
              /\ Between[m.origin][m.target] \cap b.occupied_bb = {}
         /\ KingGoes(b, m) =>
              /\ Sound(b, m) /\ m.moving_piece = "KING" /\ m.type # "EN_PASSENT" /\ ~is_castle(m)
         /\ PawnPasses(b, a, m) =>
              LET us == b.whos_move
                  ep == a.en_passent_target
              IN /\ Sound(b, m) /\ ep # NO_FILE /\ m.moving_piece = "PAWN" /\ m.type = "EN_PASSENT"
                 /\ m.target = EpTo(us, ep) /\ TakenSquare(m) = EpPawn(us, ep)
                 /\ rank(m.origin) = relative_rank(us, 4) /\ Dist(file(m.origin), ep) = 1
<1> DEFINE us == b.whos_move
           them == Other(us)
           ks == b.king_square[us]
           occ == b.occupied_bb
           ep == a.en_passent_target
           free == [castling_rights |-> a.castling_rights, en_passent_target |-> ep,
                    checkers |-> {}, pinned |-> {}, attacked |-> {}]
<1>0. /\ b \in Boards /\ Views(b) /\ Counted(b) /\ PawnsInside(b) /\ EpHeld(b, ep)
      /\ Lawful(b, free.castling_rights, free.en_passent_target)
  BY DEF Lawful
<1>1. /\ us \in Colours /\ them \in Colours /\ ks \in Sq
      /\ \A t : t \in occ <=> t \in b.colour_bb[us] \/ t \in b.colour_bb[them]
  BY <1>0 DEF Boards, Colours, Other, Views
<1>2. ~is_check(free) /\ free.attacked = {} /\ \A o, t : Keeps(b, free, o, t)
  BY DEF is_check, Keeps
<1>3. \A x : Steered(b, free, x) => Between[x.origin][x.target] \cap occ = {}
                                   /\ x.moving_piece # "KING" /\ x.type # "EN_PASSENT" /\ ~is_castle(x)
  BY DEF Steered
<1> HIDE DEF free
<1>4. ASSUME Described(b, free, m), m.moving_piece # "KING", m.type # "EN_PASSENT"
      PROVE  /\ Sound(b, m) /\ ~is_castle(m) /\ Between[m.origin][m.target] \cap b.occupied_bb = {}
  BY <1>3, <1>4 DEF Described, Royal, InPassing
<1>5. ASSUME OfficerGoes(b, m)
      PROVE  Described(b, free, m) /\ m.moving_piece # "KING" /\ m.type # "EN_PASSENT"
  <2>1. PICK p \in Officers :
           \E o \in pieces(b, us, p) : \E t \in attacks(p, occ, o) :
             t \notin b.colour_bb[us] /\ m = Move(p, o, t, IF t \in occ THEN "CAPTURE" ELSE "QUIETmv")
    BY <1>5 DEF OfficerGoes
  <2>0. PICK o \in pieces(b, us, p) : \E t \in attacks(p, occ, o) :
             t \notin b.colour_bb[us] /\ m = Move(p, o, t, IF t \in occ THEN "CAPTURE" ELSE "QUIETmv")
    BY <2>1
  <2>2. PICK t \in attacks(p, occ, o) :
             t \notin b.colour_bb[us] /\ m = Move(p, o, t, IF t \in occ THEN "CAPTURE" ELSE "QUIETmv")
    BY <2>0
  <2>3. /\ t \notin occ => Described(b, free, Move(p, o, t, "QUIETmv"))
        /\ t \in b.colour_bb[them] => Described(b, free, Move(p, o, t, "CAPTURE"))
    BY <1>0, <1>2, Appended
  <2>4. Described(b, free, m)
    BY <1>1, <2>2, <2>3
  <2>5. m.moving_piece = p /\ m.type \in {"CAPTURE", "QUIETmv"} /\ p # "KING"
    BY <2>2, Fields DEF Officers
  <2> QED BY <2>4, <2>5
<1>6. ASSUME PawnTakes(b, m)
      PROVE  Described(b, free, m) /\ m.moving_piece # "KING" /\ m.type # "EN_PASSENT"
  <2>1. PICK o \in pieces(b, us, "PAWN") :
           \E t \in pawn_attacks(us, o) \cap b.colour_bb[them] : m \in PawnCaps(us, o, t)
    BY <1>6 DEF PawnTakes
  <2>2. PICK t \in pawn_attacks(us, o) \cap b.colour_bb[them] : m \in PawnCaps(us, o, t)
    BY <2>1
  <2>3. Described(b, free, m)
    BY <1>0, <1>2, <2>2, Appended
  <2>4. m.moving_piece = "PAWN" /\ m.type \in {"CAPTURE", "CAPTURE_PROMOTION"}
    BY <2>2, Fields
  <2> QED BY <2>3, <2>4
<1>7. ASSUME PawnAdvances(b, m)
      PROVE  Described(b, free, m) /\ m.moving_piece # "KING" /\ m.type # "EN_PASSENT"
  <2>1. PICK o \in pieces(b, us, "PAWN") :
           /\ o + forwards(us) \notin occ
           /\ \/ m \in PawnPushes(us, o)
              \/ /\ rank(o) = relative_rank(us, 1) /\ o + 2 * forwards(us) \notin occ
                 /\ m = DoublePush(us, o)
    BY <1>7 DEF PawnAdvances
  <2>2. CASE m \in PawnPushes(us, o)
    <3>1. Described(b, free, m)
      BY <1>0, <1>2, <2>1, <2>2, Appended
    <3> QED BY <2>2, <3>1, Fields
  <2>3. CASE rank(o) = relative_rank(us, 1) /\ o + 2 * forwards(us) \notin occ /\ m = DoublePush(us, o)
    <3>1. Described(b, free, m)
      BY <1>0, <1>2, <2>1, <2>3, Appended
    <3> QED BY <2>3, <3>1 DEF DoublePush, Move
  <2> QED BY <2>1, <2>2, <2>3
<1>8. ASSUME KingGoes(b, m)
      PROVE  Sound(b, m) /\ m.moving_piece = "KING" /\ m.type # "EN_PASSENT" /\ ~is_castle(m)
  <2>1. m \in KingMoves(b, free)
    BY <1>0, <1>2, <1>8, KingMovesAre
  <2>2. Described(b, free, m)
    BY <1>0, <2>1, OfKingsAndPassing
  <2>3. m.moving_piece = "KING" /\ m.type \in {"CAPTURE", "QUIETmv"}
    BY <1>8, Fields DEF KingGoes
  <2> QED BY <2>2, <2>3 DEF Described, is_castle
<1>9. ASSUME PawnPasses(b, a, m)
      PROVE  /\ Sound(b, m) /\ ep # NO_FILE /\ m.moving_piece = "PAWN" /\ m.type = "EN_PASSENT"
             /\ m.target = EpTo(us, ep) /\ TakenSquare(m) = EpPawn(us, ep)
             /\ rank(m.origin) = relative_rank(us, 4) /\ Dist(file(m.origin), ep) = 1
  <2>1. PICK o \in EpOrigins(us, pieces(b, us, "PAWN"), a) : m = Move("PAWN", o, EpTarget(us, a), "EN_PASSENT")
    BY <1>9 DEF PawnPasses
  <2>2. Sound(b, m)
    BY <2>1, OfKingsAndPassing
  <2>3. /\ m.moving_piece = "PAWN" /\ m.origin = o /\ m.target = EpTo(us, ep) /\ m.type = "EN_PASSENT"
    BY <2>1, Fields DEF EpTarget, EpTo
  <2>4. /\ ep # NO_FILE /\ Dist(file(o), ep) = 1 /\ rank(o) = relative_rank(us, 4) /\ o \in Sq
    BY <1>0, <2>1 DEF EpOrigins, Boards, pieces, Colours
  <2>5. ep \in Files
    BY <1>0, <2>4 DEF EpHeld
  <2>6. file(EpTo(us, ep)) = ep
    BY <1>1, <2>4, <2>5, PassingSquares
  <2>7. TakenSquare(m) = EpPawn(us, ep)
    BY <2>3, <2>4, <2>6 DEF TakenSquare, CapturedSquare, EpPawn
  <2> QED BY <2>2, <2>3, <2>4, <2>7
<1> QED BY <1>4, <1>5, <1>6, <1>7, <1>8, <1>9

\* The conditions under which the generator makes them are those on which the king is
\* safe.
LEMMA GoesSafely ==
  ASSUME NEW b, NEW a, Lawful(b, a.castling_rights, a.en_passent_target), Informed(b, a), NEW m
  PROVE  LET safe == ~InCheck(Played(AtOf(b), m), b.whos_move)
         IN /\ OfficerGoes(b, m) \/ PawnTakes(b, m) \/ PawnAdvances(b, m) =>
                 (safe <=> Keeps(b, a, m.origin, m.target))
            /\ KingGoes(b, m) => (safe <=> m.target \notin a.attacked)
            /\ PawnPasses(b, a, m) => (safe <=> PassesSafely(b, a, m.origin))
<1> DEFINE us == b.whos_move
           them == Other(us)
           safe == ~InCheck(Played(AtOf(b), m), us)
           full == [m EXCEPT !.captured_piece = Captured(b, m)]
           made == MakeBoard(b, full)
           king == made.king_square[us]
           ep == a.en_passent_target
<1>0. /\ b \in Boards /\ Views(b) /\ Counted(b) /\ Apart(b) /\ EpHeld(b, ep) /\ a.attacked = Attacked(b)
  BY DEF Lawful, Informed
<1>1. us \in Colours /\ them \in Colours /\ them # us
  BY <1>0 DEF Boards, Colours, Other
<1>2. ASSUME Sound(b, m)
      PROVE  /\ Playable(b, full) /\ full.moving_piece = m.moving_piece /\ full.origin = m.origin
             /\ full.target = m.target /\ full.type = m.type /\ is_castle(full) = is_castle(m)
             /\ TakenSquare(full) = TakenSquare(m)
             /\ safe <=> Strikers(made, them, king) = {} /\ king \notin KingAttacks[made.king_square[them]]
  BY <1>0, <1>2, CaptureFound, SafeSeen
<1> HIDE DEF full
<1>3. ASSUME Sound(b, m)
      PROVE  \A c \in Colours : made.king_square[c] = IF c = us /\ m.moving_piece = "KING"
                                                     THEN m.target ELSE b.king_square[c]
  BY <1>0, <1>2, <1>3, OccupiedMoved
<1> HIDE DEF safe, made
<1>4. ASSUME Sound(b, m), m.moving_piece # "KING" PROVE safe <=> Strikers(made, them, king) = {}
  <2>1. king = b.king_square[us] /\ made.king_square[them] = b.king_square[them]
    BY <1>1, <1>3, <1>4
  <2>2. king \notin KingAttacks[b.king_square[them]]
    BY <1>0, <1>1, <2>1, Sym DEF Apart, Colours, Boards
  <2> QED BY <1>2, <1>4, <2>1, <2>2
<1>5. ASSUME OfficerGoes(b, m) \/ PawnTakes(b, m) \/ PawnAdvances(b, m)
      PROVE  safe <=> Keeps(b, a, m.origin, m.target)
  <2>1. /\ Sound(b, m) /\ m.moving_piece # "KING" /\ m.type # "EN_PASSENT" /\ ~is_castle(m)
        /\ Between[m.origin][m.target] \cap b.occupied_bb = {}
    BY <1>5, GoesSound
  <2>2. /\ Playable(b, full) /\ full.moving_piece = m.moving_piece /\ full.origin = m.origin
        /\ full.target = m.target /\ full.type = m.type /\ is_castle(full) = is_castle(m)
    BY <1>2, <2>1
  <2>3. Keeps(b, a, m.origin, m.target) => Steered(b, a, full)
    BY <2>1, <2>2 DEF Keeps, Steered
  <2>4. Steered(b, a, full) => Strikers(made, them, king) = {}
    BY <1>0, <2>2, SteeredSafe DEF made
  <2>5. Strikers(made, them, king) = {} => Keeps(b, a, m.origin, m.target)
    BY <1>0, <2>1, <2>2, KeepingNeeded DEF made
  <2> QED BY <1>4, <2>1, <2>3, <2>4, <2>5
<1>6. ASSUME KingGoes(b, m) PROVE safe <=> m.target \notin a.attacked
  <2>1. /\ Sound(b, m) /\ m.moving_piece = "KING" /\ m.type # "EN_PASSENT" /\ ~is_castle(m)
    BY <1>6, GoesSound
  <2>2. /\ Playable(b, full) /\ full.moving_piece = m.moving_piece
        /\ full.target = m.target /\ full.type = m.type /\ is_castle(full) = is_castle(m)
    BY <1>2, <2>1
  <2>3. king = m.target /\ made.king_square[them] = b.king_square[them]
    BY <1>1, <1>3, <2>1
  <2>4. m.target \notin a.attacked => Royal(b, a, full)
    BY <2>1, <2>2 DEF Royal
  <2>5. Royal(b, a, full) => /\ Strikers(made, them, king) = {}
                             /\ king \notin KingAttacks[made.king_square[them]]
    BY <1>0, <2>2, RoyalSafe DEF made
  <2>6. Strikers(made, them, king) = {} /\ m.target \notin KingAttacks[b.king_square[them]]
          => m.target \notin Attacked(b)
    BY <1>0, <2>1, <2>2, RetreatNeeded DEF made
  <2> QED BY <1>0, <1>2, <2>1, <2>3, <2>4, <2>5, <2>6
<1>7. ASSUME PawnPasses(b, a, m) PROVE safe <=> PassesSafely(b, a, m.origin)
  <2>1. /\ Sound(b, m) /\ ep # NO_FILE /\ m.moving_piece = "PAWN" /\ m.type = "EN_PASSENT"
        /\ m.target = EpTo(us, ep) /\ TakenSquare(m) = EpPawn(us, ep)
        /\ rank(m.origin) = relative_rank(us, 4) /\ Dist(file(m.origin), ep) = 1
    BY <1>7, GoesSound
  <2>2. /\ Playable(b, full) /\ full.moving_piece = m.moving_piece /\ full.origin = m.origin
        /\ full.target = m.target /\ full.type = m.type /\ TakenSquare(full) = TakenSquare(m)
    BY <1>2, <2>1
  <2>3. EpTarget(us, a) = EpTo(us, ep)
    BY DEF EpTarget, EpTo
  <2>4. InPassing(b, a, full) <=> PassesSafely(b, a, m.origin)
    BY <2>1, <2>2, <2>3 DEF InPassing, PassesSafely
  <2>5. InPassing(b, a, full) => Strikers(made, them, king) = {}
    BY <1>0, <2>2, PassingSafe DEF made
  <2>6. Strikers(made, them, king) = {} => InPassing(b, a, full)
    BY <1>0, <2>1, <2>2, PassingNeeded DEF made
  <2> QED BY <1>4, <2>1, <2>4, <2>5, <2>6
<1> QED BY <1>5, <1>6, <1>7 DEF safe

\* Out of check, update_attacks finds what the other side strikes: what it strikes through
\* the king is struck by a piece that gives check.
LEMMA AttackedSeen ==
  ASSUME NEW b, NEW a, Lawful(b, a.castling_rights, a.en_passent_target), Informed(b, a),
         ~is_check(a), NEW t \in Sq
  PROVE  StruckBy(AtOf(b), Other(b.whos_move), t) <=> t \in a.attacked
<1> DEFINE us == b.whos_move
           them == Other(us)
           ks == b.king_square[us]
           occ == b.occupied_bb
<1>0. /\ b \in Boards /\ Views(b) /\ Counted(b) /\ a.attacked = Attacked(b) /\ Checkers(b) = {}
  BY DEF Lawful, Informed, is_check
<1>1. /\ us \in Colours /\ them \in Colours /\ ks \in Sq /\ pieces(b, us, "KING") = {ks}
      /\ b.colour_bb[them] \subseteq Sq
  BY <1>0 DEF Boards, Colours, Other, Counted
<1>2. StruckBy(AtOf(b), them, t) <=> Strikers(b, them, t) # {} \/ t \in KingAttacks[b.king_square[them]]
  BY <1>0, <1>1, StruckSeen
<1>3. Strikers(b, them, ks) = {}
  BY <1>0, Struck
<1>4. ASSUME t \notin Attacked(b)
      PROVE  Strikers(b, them, t) = {} /\ t \notin KingAttacks[b.king_square[them]]
  <2>1. /\ Leapers(b, them, t) = {} /\ t \notin KingAttacks[b.king_square[them]]
        /\ \A s \in LinedUp(b, them, t) : Between[t][s] \cap (occ \ {ks}) # {}
    BY <1>0, <1>1, <1>4, Struck
  <2> QED BY <2>1 DEF Strikers
<1>5. ASSUME t \in Attacked(b), Strikers(b, them, t) = {}, t \notin KingAttacks[b.king_square[them]]
      PROVE  FALSE
  <2>1. Leapers(b, them, t) = {} /\ \A s \in LinedUp(b, them, t) : Between[t][s] \cap occ # {}
    BY <1>5 DEF Strikers
  <2>2. PICK s \in LinedUp(b, them, t) : Between[t][s] \cap (occ \ {ks}) = {}
    BY <1>0, <1>1, <1>5, <2>1, Alone
  <2>3. s \in Sq /\ Between[t][s] \cap occ # {} /\ ks \in Between[t][s]
    BY <1>0, <1>1, <2>1, <2>2, Struck
  <2>4. ks \in Between[s][t]
    BY <2>3, Sym
  <2>5. /\ Between[s][ks] \subseteq Between[s][t] \ {ks}
        /\ t \in RookLines[s] => ks \in RookLines[s]
        /\ t \in BishopLines[s] => ks \in BishopLines[s]
    BY <2>3, <2>4, Rays
  <2>6. Between[ks][s] \cap occ = {}
    <3>1. Between[ks][s] = Between[s][ks] /\ Between[s][t] = Between[t][s]
      BY <1>1, <2>3, Sym
    <3> QED BY <2>2, <2>5, <3>1
  <2>7. s \in LinedUp(b, them, ks)
    BY <1>1, <2>2, <2>3, <2>5, Sym DEF LinedUp
  <2> QED BY <1>3, <2>6, <2>7 DEF Strikers
<1> QED BY <1>0, <1>2, <1>4, <1>5

\* The squares of castling: what stands between king and rook, and where the king passes.
LEMMA CastlingLines ==
  ASSUME NEW c \in Colours, NEW side \in Sides
  PROVE  /\ KingSquare(c) \in Sq /\ RookSquares(c, side) \in Sq
         /\ RookCastleSquares(c, side) \in Sq /\ KingCastleSquare(c, side) \in Sq
         /\ Between[KingSquare(c)][RookSquares(c, side)] = castle_blocks(c, side)
         /\ {RookCastleSquares(c, side), KingCastleSquare(c, side)} \subseteq castle_checks(c, side)
         /\ castle_checks(c, side)
              \subseteq {KingSquare(c), RookCastleSquares(c, side), KingCastleSquare(c, side)}
<1> DEFINE r == BackRank(c)
           kf == 4
           rf == IF side = "KINGSIDE" THEN 7 ELSE 0
           blocked == IF side = "KINGSIDE" THEN {5, 6} ELSE {1, 2, 3}
<1>1. r \in 0 .. 7
  BY DEF BackRank, relative_rank
<1>2. /\ KingSquare(c) \in Sq /\ rank(KingSquare(c)) = r /\ file(KingSquare(c)) = 4
      /\ RookSquares(c, side) \in Sq /\ rank(RookSquares(c, side)) = r /\ file(RookSquares(c, side)) = rf
      /\ RookCastleSquares(c, side) \in Sq /\ KingCastleSquare(c, side) \in Sq
  BY <1>1, Coordinates DEF KingSquare, RookSquares, RookCastleSquares, KingCastleSquare
<1>3. ASSUME NEW q \in Sq PROVE q \in castle_blocks(c, side) <=> rank(q) = r /\ file(q) \in blocked
  <2>1. \A f \in blocked : Square(r, f) \in Sq /\ rank(Square(r, f)) = r /\ file(Square(r, f)) = f
    BY <1>1, Coordinates
  <2>2. q = Square(rank(q), file(q))
    BY Coordinates DEF Square
  <2>3. castle_blocks(c, side) = {Square(r, f) : f \in blocked}
    BY DEF castle_blocks
  <2> HIDE DEF r, blocked
  <2> QED BY <2>1, <2>2, <2>3
<1>4. castle_blocks(c, side) \subseteq Sq
  <2>1. \A f \in blocked : Square(r, f) \in Sq
    BY <1>1, Coordinates
  <2> QED BY <2>1 DEF castle_blocks
<1>5. ASSUME NEW q \in Sq
      PROVE  Inside(KingSquare(c), RookSquares(c, side), q) <=> rank(q) = r /\ file(q) \in blocked
  <2>1. rank(q) \in 0 .. 7 /\ file(q) \in 0 .. 7
    BY Coordinates
  <2>2. CASE side = "KINGSIDE"
    BY <1>1, <1>2, <2>1, <2>2 DEF Inside, Aligned, Strictly
  <2>3. CASE side = "QUEENSIDE"
    BY <1>1, <1>2, <2>1, <2>3 DEF Inside, Aligned, Strictly
  <2> QED BY <2>2, <2>3 DEF Sides
<1>6. Between[KingSquare(c)][RookSquares(c, side)] = castle_blocks(c, side)
  <2>1. Between[KingSquare(c)][RookSquares(c, side)] \subseteq Sq
    BY <1>2 DEF Between, Line, RookLines, BishopLines
  <2> QED BY <1>2, <1>3, <1>4, <1>5, <2>1, Btw
<1>7. /\ {RookCastleSquares(c, side), KingCastleSquare(c, side)} \subseteq castle_checks(c, side)
      /\ castle_checks(c, side)
           \subseteq {KingSquare(c), RookCastleSquares(c, side), KingCastleSquare(c, side)}
  <2>1. CASE side = "KINGSIDE"
    BY <2>1 DEF castle_checks, KingSquare, RookCastleSquares, KingCastleSquare
  <2>2. CASE side = "QUEENSIDE"
    BY <2>2 DEF castle_checks, KingSquare, RookCastleSquares, KingCastleSquare
  <2> QED BY <2>1, <2>2 DEF Sides
<1> QED BY <1>2, <1>6, <1>7

\* The castling moves of the generator are those of the rules.
LEMMA CastlesSafely ==
  ASSUME NEW b, NEW a, Lawful(b, a.castling_rights, a.en_passent_target), Informed(b, a), NEW m
  PROVE  LET us == b.whos_move
         IN m \in CastleReach(AtOf(b), us, a.castling_rights) /\ ~InCheck(Played(AtOf(b), m), us)
               <=> ~is_check(a) /\ m \in Castles(b, a)
<1> DEFINE us == b.whos_move
           them == Other(us)
           ks == b.king_square[us]
           occ == b.occupied_bb
           at == AtOf(b)
           rights == a.castling_rights
           written(x) == Move("KING", KingSquare(us), KingCastleSquare(us, x),
                              IF x = "KINGSIDE" THEN "KING_CASTLE" ELSE "QUEEN_CASTLE")
           inRules(x) ==
              /\ <<us, x>> \in rights
              /\ Between[KingSquare(us)][RookSquares(us, x)] \cap DOMAIN at = {}
              /\ \A s \in {KingSquare(us), RookCastleSquares(us, x), KingCastleSquare(us, x)} :
                   ~StruckBy(at, them, s)
           inCode(x) ==
              /\ <<us, x>> \in rights
              /\ castle_blocks(us, x) \cap occ = {}
              /\ castle_checks(us, x) \cap a.attacked = {}
<1>0. /\ b \in Boards /\ Views(b) /\ Counted(b) /\ Apart(b) /\ RightsHeld(b, rights)
      /\ a.attacked = Attacked(b) /\ a.checkers = Checkers(b)
  BY DEF Lawful, Informed
<1>1. us \in Colours /\ them \in Colours /\ them # us /\ ks \in Sq
  BY <1>0 DEF Boards, Colours, Other
<1>2. DOMAIN at = occ
  BY <1>0, BoardSeen
<1>3. /\ m \in CastleReach(at, us, rights) <=> \E x \in Sides : inRules(x) /\ m = written(x)
      /\ m \in Castles(b, a) <=> \E x \in Sides : inCode(x) /\ m = written(x)
  BY DEF CastleReach, Castles
<1>4. StruckBy(at, them, ks) <=> is_check(a)
  <2>1. ks \notin KingAttacks[b.king_square[them]]
    BY <1>0, <1>1, Sym DEF Apart, Colours, Boards
  <2>2. StruckBy(at, them, ks) <=> Strikers(b, them, ks) # {}
    BY <1>0, <1>1, <2>1, StruckSeen
  <2>3. Checkers(b) = Strikers(b, them, ks)
    BY <1>0, Struck
  <2> QED BY <1>0, <2>2, <2>3 DEF is_check
<1>5. ASSUME NEW x \in Sides, <<us, x>> \in rights PROVE KingSquare(us) = ks
  <2>1. KingSquare(us) \in pieces(b, us, "KING")
    BY <1>0, <1>5 DEF RightsHeld
  <2> QED BY <1>0, <1>1, <2>1 DEF Counted
<1>6. ASSUME NEW x \in Sides PROVE inRules(x) <=> ~is_check(a) /\ inCode(x)
  <2>1. CASE <<us, x>> \in rights /\ ~is_check(a)
    <3>1. \A s \in Sq : StruckBy(at, them, s) <=> s \in a.attacked
      BY <2>1, AttackedSeen
    <3>2. KingSquare(us) \notin a.attacked
      BY <1>1, <1>4, <1>5, <2>1, <3>1
    <3> HIDE DEF at, them, us, occ
    <3> QED BY <1>1, <1>2, <2>1, <3>1, <3>2, CastlingLines
  <2>2. CASE <<us, x>> \in rights /\ is_check(a)
    BY <1>4, <1>5, <2>2
  <2> QED BY <2>1, <2>2
<1>7. ASSUME m \in Castles(b, a) PROVE ~InCheck(Played(at, m), us)
  <2> DEFINE full == [m EXCEPT !.captured_piece = Captured(b, m)]
             made == MakeBoard(b, full)
             king == made.king_square[us]
  <2>1. Described(b, a, m)
    BY <1>7, OfKingsAndPassing
  <2>2. m.moving_piece = "KING"
    <3>1. \A x : written(x).moving_piece = "KING"
      BY Fields
    <3> HIDE DEF written, inCode
    <3> QED BY <1>3, <1>7, <3>1
  <2>3. Sound(b, m) /\ Royal(b, a, m)
    BY <2>1, <2>2 DEF Described, Steered, InPassing
  <2>4. /\ Playable(b, full) /\ full.moving_piece = m.moving_piece /\ full.target = m.target
        /\ full.type = m.type
    BY <1>0, <2>3, CaptureFound
  <2>5. ~InCheck(Played(at, m), us) <=> Strikers(made, them, king) = {} /\ king \notin KingAttacks[made.king_square[them]]
    BY <1>0, <2>3, SafeSeen
  <2> HIDE DEF full
  <2>6. Royal(b, a, full)
    BY <2>3, <2>4 DEF Royal
  <2>7. Strikers(made, them, king) = {} /\ king \notin KingAttacks[made.king_square[them]]
    BY <1>0, <2>4, <2>6, RoyalSafe
  <2> QED BY <2>5, <2>7
<1> HIDE DEF inRules, inCode, written, at, us, rights
<1>8. m \in CastleReach(at, us, rights) <=> ~is_check(a) /\ m \in Castles(b, a)
  BY <1>3, <1>6
<1> QED BY <1>7, <1>8 DEF at, us, rights

\* Where an officer or a king strikes, as the rules have it, is where its attack table
\* says.
LEMMA StrikesSeen ==
  ASSUME NEW at, NEW o \in Sq, NEW p \in PieceTypes \ {"PAWN"}, at[o][2] = p, NEW t
  PROVE  t \in Sq /\ Strikes(at, o, t) <=> t \in attacks(p, DOMAIN at, o)
<1>1. t \in RookLines[o] <=> t \in Sq /\ OnRookLine(o, t)
  BY DEF RookLines
<1>2. t \in BishopLines[o] <=> t \in Sq /\ OnBishopLine(o, t)
  BY DEF BishopLines
<1>3. KnightAttacks[o] \subseteq Sq /\ KingAttacks[o] \subseteq Sq
  BY DEF KnightAttacks, KingAttacks
<1>4. CASE p = "KNIGHT"
  BY <1>3, <1>4 DEF Strikes, attacks
<1>5. CASE p = "KING"
  BY <1>3, <1>5 DEF Strikes, attacks
<1>6. CASE p = "ROOK"
  BY <1>1, <1>6 DEF Strikes, attacks, rook_attacks
<1>7. CASE p = "BISHOP"
  BY <1>2, <1>7 DEF Strikes, attacks, bishop_attacks
<1>8. CASE p = "QUEEN"
  BY <1>1, <1>2, <1>8 DEF Strikes, attacks, rook_attacks, bishop_attacks
<1> QED BY <1>4, <1>5, <1>6, <1>7, <1>8 DEF PieceTypes

\* What a piece other than a pawn may do in the rules is what append_moves writes of it.
LEMMA PieceReachSeen ==
  ASSUME NEW b \in Boards, Views(b), NEW p \in PieceTypes \ {"PAWN"},
         NEW o \in pieces(b, b.whos_move, p), NEW m
  PROVE  m \in PieceReach(AtOf(b), b.whos_move, o) <=>
            \E t \in attacks(p, b.occupied_bb, o) \ b.colour_bb[b.whos_move] :
               m = Move(p, o, t, IF t \in b.occupied_bb THEN "CAPTURE" ELSE "QUIETmv")
<1> DEFINE us == b.whos_move
           occ == b.occupied_bb
           at == AtOf(b)
           written(t) == Move(p, o, t, IF t \in occ THEN "CAPTURE" ELSE "QUIETmv")
<1>1. us \in Colours /\ o \in Sq /\ b.colour_bb[us] \subseteq occ
  BY DEF Boards, Views, Colours, pieces
<1>2. DOMAIN at = occ /\ at[o][2] = p /\ \A x \in occ : at[x][1] = us <=> x \in b.colour_bb[us]
  <2>1. at[o] = <<us, p>>
    BY <1>1, BoardSeen
  <2> QED BY <1>1, <2>1, BoardSeen
<1> HIDE DEF us, occ, at
<1>3. \A t : t \in Sq /\ Strikes(at, o, t) <=> t \in attacks(p, occ, o)
  BY <1>1, <1>2, StrikesSeen
<1>4. \A t : (t \in occ => at[t][1] # us) <=> t \notin b.colour_bb[us]
  BY <1>1, <1>2
<1>5. {x \in Sq : Strikes(at, o, x) /\ (x \in DOMAIN at => at[x][1] # us)}
        = attacks(p, occ, o) \ b.colour_bb[us]
  BY <1>2, <1>3, <1>4
<1>6. PieceReach(at, us, o) = {written(t) : t \in attacks(p, occ, o) \ b.colour_bb[us]}
  BY <1>2, <1>5 DEF PieceReach
<1> QED BY <1>6 DEF us, occ, at

\* What a pawn may do in the rules: it takes, is pushed once or twice, or takes in
\* passing.
LEMMA PawnReachSeen ==
  ASSUME NEW b, NEW a, Lawful(b, a.castling_rights, a.en_passent_target),
         NEW o \in pieces(b, b.whos_move, "PAWN"), NEW m
  PROVE  LET us == b.whos_move
             occ == b.occupied_bb
         IN m \in PawnReach(AtOf(b), us, o, a.en_passent_target) <=>
              \/ \E t \in pawn_attacks(us, o) \cap b.colour_bb[Other(us)] : m \in PawnCaps(us, o, t)
              \/ /\ o + forwards(us) \notin occ
                 /\ \/ m \in PawnPushes(us, o)
                    \/ /\ rank(o) = relative_rank(us, 1) /\ o + 2 * forwards(us) \notin occ
                       /\ m = DoublePush(us, o)
              \/ /\ o \in EpOrigins(us, pieces(b, us, "PAWN"), a)
                 /\ m = Move("PAWN", o, EpTarget(us, a), "EN_PASSENT")
<1> DEFINE us == b.whos_move
           them == Other(us)
           occ == b.occupied_bb
           at == AtOf(b)
           ep == a.en_passent_target
           step == o + forwards(us)
           last == rank(o) = relative_rank(us, 6)
           first == rank(o) = relative_rank(us, 1)
           take == {t \in PawnAttacks[us][o] : t \in DOMAIN at /\ at[t][1] # us}
           push == IF step \in DOMAIN at THEN {} ELSE {step}
           jump == IF push # {} /\ first /\ step + forwards(us) \notin DOMAIN at
                   THEN {step + forwards(us)} ELSE {}
           passed == {t \in PawnAttacks[us][o] : ep # NO_FILE /\ t = Square(relative_rank(us, 5), ep)}
           become == IF last THEN {"QUEEN", "KNIGHT", "ROOK", "BISHOP"} ELSE {NO_PIECE}
           caps(t, p) == [Move("PAWN", o, t, IF last THEN "CAPTURE_PROMOTION" ELSE "CAPTURE") EXCEPT !.promoted = p]
           moves(t, p) == [Move("PAWN", o, t, IF last THEN "PROMOTION" ELSE "QUIETmv") EXCEPT !.promoted = p]
<1>0. b \in Boards /\ Views(b) /\ EpHeld(b, ep)
  BY DEF Lawful
<1>1. /\ us \in Colours /\ them \in Colours /\ them # us /\ o \in Sq /\ forwards(us) \in Int
      /\ \A t : t \in occ <=> t \in b.colour_bb[us] \/ t \in b.colour_bb[them]
      /\ b.colour_bb[us] \cap b.colour_bb[them] = {}
  BY <1>0 DEF Boards, Views, Colours, Other, pieces, forwards
<1>2. DOMAIN at = occ /\ \A x \in occ : at[x][1] = us <=> x \in b.colour_bb[us]
  BY <1>0, <1>1, BoardSeen
<1>3. PawnReach(at, us, o, ep)
        = {caps(t, p) : t \in take, p \in become} \cup {moves(t, p) : t \in push, p \in become}
          \cup {Move("PAWN", o, t, "DOUBLE_PUSH") : t \in jump}
          \cup {Move("PAWN", o, t, "EN_PASSENT") : t \in passed}
  BY DEF PawnReach
<1>4. take = pawn_attacks(us, o) \cap b.colour_bb[them]
  <2> HIDE DEF us, occ, at, them
  <2> QED BY <1>1, <1>2 DEF pawn_attacks
<1>5. \A t : {caps(t, p) : p \in become} = PawnCaps(us, o, t)
  <2>1. CASE last
    BY <2>1 DEF PawnCaps, Promotions
  <2>2. CASE ~last
    <3>1. \A t : caps(t, NO_PIECE) = Move("PAWN", o, t, "CAPTURE")
      BY <2>2 DEF Move
    <3> QED BY <2>2, <3>1 DEF PawnCaps
  <2> QED BY <2>1, <2>2
<1>6. {moves(step, p) : p \in become} = PawnPushes(us, o)
  <2>1. CASE last
    BY <2>1 DEF PawnPushes, Promotions
  <2>2. CASE ~last
    <3>1. moves(step, NO_PIECE) = Move("PAWN", o, step, "QUIETmv")
      BY <2>2 DEF Move
    <3> QED BY <2>2, <3>1 DEF PawnPushes
  <2> QED BY <2>1, <2>2
<1>7. \A t : t \in jump <=> /\ step \notin occ /\ first /\ o + 2 * forwards(us) \notin occ
                            /\ t = o + 2 * forwards(us)
  <2>1. step + forwards(us) = o + 2 * forwards(us)
    BY <1>1 DEF Sq
  <2> QED BY <1>2, <2>1
<1>8. \A t : t \in push <=> step \notin occ /\ t = step
  BY <1>2
<1>9. \A t : t \in passed <=> o \in EpOrigins(us, pieces(b, us, "PAWN"), a) /\ t = EpTarget(us, a)
  <2>1. CASE ep = NO_FILE
    BY <2>1 DEF EpOrigins
  <2>2. CASE ep # NO_FILE
    <3> DEFINE to == Square(relative_rank(us, 5), ep)
    <3>1. ep \in 0 .. 7 /\ relative_rank(us, 5) \in 0 .. 7
      BY <1>0, <2>2 DEF EpHeld, Files, relative_rank
    <3>2. to \in Sq /\ rank(to) = relative_rank(us, 5) /\ file(to) = ep
      BY <3>1, Coordinates
    <3> HIDE DEF to
    <3>3. to \in PawnAttacks[us][o] <=> relative_rank(us, 5) * 8 = rank(o) * 8 + forwards(us) /\ Dist(file(o), ep) = 1
      BY <1>1, <3>2 DEF PawnAttacks
    <3>4. relative_rank(us, 5) * 8 = rank(o) * 8 + forwards(us) <=> rank(o) = relative_rank(us, 4)
      <4>1. rank(o) \in 0 .. 7
        BY <1>1, Coordinates
      <4> QED BY <1>1, <4>1 DEF relative_rank, forwards, Colours
    <3>5. o \in EpOrigins(us, pieces(b, us, "PAWN"), a) <=> Dist(file(o), ep) = 1 /\ rank(o) = relative_rank(us, 4)
      BY <2>2 DEF EpOrigins
    <3>6. EpTarget(us, a) = to /\ \A t : t \in passed <=> t \in PawnAttacks[us][o] /\ t = to
      BY <2>2 DEF EpTarget, to
    <3> QED BY <3>3, <3>4, <3>5, <3>6
  <2> QED BY <2>1, <2>2
<1> HIDE DEF take, push, jump, passed, become, caps, moves, at, occ, them, ep
<1>10. m \in {caps(t, p) : t \in take, p \in become} <=> \E t \in take : m \in {caps(t, p) : p \in become}
  OBVIOUS
<1>11. m \in {moves(t, p) : t \in push, p \in become} <=> \E t \in push : m \in {moves(t, p) : p \in become}
  OBVIOUS
<1>12. m \in {Move("PAWN", o, t, "DOUBLE_PUSH") : t \in jump}
         <=> step \notin occ /\ first /\ o + 2 * forwards(us) \notin occ /\ m = DoublePush(us, o)
  <2> DEFINE two == o + 2 * forwards(us)
  <2>1. DoublePush(us, o) = Move("PAWN", o, two, "DOUBLE_PUSH")
    BY DEF DoublePush
  <2>2. \A t : t \in jump <=> step \notin occ /\ first /\ two \notin occ /\ t = two
    BY <1>7
  <2> HIDE DEF two, step, first
  <2>3. m \in {Move("PAWN", o, t, "DOUBLE_PUSH") : t \in jump} <=> step \notin occ /\ first /\ two \notin occ /\ m = DoublePush(us, o)
    BY <2>1, <2>2
  <2> QED BY <2>3 DEF two
<1>13. m \in {Move("PAWN", o, t, "EN_PASSENT") : t \in passed}
         <=> o \in EpOrigins(us, pieces(b, us, "PAWN"), a) /\ m = Move("PAWN", o, EpTarget(us, a), "EN_PASSENT")
  BY <1>9
<1>14. m \in {caps(t, p) : t \in take, p \in become}
         <=> \E t \in pawn_attacks(us, o) \cap b.colour_bb[them] : m \in PawnCaps(us, o, t)
  BY <1>4, <1>5, <1>10
<1>15. m \in {moves(t, p) : t \in push, p \in become} <=> step \notin occ /\ m \in PawnPushes(us, o)
  <2> HIDE DEF step
  <2> QED BY <1>6, <1>8, <1>11
<1>16. m \in PawnReach(at, us, o, ep) <=>
         \/ \E t \in pawn_attacks(us, o) \cap b.colour_bb[them] : m \in PawnCaps(us, o, t)
         \/ step \notin occ /\ m \in PawnPushes(us, o)
         \/ step \notin occ /\ first /\ o + 2 * forwards(us) \notin occ /\ m = DoublePush(us, o)
         \/ o \in EpOrigins(us, pieces(b, us, "PAWN"), a) /\ m = Move("PAWN", o, EpTarget(us, a), "EN_PASSENT")
  BY <1>3, <1>12, <1>13, <1>14, <1>15
<1> QED BY <1>16 DEF at, occ, them, ep

\* What the pieces may do in the rules, castling aside.
LEMMA ReachSeen ==
  ASSUME NEW b, NEW a, Lawful(b, a.castling_rights, a.en_passent_target), NEW m
  PROVE  LET us == b.whos_move
             at == AtOf(b)
         IN (\E o \in DOMAIN at :
                /\ at[o][1] = us
                /\ m \in IF at[o][2] = "PAWN" THEN PawnReach(at, us, o, a.en_passent_target)
                         ELSE PieceReach(at, us, o))
            <=> OfficerGoes(b, m) \/ PawnTakes(b, m) \/ PawnAdvances(b, m) \/ KingGoes(b, m)
                \/ PawnPasses(b, a, m)
<1> DEFINE us == b.whos_move
           them == Other(us)
           occ == b.occupied_bb
           at == AtOf(b)
           ks == b.king_square[us]
           ep == a.en_passent_target
           reach(o) == IF at[o][2] = "PAWN" THEN PawnReach(at, us, o, ep) ELSE PieceReach(at, us, o)
           goes(p, o) == \E t \in attacks(p, occ, o) \ b.colour_bb[us] :
                            m = Move(p, o, t, IF t \in occ THEN "CAPTURE" ELSE "QUIETmv")
           takes(o) == \E t \in pawn_attacks(us, o) \cap b.colour_bb[them] : m \in PawnCaps(us, o, t)
           advances(o) == /\ o + forwards(us) \notin occ
                          /\ \/ m \in PawnPushes(us, o)
                             \/ /\ rank(o) = relative_rank(us, 1) /\ o + 2 * forwards(us) \notin occ
                                /\ m = DoublePush(us, o)
           passes(o) == /\ o \in EpOrigins(us, pieces(b, us, "PAWN"), a)
                        /\ m = Move("PAWN", o, EpTarget(us, a), "EN_PASSENT")
<1>0. b \in Boards /\ Views(b) /\ Counted(b)
  BY DEF Lawful
<1>1. us \in Colours /\ pieces(b, us, "KING") = {ks}
  BY <1>0 DEF Boards, Counted
<1>2. /\ DOMAIN at = occ
      /\ \A o \in occ : at[o][2] \in PieceTypes /\ (at[o][1] = us => o \in pieces(b, us, at[o][2]))
  BY <1>0, <1>1, BoardSeen DEF pieces
<1>3. \A p \in PieceTypes : \A o \in pieces(b, us, p) : o \in occ /\ at[o][1] = us /\ at[o][2] = p
  BY <1>0, <1>1, BoardSeen
<1>4. ASSUME NEW p \in PieceTypes \ {"PAWN"}, NEW o \in pieces(b, us, p)
      PROVE  m \in PieceReach(at, us, o) <=> goes(p, o)
  BY <1>0, <1>4, PieceReachSeen
<1>5. ASSUME NEW o \in pieces(b, us, "PAWN")
      PROVE  m \in PawnReach(at, us, o, ep) <=> takes(o) \/ advances(o) \/ passes(o)
  BY <1>5, PawnReachSeen
<1>6. /\ OfficerGoes(b, m) <=> \E p \in Officers : \E o \in pieces(b, us, p) : goes(p, o)
      /\ PawnTakes(b, m) <=> \E o \in pieces(b, us, "PAWN") : takes(o)
      /\ PawnAdvances(b, m) <=> \E o \in pieces(b, us, "PAWN") : advances(o)
  BY DEF OfficerGoes, PawnTakes, PawnAdvances
<1>7. KingGoes(b, m) <=> goes("KING", ks)
  BY DEF KingGoes, attacks
<1>8. PawnPasses(b, a, m) <=> \E o \in pieces(b, us, "PAWN") : passes(o)
  <2>1. \A o \in EpOrigins(us, pieces(b, us, "PAWN"), a) : o \in pieces(b, us, "PAWN")
    BY DEF EpOrigins
  <2> QED BY <2>1 DEF PawnPasses
<1>9. PieceTypes = Officers \cup {"PAWN", "KING"} /\ "PAWN" \notin Officers /\ "KING" # "PAWN"
  BY DEF PieceTypes, Officers
<1> HIDE DEF goes, takes, advances, passes, at, us, ks, occ, them, ep
<1>10. (\E o \in DOMAIN at : at[o][1] = us /\ m \in reach(o))
        <=> \E p \in PieceTypes : \E o \in pieces(b, us, p) :
              m \in IF p = "PAWN" THEN PawnReach(at, us, o, ep) ELSE PieceReach(at, us, o)
  BY <1>2, <1>3
<1>11. (\E p \in PieceTypes : \E o \in pieces(b, us, p) :
           m \in IF p = "PAWN" THEN PawnReach(at, us, o, ep) ELSE PieceReach(at, us, o))
        <=> \/ \E p \in Officers : \E o \in pieces(b, us, p) : goes(p, o)
            \/ \E o \in pieces(b, us, "PAWN") : takes(o) \/ advances(o) \/ passes(o)
            \/ goes("KING", ks)
  BY <1>1, <1>4, <1>5, <1>9
<1> QED BY <1>6, <1>7, <1>8, <1>10, <1>11 DEF at, us, ep

\* The generator makes the legal moves, every one of them and no other: of a lawful
\* position, in check or not, get_moves gives what the rules of chess allow.
THEOREM GeneratesLegal ==
  ASSUME NEW b, NEW a, Lawful(b, a.castling_rights, a.en_passent_target), Informed(b, a)
  PROVE  get_moves(b, a)
           = LegalMoves(AtOf(b), b.whos_move, a.castling_rights, a.en_passent_target)
<1> DEFINE us == b.whos_move
           at == AtOf(b)
           rights == a.castling_rights
           ep == a.en_passent_target
           own == {o \in DOMAIN at : at[o][1] = us}
           reach(o) == IF at[o][2] = "PAWN" THEN PawnReach(at, us, o, ep) ELSE PieceReach(at, us, o)
           safe(m) == ~InCheck(Played(at, m), us)
<1>1. LegalMoves(at, us, rights, ep)
        = {m \in (UNION {reach(o) : o \in own}) \cup CastleReach(at, us, rights) : safe(m)}
  BY DEF LegalMoves
<1>2. ASSUME NEW m PROVE m \in UNION {reach(o) : o \in own} <=> \E o \in DOMAIN at : at[o][1] = us /\ m \in reach(o)
  <2> HIDE DEF reach
  <2> QED OBVIOUS
<1>3. ASSUME NEW m
      PROVE  m \in UNION {reach(o) : o \in own}
               <=> OfficerGoes(b, m) \/ PawnTakes(b, m) \/ PawnAdvances(b, m) \/ KingGoes(b, m)
                   \/ PawnPasses(b, a, m)
  BY <1>2, ReachSeen
<1>4. ASSUME NEW m
      PROVE  /\ OfficerGoes(b, m) \/ PawnTakes(b, m) \/ PawnAdvances(b, m) =>
                  (safe(m) <=> Keeps(b, a, m.origin, m.target))
             /\ KingGoes(b, m) => (safe(m) <=> m.target \notin a.attacked)
             /\ PawnPasses(b, a, m) => (safe(m) <=> PassesSafely(b, a, m.origin))
  BY GoesSafely
<1>5. ASSUME NEW m
      PROVE  m \in CastleReach(at, us, rights) /\ safe(m) <=> ~is_check(a) /\ m \in Castles(b, a)
  BY CastlesSafely
<1>6. ASSUME NEW m PROVE m \in get_moves(b, a) <=> Makes(b, a, m)
  BY Anatomy
<1> HIDE DEF at, us, rights, ep, own, reach, safe
<1>7. ASSUME NEW m PROVE m \in get_moves(b, a) <=> m \in LegalMoves(at, us, rights, ep)
  BY <1>1, <1>3, <1>4, <1>5, <1>6 DEF Makes
<1>8. get_moves(b, a) = LegalMoves(at, us, rights, ep)
  <2>1. /\ \A x \in get_moves(b, a) : x \in LegalMoves(at, us, rights, ep)
        /\ \A x \in LegalMoves(at, us, rights, ep) : x \in get_moves(b, a)
    BY <1>7
  <2> QED BY <2>1
<1> QED BY <1>8 DEF at, us, rights, ep

-----------------------------------------------------------------------------
(***************************************************************************)
(* gives_check.                                                            *)
(***************************************************************************)
\* Where a piece of colour c strikes k from.
Reaches(c, p, occ, k) ==
    CASE p = "PAWN" -> pawn_attacks(Other(c), k)
      [] p = "KING" -> {}
      [] OTHER -> attacks(p, occ, k)

\* What strikes a square, with the squares of occ occupied; and by type.
StrikersOver(b, c, occ, k) ==
    Leapers(b, c, k) \cup {s \in LinedUp(b, c, k) : Between[k][s] \cap occ = {}}

LEMMA ByType ==
  ASSUME NEW b, NEW c, NEW k, NEW occ, NEW x
  PROVE  x \in StrikersOver(b, c, occ, k)
           <=> \E p \in PieceTypes : x \in pieces(b, c, p) /\ x \in Reaches(c, p, occ, k)
<1>1. /\ RookLike(b, c) = pieces(b, c, "ROOK") \cup pieces(b, c, "QUEEN")
      /\ BishopLike(b, c) = pieces(b, c, "BISHOP") \cup pieces(b, c, "QUEEN")
  BY DEF RookLike, BishopLike, pieces
<1>2. /\ x \in rook_attacks(occ, k) <=> x \in RookLines[k] /\ Between[k][x] \cap occ = {}
      /\ x \in bishop_attacks(occ, k) <=> x \in BishopLines[k] /\ Between[k][x] \cap occ = {}
  BY DEF rook_attacks, bishop_attacks
<1>3. /\ Reaches(c, "PAWN", occ, k) = pawn_attacks(Other(c), k) /\ Reaches(c, "KING", occ, k) = {}
      /\ Reaches(c, "KNIGHT", occ, k) = KnightAttacks[k]
      /\ Reaches(c, "ROOK", occ, k) = rook_attacks(occ, k)
      /\ Reaches(c, "BISHOP", occ, k) = bishop_attacks(occ, k)
      /\ Reaches(c, "QUEEN", occ, k) = rook_attacks(occ, k) \cup bishop_attacks(occ, k)
  BY DEF Reaches, attacks
<1>4. (\E p \in PieceTypes : x \in pieces(b, c, p) /\ x \in Reaches(c, p, occ, k))
        <=> \/ x \in pieces(b, c, "PAWN") /\ x \in pawn_attacks(Other(c), k)
            \/ x \in pieces(b, c, "KNIGHT") /\ x \in KnightAttacks[k]
            \/ x \in pieces(b, c, "ROOK") /\ x \in rook_attacks(occ, k)
            \/ x \in pieces(b, c, "BISHOP") /\ x \in bishop_attacks(occ, k)
            \/ x \in pieces(b, c, "QUEEN") /\ (x \in rook_attacks(occ, k) \/ x \in bishop_attacks(occ, k))
  BY <1>3 DEF PieceTypes
<1> QED BY <1>1, <1>2, <1>4 DEF StrikersOver, Leapers, LinedUp

\* What strikes after a move is what has come to strike, and what was there, leapers
\* and sliders that nothing stands before any more.
LEMMA NewStrikers ==
  ASSUME NEW b \in Boards, Views(b), NEW m, Playable(b, m), NEW k \in Sq
  PROVE  LET us == b.whos_move
             made == MakeBoard(b, m)
             occ == made.occupied_bb
         IN Strikers(made, us, k) # {} <=>
              \/ m.target \in Reaches(us, Becomes(m), occ, k)
              \/ is_castle(m) /\ Castled(us, m) \in Reaches(us, "ROOK", occ, k)
              \/ \E s \in Leapers(b, us, k) : s \notin OwnLeft(us, m)
              \/ \E s \in LinedUp(b, us, k) : s \notin OwnLeft(us, m) /\ Between[k][s] \cap occ = {}
<1> DEFINE us == b.whos_move
           made == MakeBoard(b, m)
           occ == made.occupied_bb
           gone == OwnLeft(us, m)
<1>1. us \in Colours /\ "ROOK" \in PieceTypes
  BY DEF Boards, PieceTypes
<1>2. Becomes(m) \in PieceTypes
  BY DEF Playable, MadeMoves, Becomes
<1>3. ASSUME NEW p \in PieceTypes, NEW x
      PROVE  x \in pieces(made, us, p) <=> \/ x \in pieces(b, us, p) /\ x \notin gone
                                           \/ x = m.target /\ p = Becomes(m)
                                           \/ is_castle(m) /\ x = Castled(us, m) /\ p = "ROOK"
  <2>1. pieces(made, us, p) = (pieces(b, us, p) \ Left(us, m, us, p)) \cup Filled(us, m, us, p)
    BY <1>1, MadeBoard
  <2>2. /\ m.moving_piece \in PieceTypes /\ m.origin \in pieces(b, us, m.moving_piece)
        /\ is_castle(m) => Home(us, m) \in pieces(b, us, "ROOK")
    BY DEF Playable, MadeMoves
  <2>3. \A q, r \in PieceTypes : q # r => pieces(b, us, q) \cap pieces(b, us, r) = {}
    BY DEF Views, pieces
  <2>4. x \in pieces(b, us, p) => (x \in Left(us, m, us, p) <=> x \in gone)
    BY <1>1, <2>2, <2>3 DEF Left, OwnLeft
  <2>5. x \in Filled(us, m, us, p) <=> \/ x = m.target /\ p = Becomes(m)
                                       \/ is_castle(m) /\ x = Castled(us, m) /\ p = "ROOK"
    BY DEF Filled
  <2> HIDE DEF us, made, gone
  <2> QED BY <2>1, <2>4, <2>5
<1>4. \A x : x \in Strikers(made, us, k)
               <=> \E p \in PieceTypes : x \in pieces(made, us, p) /\ x \in Reaches(us, p, occ, k)
  <2>1. Strikers(made, us, k) = StrikersOver(made, us, occ, k)
    BY DEF Strikers, StrikersOver
  <2> HIDE DEF us, made, occ
  <2> QED BY <2>1, ByType
<1>5. \A x : (x \in Leapers(b, us, k) \/ (x \in LinedUp(b, us, k) /\ Between[k][x] \cap occ = {}))
               <=> \E p \in PieceTypes : x \in pieces(b, us, p) /\ x \in Reaches(us, p, occ, k)
  <2> HIDE DEF us, made, occ
  <2>1. \A x : x \in StrikersOver(b, us, occ, k)
                 <=> \E p \in PieceTypes : x \in pieces(b, us, p) /\ x \in Reaches(us, p, occ, k)
    BY ByType
  <2>2. \A x : x \in StrikersOver(b, us, occ, k)
                 <=> x \in Leapers(b, us, k) \/ (x \in LinedUp(b, us, k) /\ Between[k][x] \cap occ = {})
    BY DEF StrikersOver
  <2> QED BY <2>1, <2>2
<1> DEFINE R(p) == Reaches(us, p, occ, k)
           Sees(x) == x \in Leapers(b, us, k) \/ (x \in LinedUp(b, us, k) /\ Between[k][x] \cap occ = {})
<1>6. /\ \A x : x \in Strikers(made, us, k) <=> \E p \in PieceTypes : x \in pieces(made, us, p) /\ x \in R(p)
      /\ \A x : Sees(x) <=> \E p \in PieceTypes : x \in pieces(b, us, p) /\ x \in R(p)
  BY <1>4, <1>5
<1>7. (\E x : Sees(x) /\ x \notin gone) <=>
        \/ \E s \in Leapers(b, us, k) : s \notin gone
        \/ \E s \in LinedUp(b, us, k) : s \notin gone /\ Between[k][s] \cap occ = {}
  OBVIOUS
<1> HIDE DEF R, Sees, us, made, occ, gone
<1>8. Strikers(made, us, k) # {} <=>
        \/ m.target \in R(Becomes(m))
        \/ is_castle(m) /\ Castled(us, m) \in R("ROOK")
        \/ \E x : Sees(x) /\ x \notin gone
  BY <1>1, <1>2, <1>3, <1>6
<1> QED BY <1>7, <1>8 DEF R, us, made, occ, gone

\* Three squares on a line, and that it is the same line.
LEMMA OneLine ==
  ASSUME NEW k \in Sq, NEW s \in Sq, NEW o \in Between[k][s], NEW t \in Sq, t # o
  PROVE  Line[o][k] = Line[o][t] <=> t \in Line[k][o]
<1>1. o \in Sq /\ o # k /\ Inside(k, s, o)
  BY Rays, Btw
<1>c. /\ rank(s) \in 0 .. 7 /\ file(s) \in 0 .. 7 /\ rank(k) \in 0 .. 7 /\ file(k) \in 0 .. 7
      /\ rank(o) \in 0 .. 7 /\ file(o) \in 0 .. 7 /\ rank(t) \in 0 .. 7 /\ file(t) \in 0 .. 7
  BY <1>1, Coordinates
<1>d. (rank(o) # rank(k) \/ file(o) # file(k)) /\ (rank(o) # rank(t) \/ file(o) # file(t))
  BY <1>1, Coordinates
<1>2. Aligned(o, k, k)
  BY <1>1, <1>c DEF Inside, Aligned, Strictly
<1>3. Line[o][k] \subseteq Sq /\ Line[o][t] \subseteq Sq /\ Line[k][o] \subseteq Sq
  BY <1>1 DEF Line, RookLines, BishopLines
<1>4. Aligned(o, t, k) => Aligned(k, o, t)
  BY <1>c DEF Aligned
<1>5. ASSUME Aligned(k, o, t), NEW q \in Sq PROVE Aligned(o, k, q) <=> Aligned(o, t, q)
  <2>1. rank(q) \in 0 .. 7 /\ file(q) \in 0 .. 7
    BY Coordinates
  <2> QED BY <1>5, <1>c, <1>d, <2>1 DEF Aligned
<1>6. ASSUME Line[o][k] = Line[o][t] PROVE t \in Line[k][o]
  <2>1. k \in Line[o][t]
    BY <1>1, <1>2, <1>6, Ln
  <2> QED BY <1>1, <1>4, <2>1, Ln
<1>7. ASSUME t \in Line[k][o] PROVE Line[o][k] = Line[o][t]
  <2>1. Aligned(k, o, t)
    BY <1>1, <1>7, Ln
  <2>2. \A q \in Sq : q \in Line[o][k] <=> q \in Line[o][t]
    BY <1>1, <1>5, <2>1, Ln
  <2> QED BY <1>3, <2>2
<1> QED BY <1>6, <1>7

\* A piece that stood alone before a slider of its own opens the line when it goes to
\* another.
LEMMA Discovered ==
  ASSUME NEW b \in Boards, Views(b), Counted(b), Safe(b),
         NEW o \in b.colour_bb[b.whos_move], NEW t \in Sq,
         t # o, t \notin b.colour_bb[b.whos_move], t # b.king_square[Other(b.whos_move)],
         Between[o][t] \cap b.occupied_bb = {}
  PROVE  LET us == b.whos_move
             kt == b.king_square[Other(us)]
         IN (\E s \in LinedUp(b, us, kt) :
                s # o /\ Between[kt][s] \cap ((b.occupied_bb \ {o}) \cup {t}) = {})
            <=> o \in Blockers(b) /\ Line[o][kt] # Line[o][t]
<1> DEFINE us == b.whos_move
           kt == b.king_square[Other(us)]
           occ == b.occupied_bb
<1>1. /\ us \in Colours /\ Other(us) \in Colours /\ kt \in Sq /\ o \in Sq /\ o \in occ
      /\ b.colour_bb[us] \subseteq occ /\ b.colour_bb[us] \subseteq Sq
      /\ kt \in b.colour_bb[Other(us)] /\ kt \in occ /\ kt # o
  <2>1. us \in Colours /\ Other(us) \in Colours /\ Other(us) # us
    BY DEF Boards, Colours, Other
  <2>2. kt \in Sq /\ kt \in pieces(b, Other(us), "KING")
    BY <2>1 DEF Boards, Counted
  <2> QED BY <2>1, <2>2 DEF Views, Colours, pieces, Boards
<1>2. Blockers(b) = Shields(b, kt, us, us)
  BY DEF Blockers
<1>3. \A s \in LinedUp(b, us, kt) : s \in Sq /\ s \in b.colour_bb[us]
  BY <1>1, CheckersKnown
<1>4. \A s \in LinedUp(b, us, kt) : Between[kt][s] \cap occ # {}
  BY DEF Safe, Strikers
<1> HIDE DEF us, kt, occ
<1>5. ASSUME NEW s \in LinedUp(b, us, kt), s # o, Between[kt][s] \cap ((occ \ {o}) \cup {t}) = {}
      PROVE  o \in Blockers(b) /\ Line[o][kt] # Line[o][t]
  <2>0. Between[kt][s] \cap occ # {}
    BY <1>4
  <2> DEFINE B == Between[kt][s]
  <2>1. Between[kt][s] \cap occ = {o} /\ t \notin Between[kt][s] /\ s \in Sq
    <3>1. B \cap occ # {} /\ B \cap ((occ \ {o}) \cup {t}) = {} /\ s \in Sq
      BY <1>3, <1>5, <2>0
    <3> HIDE DEF B
    <3>2. \A x \in B \cap occ : x = o
      BY <3>1
    <3>3. B \cap occ = {o} /\ t \notin B
      BY <3>1, <3>2
    <3> QED BY <3>1, <3>3 DEF B
  <2>2. o \in Blockers(b)
    BY <1>1, <1>2, <2>1, Struck DEF us, occ
  <2>3. ASSUME t \in Line[kt][o] PROVE FALSE
    <3>1. t \in {o, kt, s} \/ t \in Between[kt][s] \/ s \in Between[o][t] \/ kt \in Between[o][t]
      BY <1>1, <2>1, <2>3, Rays
    <3>2. t # s /\ s \in occ
      BY <1>1, <1>3 DEF us
    <3> QED BY <1>1, <2>1, <3>1, <3>2 DEF us, kt, occ
  <2>4. o \in Between[kt][s]
    BY <2>1
  <2> QED BY <1>1, <2>1, <2>2, <2>3, <2>4, OneLine
<1>6. ASSUME o \in Blockers(b), Line[o][kt] # Line[o][t]
      PROVE  \E s \in LinedUp(b, us, kt) : s # o /\ Between[kt][s] \cap ((occ \ {o}) \cup {t}) = {}
  <2>1. PICK s \in LinedUp(b, us, kt) : Between[kt][s] \cap occ = {o}
    BY <1>1, <1>2, <1>6, Alone DEF occ
  <2>2. s \in Sq /\ o \in Between[kt][s] /\ s # o
    BY <1>1, <1>3, <2>1, Rays
  <2>3. t \notin Line[kt][o]
    BY <1>1, <1>6, <2>2, OneLine
  <2>4. t \notin Between[kt][s]
    BY <1>1, <2>2, <2>3, OnTheRay
  <2> QED BY <2>1, <2>2, <2>4
<1> QED BY <1>5, <1>6 DEF us, kt, occ

\* gives_check foresees the checks of a move, castling and captures en passant aside.
LEMMA PlainChecks ==
  ASSUME NEW b, NEW a, Lawful(b, a.castling_rights, a.en_passent_target), Informed(b, a),
         NEW m, Playable(b, m), m.type # "EN_PASSENT", ~is_castle(m),
         Between[m.origin][m.target] \cap b.occupied_bb = {},
         is_promotion(m) => rank(m.target) = relative_rank(b.whos_move, 7)
  PROVE  gives_check(b, a, m)
           <=> Strikers(MakeBoard(b, m), b.whos_move, b.king_square[Other(b.whos_move)]) # {}
<1> DEFINE us == b.whos_move
           them == Other(us)
           kt == b.king_square[them]
           occ == b.occupied_bb
           made == MakeBoard(b, m)
           now == made.occupied_bb
           o == m.origin
           t == m.target
           p == m.moving_piece
           q == Becomes(m)
<1>0. /\ b \in Boards /\ Views(b) /\ Counted(b) /\ Safe(b)
      /\ a.check_squares = CheckSquares(b) /\ a.blockers = Blockers(b)
  BY DEF Lawful, Informed
<1>1. /\ us \in Colours /\ them \in Colours /\ them # us /\ Other(them) = us
      /\ kt \in Sq /\ kt \in pieces(b, them, "KING") /\ kt \in b.colour_bb[them]
  BY <1>0 DEF Boards, Colours, Other, Counted, pieces
<1>2. /\ o \in b.colour_bb[us] /\ o \in Sq /\ t \in Sq /\ o # t /\ t \notin b.colour_bb[us]
      /\ b.colour_bb[us] \subseteq occ /\ b.colour_bb[them] \subseteq occ
      /\ now = (occ \ (OwnLeft(us, m) \cup TheirsLost(m))) \cup OwnFilled(us, m)
  BY <1>0, <1>1, OccupiedMoved
<1>3. OwnLeft(us, m) = {o} /\ OwnFilled(us, m) = {t} /\ TheirsLost(m) \subseteq {t}
  BY DEF OwnLeft, OwnFilled, TheirsLost, TakenSquare
<1>4. now = (occ \ {o}) \cup {t} /\ Xor(occ, {o}) = occ \ {o}
  BY <1>2, <1>3 DEF Xor
<1>5. t # kt
  <2>1. CASE is_capture(m)
    <3>1. t \in pieces(b, them, m.captured_piece) /\ m.captured_piece # "KING" /\ m.captured_piece \in PieceTypes
      BY <2>1 DEF Playable, MadeMoves, TakenSquare
    <3> QED BY <1>0, <1>1, <3>1 DEF Views, pieces, PieceTypes
  <2>2. CASE ~is_capture(m)
    BY <1>1, <1>2, <2>2 DEF Playable
  <2> QED BY <2>1, <2>2
<1>6. p \in PieceTypes /\ q \in PieceTypes /\ o \in pieces(b, us, p)
      /\ (is_promotion(m) => p = "PAWN" /\ q = m.promoted /\ q \in PieceTypes \ {"PAWN", "KING"})
      /\ (~is_promotion(m) => q = p)
  BY DEF Playable, MadeMoves, Becomes
<1>7. Strikers(made, us, kt) # {} <=>
        \/ t \in Reaches(us, q, now, kt)
        \/ \E s \in Leapers(b, us, kt) : s # o
        \/ \E s \in LinedUp(b, us, kt) : s # o /\ Between[kt][s] \cap now = {}
  BY <1>0, <1>1, <1>3, NewStrikers
<1>8. Leapers(b, us, kt) = {} /\ \A s \in LinedUp(b, us, kt) : Between[kt][s] \cap occ # {}
  BY <1>0 DEF Safe, Strikers
<1>9. (\E s \in LinedUp(b, us, kt) : s # o /\ Between[kt][s] \cap now = {})
        <=> o \in Blockers(b) /\ Line[o][kt] # Line[o][t]
  BY <1>0, <1>1, <1>2, <1>4, <1>5, Discovered
<1>10. Discovers(b, a, m) <=> o \in Blockers(b) /\ Line[o][kt] # Line[o][t]
  BY <1>0 DEF Discovers
<1>11. \A r \in PieceTypes : a.check_squares[r] = Reaches(us, r, occ, kt)
  BY <1>0 DEF CheckSquares, Reaches
<1>12. t \notin Between[kt][t]
  BY <1>1, <1>2, Rays
<1> HIDE DEF us, them, kt, occ, made, now, o, t, p, q
<1>13. \A r \in PieceTypes \ {"PAWN", "KING"} :
          /\ Reaches(us, r, now, kt) = attacks(r, now, kt) /\ Reaches(us, r, occ, kt) = attacks(r, occ, kt)
          /\ t \in attacks(r, now, kt) <=> t \in attacks(r, occ \ {o}, kt)
          /\ t \in attacks(r, occ, kt) => t \in attacks(r, occ \ {o}, kt)
  <2>1. \A r \in PieceTypes \ {"PAWN", "KING"} :
          Reaches(us, r, now, kt) = attacks(r, now, kt) /\ Reaches(us, r, occ, kt) = attacks(r, occ, kt)
    BY DEF Reaches, PieceTypes
  <2>2. /\ Between[kt][t] \cap now = {} <=> Between[kt][t] \cap (occ \ {o}) = {}
        /\ Between[kt][t] \cap occ = {} => Between[kt][t] \cap (occ \ {o}) = {}
    BY <1>4, <1>12
  <2>3. \A r \in PieceTypes \ {"PAWN", "KING"} :
          /\ t \in attacks(r, now, kt) <=> t \in attacks(r, occ \ {o}, kt)
          /\ t \in attacks(r, occ, kt) => t \in attacks(r, occ \ {o}, kt)
    BY <2>2 DEF PieceTypes, attacks, rook_attacks, bishop_attacks
  <2> QED BY <2>1, <2>3
\* A slider that comes from its own line gave check already.
<1>14. ASSUME p \in PieceTypes \ {"PAWN", "KING"}, t \in attacks(p, occ \ {o}, kt)
       PROVE  t \in attacks(p, occ, kt)
  <2>1. CASE p = "KNIGHT"
    BY <1>14, <2>1 DEF attacks
  <2>2. CASE p # "KNIGHT"
    <3>1. /\ Between[kt][t] \cap (occ \ {o}) = {}
          /\ \/ t \in RookLines[kt] /\ p \in {"ROOK", "QUEEN"}
             \/ t \in BishopLines[kt] /\ p \in {"BISHOP", "QUEEN"}
      BY <1>14, <2>2 DEF attacks, rook_attacks, bishop_attacks, PieceTypes
    <3>2. ASSUME o \in Between[kt][t] PROVE FALSE
      <4>1. /\ Between[kt][o] \subseteq Between[kt][t] \ {o}
            /\ t \in RookLines[kt] => o \in RookLines[kt]
            /\ t \in BishopLines[kt] => o \in BishopLines[kt]
        BY <1>1, <1>2, <3>2, Rays
      <4>2. /\ p \in {"ROOK", "QUEEN"} => o \in RookLike(b, us)
            /\ p \in {"BISHOP", "QUEEN"} => o \in BishopLike(b, us)
        BY <1>6 DEF RookLike, BishopLike, pieces
      <4>3. o \in LinedUp(b, us, kt)
        BY <3>1, <4>1, <4>2 DEF LinedUp
      <4> QED BY <1>8, <3>1, <4>1, <4>3
    <3>3. Between[kt][t] \cap occ = {}
      BY <3>1, <3>2
    <3> QED BY <3>1, <3>3 DEF attacks, rook_attacks, bishop_attacks
  <2> QED BY <2>1, <2>2
<1>15. ~is_promotion(m) => (t \in Reaches(us, q, now, kt) <=> t \in a.check_squares[p])
  <2>1. CASE ~is_promotion(m) /\ p \in {"PAWN", "KING"}
    BY <1>6, <1>11, <2>1 DEF Reaches, PieceTypes
  <2>2. CASE ~is_promotion(m) /\ p \notin {"PAWN", "KING"}
    BY <1>6, <1>11, <1>13, <1>14, <2>2
  <2> QED BY <2>1, <2>2
<1>16. is_promotion(m) => (t \in Reaches(us, q, now, kt) <=> PromotionChecks(b, a, m))
  BY <1>4, <1>6, <1>11, <1>13 DEF PromotionChecks, us, them, kt, occ, o, t
<1>17. is_promotion(m) => t \notin a.check_squares[p]
  <2> HAVE is_promotion(m)
  <2>1. a.check_squares[p] = pawn_attacks(them, kt)
    BY <1>6, <1>11 DEF Reaches, PieceTypes, them
  <2>2. rank(t) = relative_rank(us, 7) /\ rank(t) \in 0 .. 7 /\ rank(kt) \in 0 .. 7
    BY <1>1, <1>2, Coordinates DEF us, t
  <2>3. t \in pawn_attacks(them, kt) => rank(t) = rank(kt) + (forwards(them) \div 8)
    BY <1>1, Steps
  <2> QED BY <1>1, <2>1, <2>2, <2>3 DEF relative_rank, forwards, them, Other, Colours
<1>18. ~is_promotion(m) => ~PromotionChecks(b, a, m)
  BY DEF PromotionChecks
<1>19. ~CastleChecks(b, a, m) /\ ~EpChecks(b, a, m)
  BY DEF CastleChecks, EpChecks
<1>20. gives_check(b, a, m) <=> \/ t \in a.check_squares[p] \/ PromotionChecks(b, a, m)
                                \/ o \in Blockers(b) /\ Line[o][kt] # Line[o][t]
  BY <1>10, <1>19 DEF gives_check, t, p
<1> QED BY <1>7, <1>8, <1>9, <1>15, <1>16, <1>17, <1>18, <1>20 DEF us, them, kt, made

\* The squares of castling and a slider's line: the rook's corner is on none; one that
\* runs through the king's square runs along the rank only if it ends among them, or at
\* the rook; and none comes from beyond to where the rook goes.
LEMMA CastlingRays ==
  ASSUME NEW c \in Colours, NEW side \in Sides, NEW k \in Sq,
         k \notin castle_blocks(c, side), k # RookSquares(c, side)
  PROVE  /\ KingSquare(c) # KingCastleSquare(c, side)
         /\ \A s \in Sq : RookSquares(c, side) \notin Between[k][s]
         /\ \A s \in Sq : s \notin castle_blocks(c, side) /\ s # RookSquares(c, side)
               /\ KingSquare(c) \in Between[k][s] =>
                    /\ KingCastleSquare(c, side) \notin Line[k][KingSquare(c)]
                    /\ RookCastleSquares(c, side) \notin Line[k][KingSquare(c)]
         /\ KingSquare(c) \in Between[k][RookSquares(c, side)] =>
               KingCastleSquare(c, side) \in Line[k][KingSquare(c)]
         /\ KingCastleSquare(c, side) \notin Between[k][RookCastleSquares(c, side)]
<1> DEFINE r == BackRank(c)
           rf == IF side = "KINGSIDE" THEN 7 ELSE 0
           tf == IF side = "KINGSIDE" THEN 6 ELSE 2
           cf == IF side = "KINGSIDE" THEN 5 ELSE 3
           blocked == IF side = "KINGSIDE" THEN {5, 6} ELSE {1, 2, 3}
           K == KingSquare(c)
           T == KingCastleSquare(c, side)
           C == RookCastleSquares(c, side)
           H == RookSquares(c, side)
<1>1. r \in {0, 7}
  BY DEF BackRank, relative_rank
<1>2. /\ K \in Sq /\ rank(K) = r /\ file(K) = 4
      /\ H \in Sq /\ rank(H) = r /\ file(H) = rf
      /\ T \in Sq /\ rank(T) = r /\ file(T) = tf
      /\ C \in Sq /\ rank(C) = r /\ file(C) = cf
  BY <1>1, Coordinates DEF KingSquare, RookSquares, RookCastleSquares, KingCastleSquare
<1>3. ASSUME NEW q \in Sq, q \notin castle_blocks(c, side), q # H, rank(q) = r
      PROVE  file(q) \notin blocked /\ file(q) # rf
  <2>1. q = Square(r, file(q)) /\ file(q) \in 0 .. 7
    BY <1>3, Coordinates DEF Square
  <2>2. file(q) # rf
    BY <1>2, <1>3, Coordinates
  <2>3. castle_blocks(c, side) = {Square(r, f) : f \in blocked}
    BY DEF castle_blocks
  <2> HIDE DEF r, blocked
  <2> QED BY <1>3, <2>1, <2>2, <2>3
<1>4. \/ side = "KINGSIDE" /\ rf = 7 /\ tf = 6 /\ cf = 5 /\ blocked = {5, 6}
      \/ side = "QUEENSIDE" /\ rf = 0 /\ tf = 2 /\ cf = 3 /\ blocked = {1, 2, 3}
  BY DEF Sides
<1>5. rank(k) \in 0 .. 7 /\ file(k) \in 0 .. 7 /\ k \notin castle_blocks(c, side) /\ k # H
  BY Coordinates
<1> HIDE DEF r, rf, tf, cf, blocked, K, T, C, H
<1>6. K # T /\ K # H /\ K # C
  BY <1>2, <1>4
<1>7. ASSUME NEW s \in Sq PROVE H \notin Between[k][s]
  <2>1. rank(s) \in 0 .. 7 /\ file(s) \in 0 .. 7
    BY Coordinates
  <2>2. ~Inside(k, s, H)
    BY <1>1, <1>2, <1>4, <1>5, <2>1 DEF Inside, Aligned, Strictly
  <2> QED BY <1>2, <2>2, Btw
<1>8. ASSUME NEW s \in Sq, s \notin castle_blocks(c, side), s # H, K \in Between[k][s],
             NEW x \in {T, C}
      PROVE  x \notin Line[k][K]
  <2> SUFFICES ASSUME x \in Line[k][K] PROVE FALSE
    OBVIOUS
  <2>1. rank(s) \in 0 .. 7 /\ file(s) \in 0 .. 7
    BY Coordinates
  <2>2. x \in Sq /\ rank(x) = r /\ file(x) \in 0 .. 7 /\ file(x) # 4
    BY <1>2, <1>4
  <2>3. Inside(k, s, K) /\ Aligned(k, K, x) /\ k # K
    BY <1>2, <1>8, <2>2, Btw, Ln, Rays
  <2>4. rank(k) = r /\ rank(s) = r /\ Strictly(4, file(k), file(s))
    <3>1. rank(k) = r
      BY <1>1, <1>2, <1>5, <2>2, <2>3 DEF Aligned
    <3> QED BY <1>1, <1>2, <1>5, <2>1, <2>3, <3>1 DEF Inside, Aligned, Strictly
  <2>5. file(k) \notin blocked /\ file(k) # rf /\ file(s) \notin blocked /\ file(s) # rf
    BY <1>3, <1>5, <1>8, <2>4
  <2> QED BY <1>4, <1>5, <2>1, <2>4, <2>5 DEF Strictly
<1>9. ASSUME K \in Between[k][H] PROVE T \in Line[k][K]
  <2>1. Inside(k, H, K) /\ k # K
    BY <1>2, <1>9, Btw, Rays
  <2>2. Aligned(k, K, T)
    BY <1>1, <1>2, <1>4, <1>5, <2>1 DEF Inside, Aligned, Strictly
  <2> QED BY <1>2, <2>1, <2>2, Ln
<1>10. T \notin Between[k][C]
  <2> SUFFICES ASSUME Inside(k, C, T) PROVE FALSE
    BY <1>2, Btw
  <2>1. rank(k) = r
    BY <1>1, <1>2, <1>4, <1>5 DEF Inside, Aligned, Strictly
  <2>2. file(k) \notin blocked /\ file(k) # rf
    BY <1>3, <1>5, <2>1
  <2>3. Strictly(tf, file(k), cf)
    BY <1>1, <1>2, <1>4, <1>5, <2>1 DEF Inside, Strictly
  <2> QED BY <1>4, <1>5, <2>2, <2>3 DEF Strictly
<1> QED BY <1>6, <1>7, <1>8, <1>9, <1>10 DEF K, T, C, H

\* gives_check foresees the checks of castling, by the rook or by what stood behind the
\* king.
LEMMA CastlingChecks ==
  ASSUME NEW b, NEW a, Lawful(b, a.castling_rights, a.en_passent_target), Informed(b, a),
         NEW m, Playable(b, m), is_castle(m),
         castle_blocks(b.whos_move, get_castleside(m)) \cap b.occupied_bb = {}
  PROVE  gives_check(b, a, m)
           <=> Strikers(MakeBoard(b, m), b.whos_move, b.king_square[Other(b.whos_move)]) # {}
<1> DEFINE us == b.whos_move
           them == Other(us)
           kt == b.king_square[them]
           occ == b.occupied_bb
           made == MakeBoard(b, m)
           now == made.occupied_bb
           side == get_castleside(m)
           K == KingSquare(us)
           T == KingCastleSquare(us, side)
           C == RookCastleSquares(us, side)
           H == RookSquares(us, side)
<1>0. /\ b \in Boards /\ Views(b) /\ Counted(b) /\ Safe(b)
      /\ a.check_squares = CheckSquares(b) /\ a.blockers = Blockers(b)
  BY DEF Lawful, Informed
<1>1. /\ us \in Colours /\ them \in Colours /\ them # us /\ Other(them) = us
      /\ kt \in Sq /\ kt \in b.colour_bb[them]
      /\ b.colour_bb[us] \subseteq occ /\ b.colour_bb[them] \subseteq occ
      /\ b.colour_bb[us] \cap b.colour_bb[them] = {}
  BY <1>0 DEF Boards, Colours, Other, Counted, pieces, Views
<1>2. /\ m.moving_piece = "KING" /\ m.origin = K /\ m.target = T /\ side \in Sides
      /\ ~is_promotion(m) /\ ~is_capture(m) /\ m.type # "EN_PASSENT" /\ Becomes(m) = "KING"
      /\ Home(us, m) = H /\ Castled(us, m) = C /\ H \in pieces(b, us, "ROOK")
  BY DEF Playable, is_castle, is_promotion, is_capture, Becomes, get_castleside, Sides, Home, Castled
<1>3. /\ K \in Sq /\ T \in Sq /\ C \in Sq /\ H \in Sq /\ K \in b.colour_bb[us] /\ H \in b.colour_bb[us]
      /\ T \notin occ /\ C \notin occ
  BY <1>1, <1>2, CastlingLines DEF Playable, pieces
<1>4. OwnLeft(us, m) = {K, H} /\ OwnFilled(us, m) = {T, C} /\ TheirsLost(m) = {}
  BY <1>2 DEF OwnLeft, OwnFilled, TheirsLost
<1>5. now = (occ \ {K, H}) \cup {T, C} /\ Xor(occ, {K, T}) = (occ \ {K}) \cup {T}
  <2>1. now = (occ \ (OwnLeft(us, m) \cup TheirsLost(m))) \cup OwnFilled(us, m)
    BY <1>0, OccupiedMoved
  <2> QED BY <1>1, <1>3, <1>4, <2>1 DEF Xor
<1>6. kt \notin castle_blocks(us, side) /\ kt # H
  BY <1>1, <1>3
<1>7. Leapers(b, us, kt) = {} /\ \A s \in LinedUp(b, us, kt) : Between[kt][s] \cap occ # {}
  BY <1>0 DEF Safe, Strikers
<1>8. \A s \in LinedUp(b, us, kt) : /\ s \in Sq /\ s \in b.colour_bb[us] /\ s \in occ
                                    /\ s \notin castle_blocks(us, side)
  BY <1>0, <1>1, CheckersKnown
<1>9. Strikers(made, us, kt) # {} <=>
        \/ C \in Reaches(us, "ROOK", now, kt)
        \/ \E s \in LinedUp(b, us, kt) : s \notin {K, H} /\ Between[kt][s] \cap now = {}
  <2>1. Strikers(made, us, kt) # {} <=>
          \/ m.target \in Reaches(us, Becomes(m), now, kt)
          \/ is_castle(m) /\ Castled(us, m) \in Reaches(us, "ROOK", now, kt)
          \/ \E s \in Leapers(b, us, kt) : s \notin OwnLeft(us, m)
          \/ \E s \in LinedUp(b, us, kt) : s \notin OwnLeft(us, m) /\ Between[kt][s] \cap now = {}
    BY <1>0, <1>1, NewStrikers
  <2>2. Reaches(us, "KING", now, kt) = {}
    BY DEF Reaches
  <2> QED BY <1>2, <1>4, <1>7, <2>1, <2>2
<1>10. Blockers(b) = Shields(b, kt, us, us)
  BY DEF Blockers
<1>11. Discovers(b, a, m) <=> K \in Blockers(b) /\ Line[K][kt] # Line[K][T]
  BY <1>0, <1>2 DEF Discovers
<1>12. CastleChecks(b, a, m) <=> \/ C \in rook_attacks(occ, kt)
                                 \/ C \in rook_attacks((occ \ {K}) \cup {T}, kt)
  <2>1. a.check_squares["ROOK"] = rook_attacks(occ, kt)
    BY <1>0 DEF CheckSquares, attacks, PieceTypes
  <2> QED BY <1>2, <1>5, <2>1 DEF CastleChecks
<1>13. gives_check(b, a, m) <=> Discovers(b, a, m) \/ CastleChecks(b, a, m)
  <2>1. a.check_squares["KING"] = {}
    BY <1>0 DEF CheckSquares, PieceTypes
  <2> QED BY <1>2, <2>1 DEF gives_check, PromotionChecks, EpChecks
<1>14. /\ K # T
       /\ \A s \in Sq : H \notin Between[kt][s]
       /\ \A s \in Sq : s \notin castle_blocks(us, side) /\ s # H /\ K \in Between[kt][s] =>
                          T \notin Line[kt][K] /\ C \notin Line[kt][K]
       /\ K \in Between[kt][H] => T \in Line[kt][K]
       /\ T \notin Between[kt][C]
  BY <1>1, <1>2, <1>6, CastlingRays
<1>15. C \notin Between[kt][C]
  BY <1>1, <1>3, Rays
<1>16. \A s \in LinedUp(b, us, kt) : Between[kt][s] \cap occ = {K} => K \in Blockers(b)
  BY <1>0, <1>1, <1>3, <1>10, Struck
<1>17. K \in Blockers(b) => \E s \in LinedUp(b, us, kt) : Between[kt][s] \cap occ = {K}
  BY <1>0, <1>1, <1>10, Alone
<1>18. \A s \in Sq : K \in Between[kt][s] => s # K /\ (Line[K][kt] = Line[K][T] <=> T \in Line[kt][K])
  BY <1>1, <1>3, <1>14, Rays, OneLine
<1>19. \A s \in Sq : K \in Between[kt][s] => Between[kt][s] \subseteq Line[kt][K]
  BY <1>1, OnTheRay
<1> HIDE DEF us, them, kt, occ, made, now, side, K, T, C, H
<1>20. ASSUME NEW s \in LinedUp(b, us, kt), s \notin {K, H}, Between[kt][s] \cap now = {}
       PROVE  K \in Blockers(b) /\ Line[K][kt] # Line[K][T]
  <2>1. Between[kt][s] \cap occ \subseteq {K}
    BY <1>5, <1>8, <1>14, <1>20
  <2>2. Between[kt][s] \cap occ = {K} /\ K \in Between[kt][s] /\ s \in Sq
    BY <1>7, <1>8, <2>1
  <2>3. T \notin Line[kt][K]
    BY <1>8, <1>14, <1>20, <2>2
  <2> QED BY <1>16, <1>18, <2>2, <2>3
<1>21. ASSUME K \in Blockers(b), Line[K][kt] # Line[K][T]
       PROVE  \E s \in LinedUp(b, us, kt) : s \notin {K, H} /\ Between[kt][s] \cap now = {}
  <2>1. PICK s \in LinedUp(b, us, kt) : Between[kt][s] \cap occ = {K}
    BY <1>17, <1>21
  <2>2. s \in Sq /\ K \in Between[kt][s] /\ s # K
    BY <1>8, <1>18, <2>1
  <2>3. T \notin Line[kt][K]
    BY <1>18, <1>21, <2>2
  <2>4. s # H
    BY <1>14, <2>2, <2>3
  <2>5. C \notin Line[kt][K]
    BY <1>8, <1>14, <2>2, <2>4
  <2>6. T \notin Between[kt][s] /\ C \notin Between[kt][s]
    BY <1>19, <2>2, <2>3, <2>5
  <2>7. Between[kt][s] \cap now = {}
    BY <1>5, <2>1, <2>6
  <2> QED BY <2>2, <2>4, <2>7
<1>22. C \in Reaches(us, "ROOK", now, kt) <=> CastleChecks(b, a, m)
  <2>1. Reaches(us, "ROOK", now, kt) = rook_attacks(now, kt)
    BY DEF Reaches, attacks
  <2>2. Between[kt][C] \cap now = {} <=> Between[kt][C] \cap ((occ \ {K}) \cup {T}) = {}
    BY <1>3, <1>5, <1>14, <1>15
  <2>3. Between[kt][C] \cap occ = {} => Between[kt][C] \cap ((occ \ {K}) \cup {T}) = {}
    BY <1>14
  <2> QED BY <1>12, <2>1, <2>2, <2>3 DEF rook_attacks
<1> QED BY <1>9, <1>11, <1>13, <1>20, <1>21, <1>22 DEF us, them, kt, made

\* How a generated move goes, for gives_check: a castling over empty squares, any other
\* with nothing in its way, and a promotion to the last rank.
LEMMA MovesGoClear ==
  ASSUME NEW b, NEW a, Lawful(b, a.castling_rights, a.en_passent_target), Informed(b, a),
         NEW m \in get_moves(b, a), m.type # "EN_PASSENT"
  PROVE  /\ is_castle(m) =>
              castle_blocks(b.whos_move, get_castleside(m)) \cap b.occupied_bb = {}
         /\ ~is_castle(m) => Between[m.origin][m.target] \cap b.occupied_bb = {}
         /\ is_promotion(m) => rank(m.target) = relative_rank(b.whos_move, 7)
<1> DEFINE us == b.whos_move
           occ == b.occupied_bb
           clear == Between[m.origin][m.target] \cap occ = {}
           last == rank(m.target) = relative_rank(us, 7)
<1>1. us \in Colours /\ b.king_square[us] \in Sq
  BY DEF Lawful, Boards, Colours
<1>2. Makes(b, a, m)
  BY Anatomy
<1>3. \A o \in Sq : rank(o) = relative_rank(us, 6) => rank(o) \in 1 .. 6
                       /\ rank(o) + (forwards(us) \div 8) = relative_rank(us, 7)
  BY <1>1 DEF relative_rank, forwards, Colours
<1>4. CASE OfficerGoes(b, m)
  <2>1. clear /\ ~is_castle(m)
    BY <1>4, GoesSound
  <2>2. m.type \in {"CAPTURE", "QUIETmv"}
    BY <1>4, Fields DEF OfficerGoes
  <2> QED BY <2>1, <2>2 DEF is_promotion
<1>5. CASE PawnTakes(b, m)
  <2>1. clear /\ ~is_castle(m)
    BY <1>5, GoesSound
  <2>2. PICK o \in pieces(b, us, "PAWN") :
           \E t \in pawn_attacks(us, o) \cap b.colour_bb[Other(us)] : m \in PawnCaps(us, o, t)
    BY <1>5 DEF PawnTakes
  <2>3. PICK t \in pawn_attacks(us, o) : m \in PawnCaps(us, o, t)
    BY <2>2
  <2>4. o \in Sq /\ m.target = t /\ rank(t) = rank(o) + (forwards(us) \div 8)
    BY <1>1, <2>3, Fields, Steps DEF Lawful, Boards, pieces
  <2>5. is_promotion(m) => rank(o) = relative_rank(us, 6)
    BY <2>3 DEF PawnCaps, Move, is_promotion
  <2> QED BY <1>3, <2>1, <2>4, <2>5
<1>6. CASE PawnAdvances(b, m)
  <2>1. clear /\ ~is_castle(m)
    BY <1>6, GoesSound
  <2>2. PICK o \in pieces(b, us, "PAWN") : m \in PawnPushes(us, o) \/ m = DoublePush(us, o)
    BY <1>6 DEF PawnAdvances
  <2>3. o \in Sq
    BY <1>1 DEF Lawful, Boards, pieces
  <2>4. CASE m \in PawnPushes(us, o)
    <3>1. m.target = o + forwards(us)
      BY <2>4, Fields
    <3>2. is_promotion(m) => rank(o) = relative_rank(us, 6)
      BY <2>4 DEF PawnPushes, Move, is_promotion
    <3>3. rank(o) = relative_rank(us, 6) => rank(m.target) = relative_rank(us, 7)
      BY <1>1, <1>3, <2>3, <3>1, Steps
    <3> QED BY <2>1, <3>2, <3>3
  <2>5. CASE m = DoublePush(us, o)
    BY <2>1, <2>5 DEF DoublePush, Move, is_promotion
  <2> QED BY <2>2, <2>4, <2>5
<1>7. CASE KingGoes(b, m)
  <2>1. PICK t \in KingAttacks[b.king_square[us]] :
           m = Move("KING", b.king_square[us], t, IF t \in occ THEN "CAPTURE" ELSE "QUIETmv")
    BY <1>7 DEF KingGoes
  <2>2. m.origin = b.king_square[us] /\ m.target = t /\ m.type \in {"CAPTURE", "QUIETmv"}
    BY <2>1, Fields
  <2>3. Between[m.origin][m.target] = {}
    BY <1>1, <2>2, Steps
  <2> QED BY <2>2, <2>3 DEF is_promotion, is_castle
<1>8. CASE PawnPasses(b, a, m)
  BY <1>8, GoesSound
<1>9. CASE m \in Castles(b, a)
  <2>1. PICK side \in Sides :
           /\ castle_blocks(us, side) \cap occ = {}
           /\ m = Move("KING", KingSquare(us), KingCastleSquare(us, side),
                       IF side = "KINGSIDE" THEN "KING_CASTLE" ELSE "QUEEN_CASTLE")
    BY <1>9 DEF Castles
  <2>2. m.type = IF side = "KINGSIDE" THEN "KING_CASTLE" ELSE "QUEEN_CASTLE"
    BY <2>1, Fields
  <2>3. is_castle(m) /\ ~is_promotion(m) /\ get_castleside(m) = side
    BY <2>2 DEF is_castle, is_promotion, get_castleside, Sides
  <2> QED BY <2>1, <2>3
<1> QED BY <1>2, <1>4, <1>5, <1>6, <1>7, <1>8, <1>9 DEF Makes

\* gives_check tells of every generated move that is not a capture en passant whether it
\* leaves the other king in check.
THEOREM ForeseesChecks ==
  ASSUME NEW b, NEW a, Lawful(b, a.castling_rights, a.en_passent_target), Informed(b, a),
         NEW move \in get_moves(b, a), move.type # "EN_PASSENT"
  PROVE  gives_check(b, a, move) <=> InCheck(Played(AtOf(b), move), Other(b.whos_move))
<1> DEFINE us == b.whos_move
           them == Other(us)
           kt == b.king_square[them]
           m == [move EXCEPT !.captured_piece = Captured(b, move)]
           made == MakeBoard(b, m)
<1>1. /\ b \in Boards /\ Views(b) /\ Counted(b)
      /\ us \in Colours /\ them \in Colours /\ them # us /\ Other(them) = us
  BY DEF Lawful, Boards, Colours, Other
<1>2. Described(b, a, move)
  BY Generated
<1>3. /\ Playable(b, m) /\ m.moving_piece = move.moving_piece /\ m.origin = move.origin
      /\ m.target = move.target /\ m.type = move.type /\ m.promoted = move.promoted
      /\ is_promotion(m) = is_promotion(move)
      /\ is_castle(m) = is_castle(move) /\ get_castleside(m) = get_castleside(move)
      /\ CapturedSquare(m) = CapturedSquare(move)
  BY <1>1, <1>2, CaptureFound DEF Described
<1>4. PawnGoes(b, m) /\ (Steered(b, a, m) \/ Royal(b, a, m) \/ InPassing(b, a, m))
  BY <1>1, <1>2, CapturedIsThere
<1>5. /\ is_castle(move) => castle_blocks(us, get_castleside(move)) \cap b.occupied_bb = {}
      /\ ~is_castle(move) => Between[move.origin][move.target] \cap b.occupied_bb = {}
      /\ is_promotion(move) => rank(move.target) = relative_rank(us, 7)
  BY MovesGoClear
<1> HIDE DEF m
<1>6. gives_check(b, a, move) <=> gives_check(b, a, m)
  BY <1>3 DEF gives_check, Discovers, PromotionChecks, CastleChecks, EpChecks
<1>7. Played(AtOf(b), move) = AtOf(made)
  <2>1. Played(AtOf(b), move) = Played(AtOf(b), m)
    BY <1>3 DEF Played
  <2> QED BY <1>1, <1>3, <2>1, MadeSeen
<1>8. gives_check(b, a, m) <=> Strikers(made, us, kt) # {}
  BY <1>3, <1>5, PlainChecks, CastlingChecks
<1>9. /\ made \in Boards /\ Views(made) /\ Counted(made) /\ Apart(made)
      /\ \A c \in Colours : made.king_square[c] \in Sq
      /\ made.king_square[them] = kt
  <2>1. Lawful(made, a.castling_rights \ LostRights(a.castling_rights, us, m), EpMade(m))
    BY <1>3, <1>4, MadeLawful
  <2>2. made.king_square[them] = kt
    BY <1>1, <1>3, OccupiedMoved
  <2>3. \A c \in Colours : made.king_square[c] \in Sq
    BY <2>1 DEF Lawful, Boards
  <2> QED BY <2>1, <2>2, <2>3 DEF Lawful
<1> HIDE DEF made
<1>10. kt \notin KingAttacks[made.king_square[us]]
  <2>1. made.king_square["WHITE"] \notin KingAttacks[made.king_square["BLACK"]]
        /\ made.king_square["BLACK"] \notin KingAttacks[made.king_square["WHITE"]]
    BY <1>9, Sym DEF Apart, Colours
  <2> QED BY <1>1, <1>9, <2>1 DEF Colours
<1>11. InCheck(AtOf(made), them) <=> Strikers(made, us, kt) # {}
  BY <1>1, <1>9, <1>10, CheckSeen
<1> QED BY <1>6, <1>7, <1>8, <1>11
=============================================================================
