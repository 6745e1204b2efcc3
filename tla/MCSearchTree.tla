----------------------------- MODULE MCSearchTree -----------------------------
(***************************************************************************)
(* A game of 94 positions: 34 of one kind each, and six ladders of ten on  *)
(* which nothing happens.  Evaluations are what the value would be without *)
(* the mates and the tablebase, except where a comment says otherwise, and *)
(* where the search prunes the best move comes early.                      *)
(***************************************************************************)
EXTENDS SearchTree

Mate(n) == 32766 - n
Wide == 32766
TbWin == 32253

Move(name, to, type, see) ==
    [name |-> name, to |-> to, type |-> type, see |-> see, unlikely |-> FALSE]
Q(name, to) == Move(name, to, "QUIETmv", 0)
C(name, to, see) == Move(name, to, "CAPTURE", see)
P(name, to) == Move(name, to, "PROMOTION", 0)
CP(name, to, see) == Move(name, to, "CAPTURE_PROMOTION", see)
Unlikely(m) == [m EXCEPT !.unlikely = TRUE]

Node(side, value, moves) ==
    [moves |-> moves, value |-> value, eval |-> value, need |-> 0, side |-> side,
     check |-> FALSE, endgame |-> FALSE, draw |-> FALSE, seventh |-> FALSE, passed |-> 31,
     clock |-> 40, castling |-> FALSE, men |-> 20, wdl |-> "FAILED", dtz |-> 0, tb_move |-> "-"]
R(value, moves) == Node("root", value, moves)
O(value, moves) == Node("other", value, moves)

\* The ladders and their balances: a rung leads to the next, and the last to one
\* that no search from here gets back to.  The side to move can also let itself
\* be mated.
Balances == <<60, 90, -260, 20, 400, 0>>
Rung(j, k) == 29 + 10 * (j - 1) + k
Ladders ==
    [n \in 1 .. 60 |->
        LET j == (n + 9) \div 10
            k == n - 10 * (j - 1)
            next == Rung(j, IF k = 10 THEN 7 ELSE k + 1)
            p == IF k % 2 = 1 THEN R(Balances[j], <<Q("a", next), Q("b", 12)>>)
                              ELSE O(-Balances[j], <<Q("a", next), Q("b", 9)>>)
        IN [p EXCEPT !.passed = next]]

Positions ==
    LET Mated(side) == [Node(side, -Mate(0), <<>>) EXCEPT !.check = TRUE, !.eval = -500]
        MateIn(n, p) == [p EXCEPT !.value = IF n % 2 = 1 THEN Mate(n) ELSE -Mate(n), !.need = n]
        \* Known to the tablebase, and the same when the clock is not at zero.
        Known(wdl, p) == [p EXCEPT !.men = 5, !.clock = 0, !.wdl = wdl, !.endgame = TRUE,
                                   !.need = MAX_DEPTH]
        Later(p) == [p EXCEPT !.clock = 1]
    IN << R(60, <<C("a", 18, 100), Q("b", 6), Q("c", 2), C("d", 4, -320), Q("e", 8), Q("f", 12),
                  Q("g", 10)>>),
          [O(-60, <<Q("a", Rung(1, 1)), Q("b", Rung(2, 1))>>) EXCEPT !.passed = Rung(2, 1)],
    \* 3: a mate in three plies
          MateIn(3, R(60, <<Q("a", Rung(1, 2)), Q("b", 16)>>)),
    \* 4: a piece hangs where a pawn promotes
          [O(260, <<CP("a", 7, 320), C("b", 29, 320), Q("c", Rung(1, 1))>>)
              EXCEPT !.eval = -90, !.seventh = TRUE, !.passed = Rung(1, 1)],
    \* 5: a root in the tablebase, by which "b" wins
          [Later(Known("WIN", R(TbWin, <<Q("a", Rung(1, 2)), Q("b", 20)>>)))
              EXCEPT !.dtz = 12, !.tb_move = "b"],
    \* 6: of two pawns that promote, the one that takes does it for good
          [O(-20, <<Q("a", Rung(2, 1)), P("b", Rung(5, 1)), CP("c", Rung(4, 1), 280)>>)
              EXCEPT !.eval = -400, !.seventh = TRUE, !.passed = Rung(1, 1)],
    \* 7: much to choose from and nothing to gain
          [R(-260, <<Q("a", Rung(3, 2)), Q("b", Rung(3, 2)), Q("c", Rung(3, 2)),
                     Unlikely(Q("d", Rung(3, 2))), Q("e", Rung(3, 2)), C("f", Rung(3, 2), -100)>>)
              EXCEPT !.passed = Rung(3, 2)],
          [O(0, <<Q("a", 9), Q("b", Rung(6, 1))>>) EXCEPT !.check = TRUE],
    \* 9: the root player mates
          MateIn(1, R(450, <<Q("a", Rung(1, 2)), Q("b", 19)>>)),
    \* 10: the tablebase has it lost, but the game is drawn by then
          [O(10, <<Q("a", 17)>>) EXCEPT !.men = 5, !.wdl = "LOSS", !.endgame = TRUE],
          Mated("root"),
    \* 12: so does the other one
          [MateIn(1, O(450, <<Q("a", 11)>>)) EXCEPT !.passed = Rung(2, 1)],
          MateIn(1, R(450, <<Q("a", 19)>>)),
          [MateIn(2, O(-100, <<Q("a", 9), Q("b", 13)>>)) EXCEPT !.check = TRUE],
    \* 15, 18: a won ending
          [Known("LOSS", R(-TbWin, <<Q("a", Rung(3, 2))>>)) EXCEPT !.eval = -500],
          [MateIn(2, O(-100, <<Q("a", 13)>>)) EXCEPT !.endgame = TRUE],
          [R(-10, <<Q("a", Rung(3, 2))>>) EXCEPT !.draw = TRUE, !.endgame = TRUE],
          [Known("WIN", O(TbWin, <<Q("a", 15), Q("b", Rung(3, 1))>>)) EXCEPT !.eval = 500],
          Mated("other"),
          [Later(Known("LOSS", O(-TbWin, <<Q("a", Rung(5, 1))>>))) EXCEPT !.eval = -500],
    \* 21: a mate in five plies, and two ways to one won ending: 23 and 25 differ in the
    \* clock alone
          MateIn(5, R(60, <<Q("a", 28), Q("b", 22), Q("c", 24)>>)),
          [Later(Known("LOSS", O(-TbWin, <<Q("a", 23)>>))) EXCEPT !.eval = -500],
          [Later(Known("WIN", R(TbWin, <<Q("a", 26)>>))) EXCEPT !.eval = 500],
          [Later(Known("LOSS", O(-TbWin, <<C("a", 25, 100)>>)))
              EXCEPT !.eval = -500, !.check = TRUE],
          [Known("WIN", R(TbWin, <<Q("a", 26)>>)) EXCEPT !.eval = 500],
          [Later(Known("LOSS", O(-TbWin, <<Q("a", Rung(5, 1))>>))) EXCEPT !.eval = -500],
          MateIn(3, R(60, <<Q("a", 14)>>)),
          [MateIn(4, O(-60, <<Q("a", 27)>>)) EXCEPT !.check = TRUE],
    \* 29: a check that a capture gave
          [R(0, <<Q("a", Rung(3, 2)), Q("b", Rung(6, 2))>>) EXCEPT !.check = TRUE] >>
       \o Ladders \o
    \* 90: an exchange worth its end, a check and a piece that is guarded
       << [R(60, <<C("a", 91, 320), C("b", 94, 0), C("c", 92, 160), C("d", 18, -100)>>)
              EXCEPT !.eval = 0],
          [O(-60, <<C("a", 93, 100), Q("b", Rung(1, 1))>>) EXCEPT !.eval = -320],
          [O(-60, <<Q("a", Rung(1, 1))>>) EXCEPT !.check = TRUE, !.eval = -100],
          [R(60, <<Q("a", Rung(1, 2))>>) EXCEPT !.eval = 250],
          [O(-60, <<C("a", 93, 0), Q("b", Rung(1, 1))>>) EXCEPT !.eval = -400] >>

MCGame == Positions
MCHash == [n \in 1 .. 94 |-> IF n = 23 THEN 25 ELSE n]

\* The logarithms of reductions_table, as far as depth 6 and the eighth move.
MCQuiet(d, n) ==
    IF d * n = 0 THEN 0
    ELSE IF (d >= 4 /\ n >= 4 /\ d + n >= 11) \/ (d = 5 /\ n = 5) THEN 2 ELSE 1
MCCapture(d, n) == IF d >= 7 /\ n >= 7 /\ d + n >= 15 THEN 1 ELSE 0

\* The windows are those of aspiration around a score, and the widest.
A(root, p, depth, alpha, beta) ==
    [fn |-> "pv", root |-> root, ply |-> p, depth |-> depth, alpha |-> alpha, beta |-> beta]
MCAsks ==
    {A(1, 0, 1, -Wide, Wide), A(1, 0, 2, -30, 30), A(1, 0, 3, -Wide, Wide),
     A(1, 0, 4, 30, 90), A(1, 0, 6, -170, -110), A(1, 0, 6, 30, 90),
     A(3, 2, 3, -Wide, Wide), A(5, 2, 4, 30, 90),
     [A(90, 1, 0, MIN_SCORE, MAX_SCORE) EXCEPT !.fn = "settle"]}
=============================================================================
