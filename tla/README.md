# Verification of admete

admete is a UCI chess engine in C++: an alpha-beta search over bitboards with a transposition table
and a small neural network for the evaluation. This directory holds TLA+ modules translated from its
source, TLC configurations that check them on small instances, and theorems about them checked by
TLAPS. Paths below are relative to `src/src/admete/` unless they begin with `src/`.

* [The system](#the-system) — its parts, their state, what is hard about them
* [The modules](#the-modules) — which models what, and how state and actions correspond
* [The runs](#the-runs) — questions, bounds, fairness
* [The proofs](#the-proofs) — what holds for every value of the constants, and why
* [What disagrees](#what-disagrees) — where the code does something else than it says
* [Not modelled, only checked](#not-modelled-only-checked)
* [Plan](#plan)

## The system

```
      GUI ── lines ──> uci() ──────── starts, stops, joins ────────> do_search / do_perft
                        │   stop_flag, running_flag (atomics)             │
                        │                                                 v
                        │                                          Search::search
                        v                                          (iterative deepening)
                      Board <── make_move / unmake_move ──  pv_search, scout_search, quiesce
                  (position, hash,                            │           │            │
                   history, accumulator)                      v           v            v
                                                      transposition   killers,    get_moves,
                                                          table       history     ordering, SEE,
                                                                                  eval, tablebases
```

| component | state it keeps | operations | what is hard, and what makes it correct |
|---|---|---|---|
| command loop (`uci.cpp`, `search.hpp`) | the command word, one `std::thread`, `SearchOptions` with two atomics | one handler per command; `cleanup_thread`, `stop` | two threads share the board, the tables and the options without a lock: no handler that stops the worker may run beside it, each `go` is answered once, a stop is not lost, the loop never waits for ever |
| iterative deepening (`Search::search`) | score, line, window, cutoffs of time | one call | windows that fail, three ways to stop: what is returned must be an exact score and its own line; the search must end |
| search tree (`pv_search`, `scout_search`, `quiesce`, `board_quiesce`) | the stack; the tables below | recursion | pruning, the table's bounds, a stop at any node: a returned score must be a bound on the value |
| transposition table (`transposition.cpp`) | entries, size | store, probe, `set_delete`, `reinit` | collisions, mate scores relative to the node, narrow fields, replacement: what is read is what was stored |
| killer and history tables (`transposition.cpp`) | rows per ply with an index each; a count per piece and target | store, probe, clear | the rows must stay a queue without repetition |
| move ordering (`ordering.cpp`) | none | `rank_and_sort_moves`, `see*` | scores of different sources in one integer must keep their order |
| board (`board.cpp`, `zobrist.cpp`) | bitboards by colour and by type, counts, phase material, kings, an `AuxilliaryInfo` and a hash per ply | `fen_decode`, make, unmake, null moves, `is_draw`, `flip`, `pack`, ... | redundant views kept up to date by differences, and taken back |
| move generation (`movegen.cpp`, `board.cpp`) | none | `get_moves`, `gives_check` | pins, double checks and captures en passant: exactly the legal moves |
| bitboards (`bitboard.cpp`, `types.hpp`) | attack tables | `init` | tables filled by a random search for magic numbers |
| evaluation, network (`evaluate.cpp`, `neural/`) | weights; the accumulator in the board | `eval`, accumulate, decumulate | the accumulator must stay the first layer of the board's features |
| tablebases, perft, printing, `main`, bindings | – | – | thin |

How they interact. The main thread is the only one that sets up positions, and the worker plays moves
on the same `Board` while it searches, so the two must never overlap: that is the job of
`cleanup_thread` and `stop` (`Uci`). The worker runs `Search::search` (`IterativeDeepening`), whose
calls of `pv_search` (`SearchTree`) make and take back moves (`Board`, and `Accumulator` with it), ask
whether the position is a draw (`Draw`), store into and read from the transposition table
(`TransTable`), and write the killer and history tables at cutoffs, from which the order of moves comes
(`MoveOrdering`, with the exchanges of `Exchange`). `stop_flag` is raised by either side and polled in
every node of the main tree, and the time it is raised at comes from the clock (`Clock`).

`PROJECT.json` lists the hazards of each component at the line where they bite, and the properties
that would catch them.

## The modules

| module | models | |
|---|---|---|
| `Uci` | the command loop, both worker threads, the atomics | composed with the contract below |
| `UciContract` | what a GUI may rely on: an abstract engine of three variables | abstract specification |
| `Clock` | the cutoffs that `go` makes of the clock | used by `IterativeDeepening` |
| `IterativeDeepening` | `Search::search` | takes `pv_search` by its contract |
| `SearchTree` | `pv_search`, `scout_search`, `quiesce`, `board_quiesce`, and when they ask the tablebase | composes `TransTable`; its `AnswerHolds` is that contract |
| `TransTable` | the transposition table | |
| `MoveOrdering` | killer and history tables, the score of a move | |
| `KillerQueue` | what a row of killers promises | abstract specification |
| `Squares`, `Position`, `MoveGen`, `Board` | geometry and attack tables; what a move does to the members of `Board`; the generator and `gives_check`; the class as its callers use it | `Board` extends the other three |
| `Accumulator` | the first layer of the network, beside the board | `Board` with one more variable |
| `Draw` | `repetitions`, `is_draw` | extends `Board` |
| `Exchange` | both forms of `see` | extends `Board` |
| `Rules` | the rules of chess, on a map from squares to pieces | reference definition |
| `MC*` | small instances for TLC | |
| `*Proofs` | theorems | |

Definitions keep the source's names (`make_move` is split over the operators of `Position` and the
action `MakeMove`). "A wrong variant" in a comment marks a definition that changes the one after it
the way a plausible bug would; no specification uses it, and each property is tried against one
(`mutants` in `PROJECT.json`).

### `Uci`

| TLA+ | code |
|---|---|
| `mpc`, `wpc` | where each thread is; `wpc = "none"` iff `running_thread` is not joinable |
| `token` | the command word of `uci()`, declared outside the loop |
| `stop_flag`, `running_flag` | the atomics of `SearchOptions` |
| `board`, `limits`, `mate_depth` | the shared position; what the last `go` parsed; whether a mate distance is set, which nothing resets |
| `depth`, `allow_cutoff`, `line` | locals of `Search::search`, cut down to what decides its end |
| `said`, `asked`, `owed` | history: the kind of the last bestmove, the position it was asked about, unanswered gos |

A step is one access to a shared atomic, one join, or a stretch of code between two of them, so that
`stop` is three steps (`StopTest`, `SetStop`, `StopJoin`) and `cleanup_thread` two. `pv_search` is one
step of the worker, every reading of the clock a choice. Two outcomes of the code end the process:
assigning to a joinable `std::thread` (`terminated`) and `back()` of a line that never held anything
(`crashed`).

### `TransTable`

`data` is the vector, `size` its `max_index`, `Index` the mask; an entry keeps its full hash, its score
relative to the node and its depth modulo 256. `Store`, `SetDelete` and `Reinit` are the operations,
and `SetDelete` changes nothing, because the loop of the code runs over copies. `Reinit` is the Hash
option: its value is clamped, `tt_max` is the product of 32 bits that the code computes from it, and the
size the power of two below, which is 0 where the product is (`Wrap` is the MiB that 32 bits no longer
count). `origin`, `epoch` and `option` are history: what each entry was made from, in which search, and
the last value sent.

### `MoveOrdering` and `KillerQueue`

`killers` and `indicies` are the rows of `KillerTable` and the place of the next store, `history` the
cells of `HistoryTable`. `Cutoff` is what the search does at a beta cutoff, `NewSearch` what it does at
its start (the killers stay). `Score` is the ranking, with the value of an exchange as an input. The
refinement mapping reads a row from its index round (`Oldest`) and takes the last `Held` places of it: all
of them once the place of the next store is taken, otherwise as many as have been filled.

### `IterativeDeepening` and `Clock`

One action per stretch of the loop: `Iterate` (its head), `PvSearch`, `CheckBounds` (the window),
`StopSeen` or `Report` (the rest of the body), and `SetStop` of the other thread at any moment.
`pv_search` is taken by its contract: the value of the position at that depth if it lies inside the
window, otherwise a bound beyond the side it fails on; or `MAX_SCORE` and no line once `stop` is up.
The value of the position is a function of the depth, chosen at the start: the instability that a
transposition table brings is left out here, and with it a window that fails on both sides. `Clock`
computes the two cutoffs as `go` does, in milliseconds, its doubles cut off to integers; the instances
of `IterativeDeepening` take their cutoffs from it.

### `SearchTree`

| TLA+ | code |
|---|---|
| `stack` | the calls of the four functions in progress, a frame with every local of each; `at` is the place in it |
| `ret` | what the call that returned last returned, and the line it left in its caller's |
| `board`, `root_ply` | the positions from the root to here; `board.ply()` at the root |
| `table` | the entries of `TransTable`, whose `Element`, `Replaces`, `Index` and conversions of scores it uses |
| `stop` | `options.stop_flag`, raised by `SetStop` between any two steps, or by the search itself |
| `asked`, `calls` | history: the call that was made, and how many |

A step is the stretch of a function from one call to the next: its head down to the work (`Stage` keeps
the order of the early returns), the null move, the probe above beta, the hash move, one move of the
list with its pruning or its search, the search again, the end of the node. Each call and each return
is a step of its own, so that a stop can fall between them. `Ask` is a call at a root, of which a second
finds what the first left in the table.

`board_quiesce` is `quiesce` with one more result, the position that its score is that of, and is a call
of its own (`fn = "settle"`): the frames' `line` then leads to that position from the position the frame
is about. No stop is raised during it, since it runs on the main thread.

The game is an input. A position is what the search asks of it: its moves, whether it is check, a draw
or an endgame, its evaluation, the answer of the tablebase, the type and the exchange value of each move.
A promotion that captures has both bits of its type: it is neither reduced nor pruned, like any
promotion, and `quiesce` tries it, like any capture. A position also has
a *value*, which the search does not see and `GameAssumption` ties to the values of the positions its
moves lead to: mates counted from it, draws worth the contempt of the side to move, what the tablebase
knows. `need` is the depth from which that value must be found, 0 where nothing is hidden by the
horizon, a mate's own length, and the largest depth where only the tablebase knows it; a score at less
depth is not judged. So the properties say what survives of alpha-beta once reductions, futility, null
moves, table cuts, tablebase cuts and stops are added, on games where the guesses of these are right:
evaluations are true and the best move comes early where late moves are pruned. They do not say the
guesses are right in chess; no property of the code does.

Two things of a real game are outside, since they are not functions of the position: a draw by
repetition and one by the clock, whose scores the table keeps for other paths. `Draw` is about when
they are seen, and `hash`, which leaves the clock out, is kept here: positions 23 and 25 of the instance
differ in the clock alone and share an entry. The order of the moves is fixed for each position: a frame's
`left` holds the places of the moves not tried yet, of which the least is next. What killers and history
do to that order is `MoveOrdering`.

### `Squares`, `Position`, `MoveGen`, `Rules`, `Board`

A bitboard is a set of squares, `^` the symmetric difference `Xor`, an attack table the function it is
filled with. A hash is the set of Zobrist keys it is the exclusive or of, so that two hashes are equal
only if their keys are: collisions are left out, a key flipped once too often is not. `board` is the
record of the members that a move changes in place, `aux_history` and `hash_history` the entries up to
the ply (`make_move` writes each field of the next entry before it is read, so those above need not be
kept). `MoveGen` follows the generator's own route, with its pin lines, its `attacked` squares and its
split into evasions, captures and quiet moves; `Rules` knows nothing of these and says which moves
leave the king out of check. `MakeMove` plays any move of the generator, `UnmakeMove` takes back the
last, the null moves are made as the search makes them, `FenDecode` sets up a new position on a used
board, and `Flip` mirrors one just set up, which is then played a ply less.

### `Accumulator`

The layer is linear and its numbers are 16 bits that wrap around, so that whatever the weights its
output is the bias plus each feature's weights as often as they have been added, modulo 2^16. The
variable `accumulated` holds those counts for each colour, and counts that agree give equal vectors.
Each step of `Board` is composed with what the same function of the code does to the accumulator.

### `Draw`

`repetitions` compares hashes of the history, `is_draw` is asked for a root at every ply of the game and
not only where `set_root` has put it. What they are held against is the positions themselves: the same
pieces, mover and legal moves. Null moves count as plies in both. `InsufficientMaterial` is the code's
own on both sides, since the list of drawn endings is a choice.

### `Exchange`

`see` and its threshold form are recursive functions over the mask, the squares of the pieces still to be
reckoned with, against an exchange by the rules in which a side takes with one of its least valuable
pieces or stops. The code takes with *all* pieces of the least type at once (`get_smallest_attacker`
returns them together), so `ExchangeIsBest` leaves out exchanges in which a side ever has two alike to
choose from; `ThresholdAgrees`, that both forms say the same, leaves out none.

## The runs

| run | question | answer |
|---|---|---|
| `uci_threads` | Every command in every interleaving of the two threads: can a handler that stops the search run beside a worker? is a `go` answered twice, or dropped? can the clock end a search without a move? is a stop erased? Does the engine implement `UciContract`, its liveness included, and does the main thread always come back to reading? | It does; none of the others can happen, but for the ends of the process and the lost `stop` of a perft listed in [What disagrees](#what-disagrees). |
| `tt_entries` | Colliding stores, mates at the edges of their range, depths beyond eight bits, new sizes: is an entry where a probe looks, does it read back right at another ply, does it only give way to a better one, and is the table within the Hash option and never without a slot? | yes, except that multiples of 4 GiB leave it without a slot: see [What disagrees](#what-disagrees) |
| `ordering` | Do the killer rows implement a queue, and do the bands of the ordering keep apart however large the history grows? | yes |
| `deepening` | Whatever the scores, the clock and the moment of a stop: is the returned score exact and of its line, does no iteration begin past the time, does the search end? | yes |
| `search_tree` | Two searches of a tree, the second on what the first left in the table, with every shortcut and a stop anywhere: is what is returned a bound on the value, and is what stays in the table? Can the line be played, and the position of `board_quiesce` be reached, and do they have the score? Is every move taken back? Does the search end? | yes |
| `board_play` | Moves and null moves made and taken back in any order: are the incremental counts, hash, rights and accumulator those of the position, does the generator make the legal moves, does taking back restore? Does `is_draw` see the repetitions and no others? Is an exchange worth what `see` says, at any threshold? | yes |
| `uci_terminate`, `uci_cleanup`, `uci_empty_line`, `tt_delete`, `deepening_mate`, `board_enpassent` | one property each, which the code states and does not keep | see [What disagrees](#what-disagrees) |

### Bounds

* `Uci`: two positions with moves and one without, because handlers and answers tell only these apart;
  a default depth of 3 rather than 20, which gives two iterations: one before `allow_cutoff` is set and
  one after. All fifteen command words, an empty line among them, and seven kinds of limits, with a
  depth below the first iteration's. The violation runs need only `go` and `stop`.
* `TransTable`: three hashes in tables of one or two slots, so that two positions collide and one does
  not; four values of the Hash option with 32 bits that count up to 4 MiB of one entry each, so that the
  table has one, two and no slots, once with the size wrapped around (6), the default being 3 and the
  largest 8; the four scores around the edges of the mate range; depths 1, 2 and 258 (2 in eight bits);
  two plies; one `set_delete`.
* `MoveOrdering`: four quiet moves, one more than a row holds, and a double push in one history cell, a
  capture, a promotion and one that captures in cells of their own; one ply, as rows do not touch each other; exchange
  values on both sides of each threshold; a history that goes past the cap of 100000.
* `IterativeDeepening`: three iterations, of which the first is unlimited, the second runs around the
  first's score and the third has seen a soft cutoff shrink; scores inside the first window, beyond
  each of the later ones and among the mates of both sides; a clock before, at and past the cutoffs.
* `SearchTree`: a game of 94 positions, 34 of one kind each (mates of one to five plies, won and lost
  endings with and without a clock at zero, a hanging piece, a drawn ending, a root in the tablebase,
  an exchange with a check in it, checks, promotions with a capture and
  without, one of which is the late move that saves the value) and six ladders of ten on which nothing happens, so that depth 6 can be reached
  without a tree of its width. Eight calls with the windows that aspiration asks, of depth 1 to 6, at
  plies 0 and 2, and one of `board_quiesce`; two calls in a row; a table of 8 slots, in which positions collide. The margins are
  those of the code. The reductions are the logarithms of `reductions_table` tabulated as far as the
  instance reaches.
* `Board`, with `Accumulator`, `Draw` and `Exchange`: eleven positions of four to ten men and their
  mirrors, three plies each, in which a rook is taken at home, castling is blocked or attacked, pawns
  promote with and without a capture, a capture en passant is pinned along the rank and the diagonal or
  answers a check, two pieces check at once, a castling or a promotion checks. Two more are blocked but
  for the kings, played for eight plies so that a position can occur three times, and for four from a
  clock of 97; one has batteries of rooks, bishops and queens on a pawn. The constants of the code (64
  squares, the widths of fields, 100 plies) are not scaled down.

Deadlock is checked in the runs of `Uci`, `TransTable`, `MoveOrdering` and `Board`; those of
`IterativeDeepening` and `SearchTree` stop when the search has returned, or the last of its calls. In
`Uci` a process that is gone stutters (`Gone`), so a deadlock would be a wait of both threads.

### Fairness

* `Uci`: weak fairness of each thread as a whole (`WF_vars(Main)`, `WF_vars(Worker)`): the operating
  system schedules both. Nothing is assumed of the GUI, so "the main thread reads again" is a property
  of the engine alone. That a search of the tree ends by itself is the bounded depth.
* `IterativeDeepening`, `SearchTree`: weak fairness of the searching thread, none of the one that may
  stop it, and none of a call being made.

Liveness needs no fairness of any single choice: that a limit is met is never assumed.

## The proofs

Every theorem is for all values of the constants, under the named assumptions of the module; TLC
evaluates those in each run.

* **`UciProofs`**: `TypeCorrect`; `ExclusiveBoard` (`Exclusive`), `OneAnswer` (`OneAnswerPerGo`) and
  `KeepsContract` (the refinement of `UciContract`, safety part, for whatever commands a GUI sends).
  `Exclusive` is not inductive. The
  strengthening `Control` says that `running_flag` is up exactly between its two stores, and that past
  `cleanup_thread` a joinable worker has raised it: the main thread waits in `cleanup_join` for a
  worker that has not, so that when `stop` finds the flag down there is none left to wait for.
  From it follow `StopIsKept` (`SearchKeepsStop`: while `stop` waits for a search the worker is past the
  store that clears the flag) and, with an invariant about where `allow_cutoff` and the line stand,
  `EmptyMeansStopped` (`EmptyOnlyIfStopped`).
* **`TransTableProofs`**: `TableType`, `EntriesInTheirSlots`, `ScoresReadBack`, `TableSized`
  (`TableFits`, for whatever a number of 32 bits counts and an entry takes), and of a step
  `EntriesGetNoWorse` (`NeverWorse`).
  `ScoresReadBack` rests on a lemma about `eval_to_tt` and `eval_from_tt` for every score and every
  pair of plies, and on an invariant that ties each entry to what it was made from. The one
  assumption about the search is `Plausible`: a node is not mated before its own ply. Of the search
  that stores it is proved in `SearchTreeProofs` (`StoresArePlausible`).
* **`MoveOrderingProofs`**: `TablesType`, `NoKillerTwice`, `OnlyQuietKillers`, three invariants that are
  inductive together; `BandsAreKept` (`OrderBands`) by a bound on each score: a cell of the history is
  capped when it is read, so it never reaches the band above, however large it has grown. And
  `LastKillers` (`QueueSpec`), that the table implements the queue: the invariant it needs is `Filled`, a
  row is filled from its first place on, so that the place of the next store is empty only if all after it
  are, and a store into a full row overwrites the oldest killer (`Remembers`).
* **`IterativeDeepeningProofs`**: `SearchType` and `AnswerIsExact` (`ScoreIsExact`). The inductive
  invariant is `Window`: the first window that fails tells on which side of the old score the new one
  lies, from then on only that side's bound moves, and in the last window it lies beyond every score,
  so the loop never falls out with a bound for a score. `NoneIsBegunLate` (`NoIterationPastTime`) and
  `FirstIsKept` (`FirstIterationKept`) are about steps. `KilledInTime`, of `Clock`: for every clock,
  increment and number of moves to go, the hard cutoff leaves a fifth of the clock and is within
  `movetime`. The other bounds on it can be larger: an increment alone takes half the clock and the
  increment beyond it.
* **`SearchTreeProofs`**: `BoardIsRestored` (`BoardRestored`). The invariant, `Balanced`, ties the length of
  `board` to the stack: beside the root there is one position for each call that waits with a move or a
  null move out, and the verification of a cut, which waits too, has none. It holds for every game,
  whatever the table holds and whatever the evaluations are. `TypesAreKept` (`TypeOK`) needs `Typed`, that
  each frame is `Seated` at one position of the board: the moves it has left are that position's, its
  depth is one of the rows of the reductions table once it has begun, its window is open while it has
  moves left, and its counter and the moves left together stay below `MAX_MOVES`. For that the depths
  that are asked are assumed to leave room for the extension of a check at the root (`AsksAssumption`).
  The lines follow the calls on a third invariant, `Trail`: what each call keeps can be played from the
  position it is about, the move it has out is one of that position's, what is returned leads on from
  where the board stands, and a call of `board_quiesce` whose alpha has been raised inside its window
  keeps a line that ends in a position worth that alpha. `LinesArePlayed` says the first of the root and
  `ScoreIsOfItsLine` the last; the second needs that sides alternate from the root on, since `drawn_score`
  goes by the parity of the height and the rules by the side (`GameAssumption`).
  The scores follow a fourth, `Scored`, as long as the board keeps to its arrays (`InHistory`, which no
  line of the code looks after): each node of the tree has either a best score in the range of its ply or a
  move still out or to come that will bring one, the alpha of `quiesce` stays between the mates at its ply,
  and so does every entry of the table at ply 0. The bounds of the tablebase and the futile margins
  fit in between because evaluations are clamped, a distance has twelve bits and contempt is at most
  1000 (`ScoresAssumption`). The invariant depends on the flag: once it is raised `quiesce` may pass
  on any alpha that the windows above put there, and nothing is stored any more. `ScoresArePlausible` is about
  what `pv_search` gives back, `StoresArePlausible` about every step that writes to the table, and
  `MovesAreNamed` says that a root with moves, depth and a window that some score of its ply can lie in is
  always given a line, so that there `principle.back()` (search.cpp:664) is
  not taken of an empty one.
* **`PositionProofs`**: `UnmakeUndoesMake` and `UnnullUndoesNull`: on every board and for every move whose
  captured and promoted pieces are filled in, and which starts on the king's square if it is the king's,
  `unmake_move` gives back every member. Bitboards, because each change is an
  exclusive or with the same squares, in whatever order; counters, because each is moved by as much.
  Then what the exclusive ors of `make_move` come to if the move is `Playable`, that is, if its piece
  stands at the origin and its captured piece where it is taken: which squares of each colour and type
  are left and filled (`MadeBoard`), that the counts are those of the bitboards again (`MadeCounts`),
  and that the keys of `diff` and `nulldiff` lead from the hash before to the hash after (`MadeHash`,
  `NullHash`).
* **`MoveGenProofs`**: two facts that need each other. `Generated`: in a lawful position with the right
  `AuxilliaryInfo`, every move of `get_moves` fits a description (`Described`): `Playable`, and its piece
  keeps to its pin, takes or blocks what checks, or is a king that goes where nothing attacks, or a pawn
  taking en passant with nothing behind the two pawns. `MadeLawful`: a move of that description leads to
  a lawful position. `Lawful` is the invariant of play: three views that agree, one king a side, kings
  apart, the side that has moved not in check, the other from at most two pieces, no pawn on a back
  rank, rights to castle with king and rook at home, and behind a file en passant the pawn that has just
  come two squares and gave no sliding check from where it stood. The last two conjuncts are why two
  checkers are enough (`FewCheckers`): a move uncovers one line at most, except en passant, where a
  second is ruled out by what the double push left. The geometry (`Seg`, `Ln`, `Btw`, `Rays`) is turned
  into inequalities of coordinates once, and used by name. Two more follow for lawful positions.
  `GeneratesLegal`: what `get_moves` returns are the moves of `Rules` and no others; one inclusion is the
  description above, the other takes a legal move and follows it through the generator's split into
  evasions, captures, quiet moves, double pushes and castlings, where a piece off its pin line or a king
  on an attacked square would contradict the rules. `ForeseesChecks`: `gives_check` of a generated move
  other than a capture en passant holds exactly if the king is attacked after it; by squares of check if the
  piece itself strikes, by blockers if a line is uncovered, by the rook's new place if it castles.
* **`BoardProofs`**: the theorems of `Board`'s `Spec`, for all FENs that `FensAssumption` lets in and games of
  any length: `TypesAreKept`, `CountsAreKept`, `HashIsKept`, `RightsAreKept`, `TakingBackRestores`
  (`UnmakeRestores`), and `VectorsAreKept` (`AccumulatorTracked`) of `Accumulator`'s. The inductive invariant
  is `IInv` (`GameIsKept`): at *every* ply of the history, and not just the last, the position is lawful,
  its `AuxilliaryInfo` is what `update_checkers` and the rest make of it and its hash is its own; and each ply is
  what `make_move` makes of the one before with the `last_move` it keeps, or a null move. The plies are
  needed because taking back lands on them, the links because it starts from the last move only.
  A FEN gives the first ply (`DecodedLawful`), `flip` another (`FlippedLawful`: what is attacked keeps its
  place on the board upside down, `Mirrored`). For the accumulator, what `increment` takes away are
  features that were there and what it adds are features that were not (`Encoded`), so no
  weight is ever counted twice or below zero. On the same invariant rest `GeneratorIsLegal` (`MovesAreLegal`)
  and `ChecksAreForeseen` (`ChecksForeseen`). `DrawsAreSound` (`DrawsAreReal`) needs one more, `Clocked`
  (`ClockIsKept`): at every ply the clock counts the plies since a capture or a pawn's move, or since the
  FEN, so that a look `halfmove_clock` plies back never passes one.
  The last part is about the two forms of `see`. Both are functions defined by recursion over the squares
  left in the mask, so first: such functions exist and solve their equations, and are the only ones that
  do (`Recursion`, by induction on the number of squares left). Then `AnyThresholdAgrees`, and for the
  thresholds of the runs `FormsOfSeeAgree` (`ThresholdAgrees`): `see` of a series of captures is the worth of
  the first less what the rest is worth, or nothing (`SettledStep`), and at every stage of the threshold
  form the running gain lies between nothing and the piece last taken (`StagesAgree`). And
  `ExchangesAreBest` (`ExchangeIsBest`): the pieces that `see` lets capture, by attacks through an
  ever thinner board, are those that the rules would let (`TakersSeen`), so that where a side never has two
  alike to choose from, `see` is the best that either can reach by going on or stopping.

`FensAssumption` asks of a FEN what the code takes on trust: `fen_decode` checks nothing. Each conjunct of
`LegalFen` is needed by a step: without one king a side `king_square` is that of another, with three
checkers the array of two is overrun, with a right and no rook castling moves a piece that is not there.

Out of the provers' reach, and left to TLC: liveness and everything with `ENABLED`, and induction over
the tree of a game, which `AnswerHolds` needs.

## What disagrees

With a run that shows it:

1. `uci_terminate`: a `go` that arrives between the worker's last line of work and its store to
   `running_flag` finds a worker that `cleanup_thread` takes for running and `stop` for finished, and
   the assignment of `running_thread` (`uci.cpp:380`) calls `std::terminate`.
2. `uci_cleanup`: a command that arrives before the new worker has raised `running_flag` is held in
   `cleanup_thread`'s join for the whole search, a `stop` included.
3. `uci_empty_line`: a stop during the first iteration leaves an empty line, and `do_search` takes
   `back()` of it.
4. `tt_delete`: `set_delete` marks copies (`for (auto entry : data)`), so nothing is ever marked.
5. `deepening_mate`: the mate limit compares a ply counted from the FEN with moves counted from the
   root.
6. `board_enpassent`: `gives_check` misses the diagonal that a captured pawn opens.

Seen while modelling, without a run of their own:

* `ucinewgame` (`uci.cpp:560`) sets up the board and does not stop a search, unlike the other handlers
  that change it: a search that runs is answered with a move of a position that is no longer set up.
  `Exclusive` is about the handlers that stop the search, and the contract lets a new game begin at any
  time. `features` (`uci.cpp:588`) does not stop it either, and flips the board in place and back while
  Black is to move.
* `do_perft` raises `running_flag` before it clears `stop_flag`, so that a stop in between is erased
  and the main thread waits for the whole count (`SearchKeepsStop` speaks of searches only).
* The Hash option is advertised up to 8192 MiB (`uci.cpp:109`), and `value * (1 << 20)` (`uci.cpp:162`) is
  unsigned and of 32 bits: 4096 and 8192 give a table of no slots, whose first probe throws, and the
  sizes between them one of what is left above 4096. `TableFits` says exactly this.
* `board_quiesce` is to "evaluate only quiet positions" (`search.cpp:705`) and can give back one that is in
  check or has captures: delta pruning returns the static score in check too.
* `assert(depth < MAX_DEPTH)` (`search.cpp:27`) comes before a check at the root adds one to the depth, and
  `go depth` (`uci.cpp:346`) bounds nothing: the rows of the reductions table end at `MAX_DEPTH`. The
  default depth is far below it, and `AsksAssumption` keeps the calls two below it.
* `infinite` is documented (`uci.cpp:324`) and not parsed: such a search has the default depth.
* A mate distance stays in force for later gos (`uci.cpp:350`).
* A quiet check with more than 50000 of history goes before an even capture, which the order described
  at `ordering.cpp:210` does not say (`OrderBands` leaves quiet checks out).
* `get_smallest_attacker` returns all attackers of the smallest type and `see` removes them together, so
  that two rooks that could recapture in turn count as one (`Exchange`).
* The tablebase's lower bound in `scout_search` (`search.cpp:187`) is overwritten by the score of the hash
  move. In a null window a lower bound that did not cut is at most alpha, so the answer is no worse a
  bound for it, which `AnswerHolds` and `EntriesHold` confirm.
* A new search clears the history and not the killers, which are indexed by the ply of the game: the
  rows of earlier searches stay (`search.cpp:572`). They are tried only if they are legal moves.
* History cells are sums of `depth * depth` in 32 bits that nothing caps during a search
  (`transposition.cpp:169`); the ordering caps what it reads.
* `make_move` indexes histories of 512 entries, and `KillerTable` rows as many, without a look at the ply
  (`board.cpp:178`): a game of some 250 moves sent as `position startpos moves ...` comes near it.
* A root without a legal move leaves an empty line, of which `back()` is taken after the first iteration
  (`search.cpp:664`); `Uci` has such positions and counts it among its crashes.
* `unpack` goes back to the first entry of the histories and leaves the ply, and `byte_encoded` flips the
  board in place, which at a later ply rewrites the current entry only (`board.cpp:769`).
* `make_knight_promotion` and `make_bishop_promotion` (`types.hpp:363`) write each other's code;
  the set of four promotions that the generator makes is right all the same.

## Not modelled, only checked

* **Board**: `pack`, `unpack` and `byte_encoded`, which only write training data; the text of a FEN and
  `fen_encode`, which are formatting.
* **Search tree**: draws that depend on the path and the order of the moves, as above.
* **Move ordering**: `see_quiet`, which only a test calls, and the sort itself.
* **Magic numbers**: a loop over random numbers that ends when the table it fills is right.
* **Network**: the layers after the first have no state, and their weights decide what they return;
  `encode2`, which nothing calls.
* **Tablebases**: files on disk decide the answers, which are part of the game of `SearchTree`; the packing
  of a position into Fathom's arguments is left out.
* **Printing, `main`, bindings, Fathom, tests**: no state of their own, or not the engine's.

Model-checked and not proved:

* `AnswerHolds` and `EntriesHold` of `SearchTree`, and what is left of `LineBrings`: that the first move of
  an exact line brings the score, and that `board_quiesce` asked with the widest window always ends
  inside it. The values come out right only where the guesses are right, and where they are is not a
  matter of single positions from which a proof could start: a delta cut (`search.cpp:532`) gives back the
  static score as if it were an upper bound, which it need not be, and that does no harm as long as no
  caller's window makes use of it. Which windows come is decided by the order of the moves and by the table.
* All liveness.

In the data races
that remain (`ucinewgame`, `d`, `h` and `features` beside a worker) a read is modelled as seeing the
position before or after; torn values, and the board that `features` has flipped and not yet flipped
back, are not.

## Plan

Done: every component that keeps state has its module, and every safety property of the runs that does
not speak of the value of a tree of play has its proof. Next, in this order:

1. **`AnswerHolds`** with `EntriesHold`: first an assumption about a game that says when its guesses are
   right (`GameAssumption` ties values to moves only), then the bounds of a frame as an invariant.
2. **`pack` and `unpack`** as a round trip, once training data matters.

The runs that show a disagreement are kept until what they show is repaired.
