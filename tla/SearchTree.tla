------------------------------ MODULE SearchTree ------------------------------
(***************************************************************************)
(* One call of pv_search (search.cpp) from the root of a search, with the  *)
(* calls of pv_search, scout_search and quiesce it makes, as a stack of    *)
(* frames over the board and the transposition table they share.  The stop *)
(* flag may be raised between any two steps of them.  And one of           *)
(* board_quiesce, which finds a quiet position for the training data.      *)
(*                                                                         *)
(* A position is what the search asks of it: its moves in the order they   *)
(* are tried, whether it is check, a draw or an endgame, its evaluation    *)
(* and what the tablebase says.  The order is fixed: the killers and the   *)
(* history, which the cutoffs write and only the order reads, are those of *)
(* MoveOrdering.  Beside that a position has its value, the one the rules  *)
(* of the game give it, which the search does not see.                     *)
(***************************************************************************)
EXTENDS Integers, SequencesExt

CONSTANTS
    Game,       \* the positions, by number
    Hash,       \* their zobrist keys, which leave the halfmove clock out
    Asks,       \* the calls made: "pv" or "settle", a root, its ply, a depth and a window
    MaxCalls,   \* bound on their number
    Slots,      \* the size of the transposition table
    quiet_reduction(_, _),      \* reductions_table, by depth and number of the move
    capture_reduction(_, _),
    contempt,
    TbEnable    \* options.tbenable

VARIABLES
    stack,          \* the calls in progress, the innermost last
    ret,            \* what the call that ended last returned, if not taken yet
    board,          \* the positions from the root to here
    root_ply,       \* the ply of the first of them
    stop,           \* options.stop_flag
    table,          \* the entries of the transposition table
    asked,          \* history: the last call
    calls           \* history: the number of calls made

vars == <<stack, ret, board, root_ply, stop, table, asked, calls>>

TT == INSTANCE TransTable WITH
        data <- table, origin <- table, size <- Slots, option <- 0, epoch <- 0, Hashes <- Nat,
        HashOptions <- {}, HashDefault <- 0, HashMax <- 1, Wrap <- 1, EntriesPerMiB <- Slots,
        BitFloor <- <<>>, Evals <- {}, Depths <- {}, Moves <- {}, Plies <- {}, MaxEpoch <- 0

MAX_SCORE == TT!MAX_SCORE
MIN_SCORE == -MAX_SCORE
MAX_DEPTH == 127
MAX_MOVES == 256
TBWIN == TT!MIN_MATE_SCORE - 1
TBWIN_MIN == TBWIN - TT!MAX_PLY
ply_to_mate_score(p) == TT!MATING_SCORE - p

\* search.hpp
efp_max_depth == 1
extended_futility_margins == <<36>>
rfp_max_depth == 3
reverse_futility_margins == <<325, 550, 800>>
null_move_depth_reduction == 2
probcut_depth_reduction == 3
probcut_min_depth == 6
probcut_margin == 173
history_max_depth == 3
see_prune_threshold == 50

here == Game[Last(board)]
hash == Hash[Last(board)]
height == Len(board) - 1
ply == root_ply + height
is_root == height = 0

(***************************************************************************)
(* What the rules give a position: mates are counted from it, and how a    *)
(* game that only the tablebase sees the end of is won is left open.       *)
(***************************************************************************)
\* The value of a position for the side that moves to it, a ply earlier.
Backed(n) == -TT!eval_from_tt(Game[n].value, 1)
DrawnFor(n) == IF Game[n].side = "root" THEN -contempt ELSE contempt

ValueAssumption(n) ==
    LET p == Game[n]
        moves == {Backed(p.moves[i].to) : i \in DOMAIN p.moves}
    IN CASE p.moves = <<>> -> p.value = IF p.check THEN -TT!MATING_SCORE ELSE DrawnFor(n)
         [] p.moves # <<>> /\ p.draw -> p.value = DrawnFor(n)
         [] p.moves # <<>> /\ ~p.draw /\ p.need = MAX_DEPTH ->
              p.value = IF p.wdl = "WIN" THEN TBWIN ELSE -TBWIN
         [] OTHER -> p.value \in moves /\ \A v \in moves : v <= p.value

ASSUME GameAssumption ==
    \A n \in DOMAIN Game :
        /\ Hash[n] \in Nat \ {0}
        /\ \A m \in DOMAIN Game : Hash[m] = Hash[n] => Game[m].value = Game[n].value
        /\ ValueAssumption(n)
        /\ \A i \in DOMAIN Game[n].moves : Game[Game[n].moves[i].to].side # Game[n].side

\* The kind of bound that an answer of tb_probe_wdl (tbprobe.h) gives.
WdlBounds ==
    [FAILED |-> "NONE", WIN |-> "LOWER", LOSS |-> "UPPER", CURSED_WIN |-> "EXACT",
     BLESSED_LOSS |-> "EXACT", DRAW |-> "EXACT"]

\* The rest of what a position is; and the calls, whose depth leaves room for a check
\* at the root (assert(depth < MAX_DEPTH), search.cpp), whose window is not empty, and
\* where the root's own side is to move.
ASSUME PositionsAssumption ==
    \A n \in DOMAIN Game :
        /\ DOMAIN Game[n].moves \subseteq 1 .. MAX_MOVES - 1
        /\ \A i \in DOMAIN Game[n].moves : Game[n].moves[i].to \in DOMAIN Game
        /\ Game[n].passed \in DOMAIN Game
        /\ {Game[n].eval, Game[n].dtz} \subseteq Int
        /\ Game[n].wdl \in DOMAIN WdlBounds
        /\ Game[n].side \in {"root", "other"}
ASSUME AsksAssumption ==
    \A ask \in Asks :
        /\ ask.fn = "pv" \/ (ask.fn = "settle" /\ ask.depth = 0)
        /\ ask.root \in DOMAIN Game /\ Game[ask.root].side = "root"
        /\ ask.ply \in Nat /\ ask.depth \in 0 .. MAX_DEPTH - 2
        /\ {ask.alpha, ask.beta} \subseteq Int /\ ask.alpha < ask.beta
ASSUME TablesAssumption ==
    /\ Slots \in Nat \ {0} /\ contempt \in Int
    /\ \A d \in 1 .. MAX_DEPTH - 1, n \in 1 .. MAX_MOVES - 1 :
          quiet_reduction(d, n) \in Int /\ capture_reduction(d, n) \in Int
\* A list of moves that is not empty has a first.
ASSUME MovesAssumption == \A n \in DOMAIN Game : Game[n].moves # <<>> => 1 \in DOMAIN Game[n].moves
\* eval() clamps what the network says, a result of the tablebase has twelve bits for its
\* distance, and the contempt option goes from 0 to 1000.
ASSUME ScoresAssumption ==
    /\ \A n \in DOMAIN Game :
          /\ -TBWIN <= Game[n].eval /\ Game[n].eval <= TBWIN
          /\ 0 <= Game[n].dtz /\ Game[n].dtz < 4096
    /\ 0 <= contempt /\ contempt <= 1000

True(n, p) == TT!eval_from_tt(Game[n].value, p)

-----------------------------------------------------------------------------
\* evaluate.cpp.  The root player is to move at an even height.
drawn_score == IF height % 2 = 0 THEN -contempt ELSE contempt
terminal == IF here.check THEN -ply_to_mate_score(ply) ELSE drawn_score

\* The score it gives.
WdlScores ==
    [FAILED |-> 0, WIN |-> TBWIN, LOSS |-> -TBWIN, CURSED_WIN |-> drawn_score + 2,
     BLESSED_LOSS |-> drawn_score - 2, DRAW |-> drawn_score]

\* A wrong variant: a position is looked up whatever its clock.
TablebaseKnows_any(p) == TbEnable /\ p.men <= 6

\* Tablebase::probe_wdl.
TablebaseKnows(p) == TbEnable /\ p.clock = 0 /\ ~p.castling /\ p.men <= 6
Wdl(answer) == [bound |-> WdlBounds[answer], score |-> WdlScores[answer]]
probe_wdl == Wdl(IF TablebaseKnows(here) THEN here.wdl ELSE "FAILED")
NoAnswer == [bound |-> "NONE", score |-> 0]

\* Tablebase::probe_root: the tablebase's move, if the probe succeeds, and the
\* score it is given.
root_moves ==
    {i \in DOMAIN here.moves : here.wdl # "FAILED" /\ here.moves[i].name = here.tb_move}
root_score ==
    CASE here.wdl = "WIN" -> TBWIN - here.dtz
      [] here.wdl = "LOSS" -> here.dtz - TBWIN
      [] OTHER -> WdlScores[here.wdl]

-----------------------------------------------------------------------------
\* A call: fn is the function ("settle" is board_quiesce) and at what it does next.
\* Every local of the functions is here; left are the moves not tried yet, by their
\* place, and the first of them is the next.
Frame(fn, depth, alpha, beta, type, allow_null) ==
    [fn |-> fn, at |-> "enter", depth |-> depth, alpha |-> alpha, beta |-> beta,
     alpha_start |-> alpha, type |-> type, allow_null |-> allow_null,
     best |-> MIN_SCORE, best_move |-> TT!NoMove, score_ub |-> MAX_SCORE,
     hash_move |-> 0, move |-> 0, left |-> {}, counter |-> 0, search_depth |-> 0,
     line |-> <<>>]

None == [score |-> 0, line |-> <<>>, given |-> FALSE]
Top == Last(stack)
InTree == Top.fn \in {"pv", "scout"}
At(place) == stack # <<>> /\ ~ret.given /\ Top.at = place
Back(places) == stack # <<>> /\ ret.given /\ Top.at \in places

Return(score, line) ==
    /\ stack' = Front(stack)
    /\ ret' = [score |-> score, line |-> line, given |-> TRUE]

\* The innermost call goes on as f, or calls g and then goes on as f.
Go(f) == stack' = Append(Front(stack), f) /\ ret' = None
Call(f, g) == stack' = Front(stack) \o <<f, g>> /\ ret' = None

MakeMove(i) == board' = Append(board, here.moves[i].to)
Unmake == board' = Front(board)

\* TranspositionTable::store, for the position n at the ply p.
StoreAt(n, p, score, bound, depth, name) ==
    LET elem == TT!Element(Hash[n], score, bound, depth, name, p)
        i == TT!Index(Hash[n])
    IN table' = IF TT!Replaces(elem, table[i]) THEN [table EXCEPT ![i] = elem] ELSE table
Store(score, bound, depth, name) == StoreAt(Last(board), ply, score, bound, depth, name)

\* The score of the first of a list of exits <<condition, score>> that is open, as a
\* sequence of one.
FirstOf(exits) ==
    LET open == {i \in DOMAIN exits : exits[i][1]}
    IN IF open = {} THEN <<>> ELSE <<exits[Min(open)][2]>>

(***************************************************************************)
(* The head of pv_search and of scout_search.  Only the first is called at *)
(* a root.                                                                 *)
(***************************************************************************)
EarlyScore(f) ==
    FirstOf(<< <<here.moves = <<>>, terminal>>,
               <<here.draw /\ ~(f.fn = "pv" /\ is_root), drawn_score>>,
               <<ply_to_mate_score(ply) <= f.alpha, ply_to_mate_score(ply)>>,
               <<-ply_to_mate_score(ply) >= f.beta, -ply_to_mate_score(ply)>>,
               <<ply >= TT!MAX_PLY, here.eval>> >>)

Extended(f) == IF here.check THEN f.depth + 1 ELSE f.depth

hit == table[TT!Index(hash)]
Hit == TT!ProbeHit(hash)
hit_eval == TT!eval_from_tt(hit.score, ply)

\* An entry that is deep enough ends a scout node.
DeepEnough(f) == hit.depth >= Extended(f)
HitDecides(f) ==
    \/ hit.bound = "LOWER" /\ hit_eval >= f.beta
    \/ hit.bound = "UPPER" /\ hit_eval <= f.alpha
    \/ hit.bound = "EXACT"

TablebaseDecides(f, answer) ==
    \/ answer.bound = "UPPER" /\ answer.score <= f.alpha
    \/ answer.bound = "LOWER" /\ answer.score >= f.beta
    \/ answer.bound = "EXACT"

\* Where the head leads to, in the order of the code.
Stage(f) ==
    IF f.fn = "pv" /\ is_root /\ TbEnable /\ here.moves # <<>> /\ root_moves # {} THEN "root"
    ELSE IF EarlyScore(f) # <<>> THEN "score"
    ELSE IF Extended(f) = 0 THEN "leaf"
    ELSE IF f.fn = "scout" /\ Hit /\ DeepEnough(f) /\ HitDecides(f) THEN "table"
    ELSE IF ~(f.fn = "pv" /\ is_root) /\ TablebaseDecides(f, probe_wdl) THEN "tablebase"
    ELSE "work"
Enter(stage) == At("enter") /\ InTree /\ Stage(Top) = stage

EndAtRoot ==
    /\ Enter("root")
    /\ \E i \in root_moves : Return(root_score, <<here.moves[i].to>>)

EndEarly == Enter("score") /\ Return(EarlyScore(Top)[1], <<>>)

\* A leaf of the main tree: what quiesce returns is returned.
EndInQuiesce ==
    Enter("leaf") /\ Go(Frame("quiesce", 0, Top.alpha, Top.beta, "NONE", FALSE))

EndInTable == Enter("table") /\ Return(hit_eval, <<>>)

EndInTablebase ==
    /\ Enter("tablebase")
    /\ Store(probe_wdl.score, probe_wdl.bound, MAX_DEPTH, TT!NoMove)
    /\ Return(probe_wdl.score, <<>>)

\* The clock or the limit on the nodes, which pv_search looks at before it asks
\* the tablebase and scout_search after it.
StopItself ==
    /\ Enter("work") \/ (Enter("tablebase") /\ Top.fn = "pv")
    /\ stop' = TRUE
    /\ Return(MAX_SCORE, <<>>)

\* unpack_move: the place of the table's move among the moves, or none.
HashPlace ==
    LET same == {i \in DOMAIN here.moves : Hit /\ here.moves[i].name = hit.move}
    IN IF same = {} THEN 0 ELSE CHOOSE i \in same : TRUE

\* The frame bounded by the tablebase, with the hash move taken from the list.
\* (A lower bound that did not cut cannot raise the alpha of a null window.)
Bounded(f, answer, low) ==
    [f EXCEPT !.depth = Extended(f),
              !.score_ub = IF answer.bound = "UPPER" THEN answer.score ELSE MAX_SCORE,
              !.best = low,
              !.alpha = Max({@, low})]
Answered(f, answer) ==
    Bounded(f, answer, IF answer.bound = "LOWER" THEN answer.score ELSE MIN_SCORE)
Untaken(f, place) ==
    [f EXCEPT !.hash_move = place,
              !.left = DOMAIN here.moves \ {place}]
Working(f) ==
    Untaken(Answered(f, IF f.fn = "pv" /\ is_root THEN NoAnswer ELSE probe_wdl), HashPlace)

\* Reverse futility: almost certain to fail high.
Futile(f) ==
    /\ f.fn = "scout" /\ ~here.endgame /\ f.allow_null /\ ~here.check
    /\ f.depth <= rfp_max_depth
    /\ here.eval - reverse_futility_margins[f.depth] >= f.beta

Start(f) ==
    IF Futile(f) THEN Return(here.eval - reverse_futility_margins[f.depth], <<>>)
    ELSE Go([f EXCEPT !.at = IF f.fn = "pv" THEN "hash" ELSE "null"])
Work == Enter("work") /\ Start(Working(Top))

(***************************************************************************)
(* What scout_search tries before its moves: to pass, and to search less   *)
(* deep above beta.                                                        *)
(***************************************************************************)
MayPass(f) ==
    ~here.endgame /\ f.allow_null /\ f.depth > null_move_depth_reduction /\ ~here.check

NullMove ==
    /\ At("null") /\ MayPass(Top)
    /\ Call([Top EXCEPT !.at = "nulled"],
            Frame("scout", Top.depth - 1 - null_move_depth_reduction, -Top.beta,
                  1 - Top.beta, "CUT", FALSE))
    /\ board' = Append(board, here.passed)

NoNullMove == At("null") /\ ~MayPass(Top) /\ Go([Top EXCEPT !.at = "probcut"])

AfterNullMove ==
    /\ Back({"nulled"})
    /\ IF -ret.score >= Top.beta THEN Return(-ret.score, <<>>)
       ELSE Go([Top EXCEPT !.at = "probcut"])
    /\ Unmake

Probcut ==
    /\ At("probcut")
    /\ LET f == Top
           threshold == f.beta + probcut_margin
       IN IF f.depth >= probcut_min_depth /\ f.beta < TBWIN_MIN /\ f.beta > -TBWIN_MIN
          THEN Call([f EXCEPT !.at = "probed"],
                    Frame("scout", f.depth - probcut_depth_reduction, threshold - 1,
                          threshold, f.type, f.allow_null))
          ELSE Go([f EXCEPT !.at = "hash"])

AfterProbcut ==
    /\ Back({"probed"})
    /\ IF ret.score >= Top.beta + probcut_margin THEN Return(ret.score, <<>>)
       ELSE Go([Top EXCEPT !.at = "hash"])

(***************************************************************************)
(* The moves, the one of the table first.                                  *)
(***************************************************************************)
Opposite(type) == IF type = "CUT" THEN "ALL" ELSE "CUT"
PvChild(f) == Frame("pv", f.depth - 1, -f.beta, -f.alpha, "PV", TRUE)
ScoutChild(f, depth) == Frame("scout", depth, -f.beta, 1 - f.beta, Opposite(f.type), TRUE)
FullChild(f) == IF f.fn = "pv" THEN PvChild(f) ELSE ScoutChild(f, f.depth - 1)

HashMove ==
    /\ At("hash") /\ Top.hash_move # 0
    /\ Call([Top EXCEPT !.at = "hashed", !.move = Top.hash_move], FullChild(Top))
    /\ MakeMove(Top.hash_move)

NoHashMove == At("hash") /\ Top.hash_move = 0 /\ Go([Top EXCEPT !.at = "loop"])

\* The position the call on top is about, when a move is made on the board.
parent == board[Len(board) - 1]
made == Game[parent].moves[Top.move]

\* f knows what the move brought.  In a null window alpha >= beta says what
\* best >= beta does, and alpha is as it was when no cut follows.
Improved(f, score) ==
    [f EXCEPT !.at = "loop", !.best = score, !.best_move = made.name,
              !.line = Append(ret.line, made.to)]
Raised(f) == [f EXCEPT !.at = "loop", !.alpha = Max({@, -ret.score})]
Cut(f) == f.alpha >= f.beta
LineOf(f) == IF f.fn = "pv" THEN f.line ELSE <<>>

\* In pv_search the score of the hash move is compared with what the tablebase
\* had put in best; in scout_search it replaces it.
AfterHashMove ==
    /\ Back({"hashed"})
    /\ Unmake
    /\ LET pv == Top.fn = "pv"
           score == IF pv THEN Max({Top.best, -ret.score}) ELSE -ret.score
           f == [Raised(Improved(Top, score)) EXCEPT !.counter = IF pv THEN 1 ELSE 0]
           best == Min({f.best, f.score_ub})
       IN IF stop THEN Return(MAX_SCORE, <<>>) /\ UNCHANGED table
          ELSE IF Cut(f)
          THEN /\ StoreAt(parent, ply - 1, best, "LOWER", f.depth, f.best_move)
               /\ Return(best, LineOf(f))
          ELSE Go(f) /\ UNCHANGED table

\* Wrong variants: a promotion that captures is no capture; it is no promotion.
IsCapture_plain(m) == m.type = "CAPTURE"
IsPromotion_plain(m) == m.type = "PROMOTION"

\* A promotion may capture too: both bits of its type are set.
IsCapture(m) == m.type \in {"CAPTURE", "CAPTURE_PROMOTION"}
IsPromotion(m) == m.type \in {"PROMOTION", "CAPTURE_PROMOTION"}

\* The depth a move is searched to, before it is clamped, and whether it is
\* not searched at all: f is the node with this move counted.
Calm(m) == ~Game[m.to].check /\ ~here.check /\ ~IsPromotion(m)
SearchDepth(f, m) ==
    LET late == f.type = "ALL" /\ Calm(m)
        slow == CASE late /\ ~IsCapture(m) /\ f.counter >= 2 -> quiet_reduction(f.depth, f.counter)
                  [] late /\ IsCapture(m) /\ f.counter >= 3 -> capture_reduction(f.depth, f.counter)
                  [] OTHER -> 0
        bad == IF late /\ IsCapture(m) /\ m.see < -see_prune_threshold THEN 1 ELSE 0
    IN f.depth - 1 - slow - bad

Pruned(f, m) ==
    /\ f.fn = "scout" /\ Calm(m)
    /\ \/ /\ f.type = "ALL" /\ f.counter > 3 /\ ~IsCapture(m)
          /\ SearchDepth(f, m) < history_max_depth /\ m.unlikely
       \/ /\ f.counter > 1 /\ f.depth <= efp_max_depth
          /\ LET margin == extended_futility_margins[f.depth]
             IN IF IsCapture(m) THEN m.see < f.alpha - here.eval - margin
                ELSE here.eval + margin <= f.alpha

\* A wrong variant: the reductions may go below the leaves.
Clamp_above(d, top) == Min({d, top})
Clamp(d, top) == Max({0, Min({d, top})})

\* The node with one more move counted.  A cut node that has not cut by its
\* fifth is taken for an all node.
Counted(f) ==
    [f EXCEPT !.left = @ \ {Min(@)}, !.move = Min(f.left), !.counter = @ + 1,
              !.type = IF @ = "CUT" /\ f.counter >= 4 THEN "ALL" ELSE @]

PruneMove ==
    /\ At("loop") /\ InTree /\ Top.left # {}
    /\ LET f == Counted(Top) IN Pruned(f, here.moves[f.move]) /\ Go(f)

\* pv_search gives its first move the whole window and scouts the others.
TryMove ==
    /\ At("loop") /\ InTree /\ Top.left # {}
    /\ LET f == Counted(Top)
           m == here.moves[f.move]
           d == Clamp(SearchDepth(f, m), f.depth - 1)
       IN /\ ~Pruned(f, m)
          /\ CASE f.fn = "pv" /\ f.counter = 1 -> Call([f EXCEPT !.at = "searched"], PvChild(f))
               [] f.fn = "pv" /\ f.counter > 1 ->
                    Call([f EXCEPT !.at = "tried"],
                         Frame("scout", f.depth - 1, -f.alpha - 1, -f.alpha, "CUT", TRUE))
               [] OTHER -> Call([f EXCEPT !.at = "tried", !.search_depth = d], ScoutChild(f, d))
          /\ MakeMove(f.move)

\* A wrong variant: a scout that lands in the window is believed.
Again_never(f) == FALSE

\* What a scout in pv_search, or a reduced search in scout_search, has not settled.
Again(f) ==
    /\ f.at = "tried" /\ -ret.score > f.alpha
    /\ IF f.fn = "pv" THEN -ret.score < f.beta
       ELSE f.type = "ALL" /\ f.search_depth < f.depth - 1

TryAgain ==
    /\ Back({"tried"}) /\ Again(Top)
    /\ Call([Top EXCEPT !.at = "searched"], FullChild(Top))

\* Wrong variants: the flag is not looked at; the move that was being searched
\* when it was raised stays on the board.
Stopped_never == FALSE
LeaveBoard_made == IF stop THEN UNCHANGED board ELSE Unmake

Stopped == stop
LeaveBoard == Unmake

AfterMove ==
    /\ Back({"tried", "searched"}) /\ InTree /\ ~Again(Top)
    /\ LET better == -ret.score > Top.best
           f == Raised(IF better THEN Improved(Top, -ret.score) ELSE Top)
       IN IF Stopped THEN Return(MAX_SCORE, <<>>)
          ELSE Go([f EXCEPT !.left = IF Cut(f) THEN {} ELSE @])
    /\ LeaveBoard

BoundOf(score, f) ==
    IF score <= f.alpha_start THEN "UPPER" ELSE IF score >= f.beta THEN "LOWER" ELSE "EXACT"

\* The end of a node.  pv_search has nothing to store if no move was better
\* than what the tablebase had put in best.
Done ==
    /\ At("loop") /\ InTree /\ Top.left = {}
    /\ LET best == Min({Top.best, Top.score_ub})
       IN IF Top.fn = "pv" /\ Top.line = <<>> THEN Return(Top.best, <<>>) /\ UNCHANGED table
          ELSE /\ Store(best, BoundOf(best, Top), Top.depth, Top.best_move)
               /\ Return(best, LineOf(Top))

(***************************************************************************)
(* quiesce, which looks neither at the flag nor at the tables, and         *)
(* board_quiesce, which is the same and gives back the position its score  *)
(* is that of: the one the line leads to.                                  *)
(***************************************************************************)
InQuiesce == ~InTree

\* What ends it before a move is tried.  In check the static score raises alpha
\* but ends nothing.
QuiesceScore(f, p) ==
    FirstOf(<< <<p.check /\ p.moves = <<>>, terminal>>,
               <<p.draw, drawn_score>>,
               <<~p.check /\ p.eval >= f.beta, p.eval>>,
               <<p.eval + 900 + (IF p.seventh THEN 500 ELSE 0) <= Max({f.alpha, p.eval}), p.eval>>,
               <<~p.check /\ \A i \in DOMAIN p.moves : ~IsCapture(p.moves[i]), p.eval>> >>)

QuiesceStart(f, p, early) ==
    IF early # <<>> THEN Return(early[1], <<>>)
    ELSE Go([f EXCEPT !.at = "loop", !.alpha = Max({@, p.eval}),
               !.left = {i \in DOMAIN p.moves : p.check \/ IsCapture(p.moves[i])}])
QuiesceEnter ==
    At("enter") /\ InQuiesce /\ QuiesceStart(Top, here, QuiesceScore(Top, here))

\* A capture worth a try; in check every evasion is.
Worth(p, m, alpha) == p.check \/ (m.see >= 0 /\ m.see >= alpha - p.eval - 100)

\* A wrong variant: a capture that is not worth it is looked at again.
Untried_same(f) == f.left

Untried(f) == f.left \ {Min(f.left)}

QuiesceSkip ==
    /\ At("loop") /\ InQuiesce /\ Top.left # {}
    /\ ~Worth(here, here.moves[Min(Top.left)], Top.alpha)
    /\ Go([Top EXCEPT !.left = Untried(Top)])

QuiesceMove ==
    /\ At("loop") /\ InQuiesce /\ Top.left # {}
    /\ Worth(here, here.moves[Min(Top.left)], Top.alpha)
    /\ Call([Top EXCEPT !.at = "searched", !.left = Untried(Top)],
            Frame(Top.fn, 0, -Top.beta, -Top.alpha, "NONE", FALSE))
    /\ MakeMove(Min(Top.left))

\* A wrong variant: any move that is tried is taken for the way there.
Way_any(f) == Append(ret.line, Last(board))

Way(f) == IF -ret.score > f.alpha THEN Append(ret.line, Last(board)) ELSE f.line

AfterQuiesceMove ==
    /\ Back({"searched"}) /\ InQuiesce
    /\ LET f == Raised(Top)
       IN Go([f EXCEPT !.left = IF Cut(f) THEN {} ELSE @,
                       !.line = IF Top.fn = "settle" THEN Way(Top) ELSE @])
    /\ Unmake

QuiesceDone == At("loop") /\ InQuiesce /\ Top.left = {} /\ Return(Top.alpha, Top.line)

-----------------------------------------------------------------------------
\* The steps that leave the board and the table alone, those that move, those that
\* store.
Look ==
    \/ EndAtRoot \/ EndEarly \/ EndInQuiesce \/ EndInTable \/ Work \/ NoNullMove
    \/ Probcut \/ AfterProbcut \/ NoHashMove \/ PruneMove \/ TryAgain
    \/ QuiesceEnter \/ QuiesceSkip \/ QuiesceDone
Play ==
    \/ NullMove \/ AfterNullMove \/ HashMove \/ TryMove \/ AfterMove
    \/ QuiesceMove \/ AfterQuiesceMove
Keep == EndInTablebase \/ Done

Step ==
    /\ \/ Look /\ UNCHANGED <<board, stop, table>>
       \/ Play /\ UNCHANGED <<stop, table>>
       \/ Keep /\ UNCHANGED <<board, stop>>
       \/ AfterHashMove /\ UNCHANGED stop
       \/ StopItself /\ UNCHANGED <<board, table>>
    /\ UNCHANGED <<root_ply, asked, calls>>

Idle == stack = <<>>

Init ==
    /\ stack = <<>> /\ ret = None /\ board = <<>> /\ root_ply = 0 /\ stop = FALSE
    /\ table = [i \in 0 .. Slots - 1 |-> TT!Empty]
    /\ asked = [fn |-> "pv", root |-> 0, ply |-> 0, depth |-> 0, alpha |-> 0, beta |-> 0] /\ calls = 0

\* A call of Search::search, or of board_quiesce with the widest window, on a root
\* that may be another one than before.
Ask ==
    /\ Idle /\ calls < MaxCalls
    /\ \E ask \in Asks :
        /\ stack' = <<Frame(ask.fn, ask.depth, ask.alpha, ask.beta, "PV", TRUE)>>
        /\ board' = <<ask.root>> /\ root_ply' = ask.ply
        /\ asked' = ask
    /\ ret' = None /\ stop' = FALSE /\ calls' = calls + 1
    /\ UNCHANGED table

\* The other thread, at any time.  It is the one that runs board_quiesce.
SetStop ==
    /\ ~Idle /\ ~stop /\ asked.fn = "pv"
    /\ stop' = TRUE
    /\ UNCHANGED <<stack, ret, board, root_ply, table, asked, calls>>

Next == Ask \/ Step \/ SetStop
Spec == Init /\ [][Next]_vars
FairSpec == Spec /\ WF_vars(Step)

(***************************************************************************)
(* Properties.                                                             *)
(***************************************************************************)
TypeOK ==
    /\ stop \in BOOLEAN /\ ret.given \in BOOLEAN
    /\ \A i \in DOMAIN stack :
          /\ stack[i].fn \in {"pv", "scout", "quiesce", "settle"}
          /\ stack[i].depth \in 0 .. MAX_DEPTH - 1 /\ stack[i].counter \in 0 .. MAX_MOVES - 1
          /\ stack[i].fn \in {"pv", "scout"} =>
                stack[i].alpha < stack[i].beta \/ stack[i].left = {}
    /\ \A i \in DOMAIN board : board[i] \in DOMAIN Game

\* A score in a window, as a statement about the value of the position.
Holds(score, alpha, beta, value) ==
    /\ score <= alpha => value <= score
    /\ score >= beta => value >= score
    /\ alpha < score /\ score < beta => value = score

Ended(fn) == Idle /\ ret.given /\ ~stop /\ asked.fn = fn
Judged(n, depth) == depth >= Game[n].need

\* "Score is exact" (search.cpp:638) when it lies inside the window, and a
\* bound on the side it fails on, whatever was reduced, pruned, passed or
\* looked up on the way.
AnswerHolds ==
    Ended("pv") /\ Judged(board[1], asked.depth) =>
        Holds(ret.score, asked.alpha, asked.beta, True(board[1], root_ply))

\* "The saved score is a lower bound for the score of the sub tree", "an upper
\* bound", "an exact value" (search.cpp:79): so after any number of searches,
\* whenever they were stopped, at whatever ply the position was met.
EntryHolds(e, value) ==
    CASE e.bound = "LOWER" -> value >= e.score
      [] e.bound = "UPPER" -> value <= e.score
      [] e.bound = "EXACT" -> value = e.score
EntriesHold ==
    \A n \in DOMAIN Game :
        LET e == table[TT!Index(Hash[n])]
        IN e.hash = Hash[n] /\ Judged(n, e.depth) => EntryHolds(e, Game[n].value)

\* The line of an exact answer can be played from the root and its first move
\* brings the score; the position board_quiesce gives back can be reached and has
\* the score, whatever windows it came through.
Played(line) == <<board[1]>> \o Reverse(line)
CanPlay(p) ==
    \A k \in 1 .. Len(p) - 1 :
        \E i \in DOMAIN Game[p[k]].moves : Game[p[k]].moves[i].to = p[k + 1]

\* What n is worth standing still, after k moves, to the side to move at the root.
Standing(n, k) ==
    (IF k % 2 = 0 THEN 1 ELSE -1) *
        IF Game[n].check /\ Game[n].moves = <<>> THEN -ply_to_mate_score(root_ply + k)
        ELSE IF Game[n].draw THEN DrawnFor(n) ELSE Game[n].eval

BringsScore(p) ==
    /\ CanPlay(p) /\ Len(p) > 1
    /\ Judged(board[1], asked.depth) => -True(p[2], root_ply + 1) = ret.score
Settles(p) == CanPlay(p) /\ ret.score = Standing(Last(p), Len(p) - 1)
LineBrings ==
    /\ Ended("pv") /\ asked.alpha < ret.score /\ ret.score < asked.beta =>
          BringsScore(Played(ret.line))
    /\ Ended("settle") => Settles(Played(ret.line))

\* Every move and null move is taken back on every way out.
BoardRestored == Idle => Len(board) <= 1

\* Every call ends, though no step but those of the call itself must happen.
Returns == ~Idle ~> Idle
=============================================================================
