----------------------------- MODULE MoveOrdering -----------------------------
(***************************************************************************)
(* The order in which a node tries its moves (rank_and_sort_moves in       *)
(* ordering.cpp), and the two tables it learns from (KillerTable and       *)
(* HistoryTable in transposition.cpp), which every beta cutoff of the      *)
(* search writes.                                                          *)
(*                                                                         *)
(* The countermove table is written and read by nobody.  What a move looks *)
(* like from the position it is tried in, its exchange value and whether   *)
(* it gives check, is an input here.                                       *)
(***************************************************************************)
EXTENDS Integers, Sequences

CONSTANTS
    Moves,
    Type,       \* of each move: one of MoveTypes
    Slot,       \* the history cell of each move: its piece and target
    Plies,
    Depths,     \* the depths at which there are cutoffs
    SeeValues,  \* the results of SEE::see_capture
    MaxHistory  \* bound on a history cell

n_krow == 3
MoveTypes == {"QUIETmv", "DOUBLE_PUSH", "CAPTURE", "PROMOTION", "CAPTURE_PROMOTION"}
NoMove == "null"

ASSUME MovesAssumption == NoMove \notin Moves
ASSUME TypeAssumption == Type \in [Moves -> MoveTypes]
ASSUME DepthsAssumption == Depths \subseteq Nat /\ MaxHistory \in Nat
ASSUME SeeAssumption == SeeValues \subseteq Int
ASSUME SlotAssumption == DOMAIN Slot = Moves

VARIABLES
    killers,    \* KillerTable._data: a row for each ply
    indicies,   \* where the next killer of a ply goes
    history     \* HistoryTable._data

vars == <<killers, indicies, history>>

Rows == 0 .. n_krow - 1
Cells == {Slot[m] : m \in Moves}

is_capture(move) == Type[move] \in {"CAPTURE", "CAPTURE_PROMOTION"}
is_quiet(move) == ~is_capture(move)
InRow(move, row) == \E i \in DOMAIN row : row[i] = move

Init ==
    /\ killers = [ply \in Plies |-> [i \in Rows |-> NoMove]]
    /\ indicies = [ply \in Plies |-> 0]
    /\ history = [c \in Cells |-> 0]

\* Wrong variants: a move already in the row is kept again; the place of the
\* next move never comes to the last one; captures are kept too.
KillerStoreAgain(ply, move) ==
    IF Type[move] # "QUIETmv"
    THEN UNCHANGED <<killers, indicies>>
    ELSE /\ killers' = [killers EXCEPT ![ply][indicies[ply]] = move]
         /\ indicies' = [indicies EXCEPT ![ply] = (@ + 1) % n_krow]

KillerStoreStuck(ply, move) ==
    IF Type[move] # "QUIETmv" \/ InRow(move, killers[ply])
    THEN UNCHANGED <<killers, indicies>>
    ELSE /\ killers' = [killers EXCEPT ![ply][indicies[ply]] = move]
         /\ indicies' = [indicies EXCEPT ![ply] = (@ + 1) % (n_krow - 1)]

KillerStoreCaptures(ply, move) ==
    IF InRow(move, killers[ply])
    THEN UNCHANGED <<killers, indicies>>
    ELSE /\ killers' = [killers EXCEPT ![ply][indicies[ply]] = move]
         /\ indicies' = [indicies EXCEPT ![ply] = (@ + 1) % n_krow]

\* KillerTable::store
KillerStore(ply, move) ==
    IF Type[move] # "QUIETmv" \/ InRow(move, killers[ply])
    THEN UNCHANGED <<killers, indicies>>
    ELSE /\ killers' = [killers EXCEPT ![ply][indicies[ply]] = move]
         /\ indicies' = [indicies EXCEPT ![ply] = (@ + 1) % n_krow]

\* A wrong variant: captures take from the score of their cell.
HistoryStoreSigned(depth, move) ==
    history' = [history EXCEPT ![Slot[move]] =
                    IF is_quiet(move) THEN @ + depth * depth ELSE @ - depth]

\* HistoryTable::store.  Promotions that capture nothing count as quiet.
HistoryStore(depth, move) ==
    history' = IF is_quiet(move)
               THEN [history EXCEPT ![Slot[move]] = @ + depth * depth]
               ELSE history

\* A beta cutoff, in scout_search or pv_search.
Cutoff(ply, depth, move) ==
    /\ history[Slot[move]] + depth * depth <= MaxHistory
    /\ KillerStore(ply, move)
    /\ HistoryStore(depth, move)

\* HistoryTable::clear, at the start of a search, which leaves the killers.
NewSearch ==
    /\ history' = [c \in Cells |-> 0]
    /\ UNCHANGED <<killers, indicies>>

Next ==
    \/ \E ply \in Plies, depth \in Depths, move \in Moves : Cutoff(ply, depth, move)
    \/ NewSearch

Spec == Init /\ [][Next]_vars

-----------------------------------------------------------------------------
\* A wrong variant: the history score is not capped.
SaturatedNot(n) == n

\* rank_and_sort_moves at a node of this ply, for a move that is not the hash
\* move, whose see_capture is see.  Promotions are taken to be to a queen.
Saturated(n) == IF n < 100000 THEN n ELSE 100000

CaptureScore(see, check) ==
    see + (IF check THEN 5000 ELSE 0)
        + (CASE see > 50 -> 400000 [] see > -50 /\ see <= 50 -> 150000 [] OTHER -> -400000)

Score(ply, move, see, check) ==
    CASE InRow(move, killers[ply]) -> 200000
      [] ~InRow(move, killers[ply]) /\ is_capture(move) -> CaptureScore(see, check)
      [] ~InRow(move, killers[ply]) /\ Type[move] = "PROMOTION" -> 100900
      [] OTHER -> Saturated(history[Slot[move]]) + (IF check THEN 100000 ELSE 0)

(***************************************************************************)
(* Properties.                                                             *)
(***************************************************************************)
TypeOK ==
    /\ killers \in [Plies -> [Rows -> Moves \cup {NoMove}]]
    /\ indicies \in [Plies -> Rows]
    /\ history \in [Cells -> Nat]

\* "Don't keep duplicates" (transposition.cpp:119): no move takes two of the
\* places of a row.
KillersDistinct ==
    \A ply \in Plies, i, j \in Rows :
        killers[ply][i] = killers[ply][j] /\ i # j => killers[ply][i] = NoMove

\* Only a quiet move is ever tried as a killer: a good capture keeps its place
\* before the killers even if it has cut this ply off before.
KillersQuiet ==
    \A ply \in Plies, i \in Rows :
        killers[ply][i] # NoMove => Type[killers[ply][i]] = "QUIETmv"

\* The table is a queue of the last n_krow different killers of each ply.
Oldest(ply) == [k \in 1 .. n_krow |-> killers[ply][(indicies[ply] + k - 1) % n_krow]]
Held(ply) == IF killers[ply][indicies[ply]] = NoMove THEN indicies[ply] ELSE n_krow
Recent(ply) == [k \in 1 .. Held(ply) |-> Oldest(ply)[n_krow - Held(ply) + k]]
Queue == INSTANCE KillerQueue WITH
            queue <- [ply \in Plies |-> Recent(ply)],
            Length <- n_krow
QueueSpec == Queue!Spec

\* The order rank_and_sort_moves describes at its end (ordering.cpp:210), for
\* quiet moves that give no check, however many cutoffs they have to their
\* name: winning captures, killers, even captures, quiet moves, losing captures.
OrderBands ==
    \A ply \in Plies, take \in {m \in Moves : is_capture(m)},
       quiet \in {m \in Moves : Type[m] \in {"QUIETmv", "DOUBLE_PUSH"}},
       see \in SeeValues, c, d \in BOOLEAN :
        LET killer == InRow(quiet, killers[ply])
            even == see > -50 /\ see < 50
            taking == Score(ply, take, see, c)
            other == Score(ply, quiet, 0, d)
        IN /\ see > 50 /\ killer => taking > other
           /\ even /\ killer => other > taking
           /\ even /\ ~killer /\ ~d => taking > other
           /\ see < -50 => other > taking
=============================================================================
