--------------------------------- MODULE Uci ---------------------------------
(***************************************************************************)
(* The command loop of admete (uci.cpp) and the one thread it starts.      *)
(*                                                                         *)
(* The main thread blocks in getline, tidies up the previous worker, stops *)
(* it when the command asks for that, and then carries the command out.    *)
(* `go` and `perft` hand the work to a worker thread that shares the board *)
(* and the two atomics stop_flag and running_flag with the main thread.    *)
(*                                                                         *)
(* A step is one access to a shared atomic, one join, or a stretch of code *)
(* between two of them.  pv_search is one step of the worker here: whether *)
(* it is cut short by a node or a time limit is a nondeterministic choice  *)
(* and so is every reading of the clock.                                   *)
(***************************************************************************)
EXTENDS Integers

CONSTANTS
    Commands,       \* the commands the GUI sends; "" is an empty line
    Positions,      \* the positions the GUI may set up
    NoMoves,        \* those with no legal move (mate or stalemate)
    StartPos,       \* the position of ucinewgame and of a fresh board
    Limits,         \* the limits a `go` may carry
    DefaultDepth    \* the depth a `go` without one searches to (20 in go())

AllCommands == {"", "uci", "isready", "ucinewgame", "setoption", "position",
                "quiesce", "go", "perft", "divide", "stop", "quit",
                "d", "h", "features"}

\* What go() parses: a depth, whether nodes was given, whether the clock or
\* movetime was, and whether mate was.  infinite is not parsed.
LimitsType == [depth : Nat, nodes : BOOLEAN, timed : BOOLEAN, mate : BOOLEAN]

ASSUME CommandsAssumption == Commands \subseteq AllCommands
ASSUME PositionsAssumption == StartPos \in Positions /\ NoMoves \subseteq Positions
ASSUME LimitsAssumption == Limits \subseteq LimitsType /\ DefaultDepth \in Nat

\* `go` with nothing behind it.
NoLimits == [depth |-> DefaultDepth, nodes |-> FALSE, timed |-> FALSE,
             mate |-> FALSE]

VARIABLES
    mpc,            \* where the main thread is
    token,          \* the command word; declared outside the loop, so it lasts
    board,          \* the position on the shared Board
    mate_depth,     \* TRUE iff options.mate_depth # 0
    limits,         \* the other limits of the last go
    stop_flag, running_flag,
    wpc,            \* where the worker is; "none" iff it is not joinable
    depth,          \* the iteration of the running search
    allow_cutoff,   \* the local of Search::search
    line,           \* the principal line: does it hold a move?
    said,           \* history: what the last bestmove was
    asked,          \* history: the board the last go was given
    owed            \* history: gos read and not yet answered

search_vars == <<depth, allow_cutoff, line>>
history == <<said, asked, owed>>
vars == <<mpc, token, board, mate_depth, limits, stop_flag, running_flag,
          wpc, search_vars, history>>

(***************************************************************************)
(* Where the threads are.                                                  *)
(***************************************************************************)
Dead == {"exited", "terminated", "crashed"}
Alive == mpc \notin Dead

Search_run == {"s_iterate", "s_check", "s_report", "s_answer"}
Search_pcs == {"s_clear_stop", "s_set_running"} \cup Search_run
Perft_run == {"p_clear_stop", "p_count", "p_report"}
Perft_pcs == {"p_set_running"} \cup Perft_run

\* The program points at which running_flag is up.
Running_pcs == Search_run \cup Perft_run \cup {"clear_running"}
\* The program points from which the worker may still touch the board.
Live_pcs == Search_pcs \cup Perft_pcs

Joinable == wpc # "none"

\* The commands whose branch of uci() begins with stop(options).
Stopping == {"isready", "setoption", "position", "quiesce", "go", "perft",
             "divide", "stop"}
\* The commands whose handler reads or writes the board or the tables.
Shared == {"ucinewgame", "setoption", "position", "quiesce", "go", "perft",
           "divide", "d", "h", "features"}

Init ==
    /\ mpc = "getline" /\ token = "" /\ board = StartPos
    /\ mate_depth = FALSE /\ limits = NoLimits
    /\ stop_flag = FALSE /\ running_flag = FALSE
    /\ wpc = "none" /\ depth = 0 /\ allow_cutoff = FALSE /\ line = "empty"
    /\ said = "none" /\ asked = StartPos /\ owed = 0

(***************************************************************************)
(* The main thread.                                                        *)
(***************************************************************************)

\* std::getline returns; an empty line leaves the token as it was.
Getline(c) ==
    /\ mpc = "getline"
    /\ token' = IF c = "" THEN token ELSE c
    /\ owed' = IF token' = "go" THEN owed + 1 ELSE owed
    /\ mpc' = "cleanup"
    /\ UNCHANGED <<board, mate_depth, limits, stop_flag, running_flag, wpc,
                   search_vars, said, asked>>

Dispatch == IF token \in Stopping THEN "stop" ELSE "exec"

\* A wrong variant, which every property of a passing run is tried against
\* (PROJECT.json, "mutants"): cleanup_thread without its join.
CleanupNoJoin ==
    /\ mpc = "cleanup" /\ mpc' = Dispatch
    /\ UNCHANGED <<token, board, mate_depth, limits, stop_flag, running_flag,
                   wpc, search_vars, history>>

\* cleanup_thread: a thread that is joinable and not running is joined.
Cleanup ==
    /\ mpc = "cleanup"
    /\ mpc' = IF ~running_flag /\ Joinable THEN "cleanup_join" ELSE Dispatch
    /\ UNCHANGED <<token, board, mate_depth, limits, stop_flag, running_flag,
                   wpc, search_vars, history>>

CleanupJoin ==
    /\ mpc = "cleanup_join" /\ wpc = "done"
    /\ wpc' = "none" /\ mpc' = Dispatch
    /\ UNCHANGED <<token, board, mate_depth, limits, stop_flag, running_flag,
                   search_vars, history>>

\* stop(options): is_running, set_stop and join are three steps.
StopTest ==
    /\ mpc = "stop"
    /\ mpc' = IF running_flag THEN "set_stop" ELSE "exec"
    /\ UNCHANGED <<token, board, mate_depth, limits, stop_flag, running_flag,
                   wpc, search_vars, history>>

SetStop ==
    /\ mpc = "set_stop"
    /\ stop_flag' = TRUE /\ mpc' = "stop_join"
    /\ UNCHANGED <<token, board, mate_depth, limits, running_flag, wpc,
                   search_vars, history>>

StopJoin ==
    /\ mpc = "stop_join" /\ wpc = "done"
    /\ wpc' = "none" /\ mpc' = "exec"
    /\ UNCHANGED <<token, board, mate_depth, limits, stop_flag, running_flag,
                   search_vars, history>>

\* go(): parse the limits, then start the thread.  Assigning a new thread to
\* running_thread while the old one is joinable calls std::terminate.
ExecGo(l) ==
    /\ mpc = "exec" /\ token = "go"
    /\ limits' = l
    /\ mate_depth' = (mate_depth \/ l.mate)
    /\ asked' = board
    /\ IF Joinable THEN mpc' = "terminated" /\ UNCHANGED wpc
                   ELSE mpc' = "getline" /\ wpc' = "s_clear_stop"
    /\ UNCHANGED <<token, board, stop_flag, running_flag, search_vars,
                   said, owed>>

ExecPerft ==
    /\ mpc = "exec" /\ token = "perft"
    /\ IF Joinable THEN mpc' = "terminated" /\ UNCHANGED wpc
                   ELSE mpc' = "getline" /\ wpc' = "p_set_running"
    /\ UNCHANGED <<token, board, mate_depth, limits, stop_flag, running_flag,
                   search_vars, history>>

\* A wrong variant: a string that is refused half way leaves half a position.
ExecSetBoardHalf(p) ==
    /\ mpc = "exec" /\ token = "position"
    /\ board' = {p} /\ mpc' = "getline"
    /\ UNCHANGED <<token, mate_depth, limits, stop_flag, running_flag, wpc,
                   search_vars, history>>

\* position() and quiesce() leave some position on the board, ucinewgame the
\* initial one; an invalid position string leaves it alone.
ExecSetBoard(p) ==
    /\ mpc = "exec"
    /\ \/ token \in {"position", "quiesce"}
       \/ token = "ucinewgame" /\ p = StartPos
    /\ board' = p /\ mpc' = "getline"
    /\ UNCHANGED <<token, mate_depth, limits, stop_flag, running_flag, wpc,
                   search_vars, history>>

\* Every other command: what it prints, and the options it sets, are not
\* modelled; divide and features put the board back.
ExecOther ==
    /\ mpc = "exec"
    /\ token \in {"", "uci", "isready", "setoption", "divide", "stop",
                  "d", "h", "features"}
    /\ mpc' = "getline"
    /\ UNCHANGED <<token, board, mate_depth, limits, stop_flag, running_flag,
                   wpc, search_vars, history>>

ExecQuit ==
    /\ mpc = "exec" /\ token = "quit"
    /\ mpc' = "exited"
    /\ UNCHANGED <<token, board, mate_depth, limits, stop_flag, running_flag,
                   wpc, search_vars, history>>

Main ==
    \/ Cleanup \/ CleanupJoin
    \/ StopTest \/ SetStop \/ StopJoin
    \/ \E l \in Limits : ExecGo(l)
    \/ ExecPerft
    \/ \E p \in Positions : ExecSetBoard(p)
    \/ ExecOther \/ ExecQuit

(***************************************************************************)
(* The worker: do_search.                                                  *)
(***************************************************************************)
SearchClearStop ==
    /\ Alive /\ wpc = "s_clear_stop"
    /\ stop_flag' = FALSE /\ wpc' = "s_set_running"
    /\ UNCHANGED <<mpc, token, board, mate_depth, limits, running_flag,
                   search_vars, history>>

\* running_flag goes up and Search::search sets up its loop, whose first
\* iteration is depth 2.
SearchSetRunning ==
    /\ Alive /\ wpc = "s_set_running"
    /\ running_flag' = TRUE
    /\ depth' = 2 /\ allow_cutoff' = FALSE /\ line' = "empty"
    /\ wpc' = IF limits.depth >= 2 THEN "s_iterate" ELSE "s_answer"
    /\ UNCHANGED <<mpc, token, board, mate_depth, limits, stop_flag, history>>

\* A wrong variant: the clock is obeyed from the first iteration on.
SelfStopEarly == board \notin NoMoves /\ (limits.nodes \/ limits.timed)

\* The aspiration loop around pv_search.  The node limit, and the time limit
\* once allow_cutoff is set, make the search raise stop_flag itself; at a root
\* with no legal move pv_search returns at once.
SelfStop == board \notin NoMoves /\ (limits.nodes \/ (limits.timed /\ allow_cutoff))

\* A wrong variant: stop_flag is reset at the start of every iteration.
SearchIterateReset ==
    /\ Alive /\ wpc = "s_iterate"
    /\ wpc' = "s_check" /\ stop_flag' = FALSE
    /\ UNCHANGED <<mpc, token, board, mate_depth, limits, running_flag,
                   search_vars, history>>

SearchIterate ==
    /\ Alive /\ wpc = "s_iterate"
    /\ wpc' = "s_check"
    /\ \/ UNCHANGED stop_flag
       \/ SelfStop /\ stop_flag' = TRUE
    /\ UNCHANGED <<mpc, token, board, mate_depth, limits, running_flag,
                   search_vars, history>>

\* A wrong variant: a search that was stopped ends without a bestmove.
SearchCheckSilent ==
    /\ Alive /\ wpc = "s_check"
    /\ wpc' = IF stop_flag THEN "clear_running" ELSE "s_report"
    /\ UNCHANGED <<mpc, token, board, mate_depth, limits, stop_flag,
                   running_flag, search_vars, history>>

\* "Check if we've been sent a stop signal."
SearchCheck ==
    /\ Alive /\ wpc = "s_check"
    /\ wpc' = IF stop_flag THEN "s_answer" ELSE "s_report"
    /\ UNCHANGED <<mpc, token, board, mate_depth, limits, stop_flag,
                   running_flag, search_vars, history>>

\* A wrong variant: the loop does not go deeper.
SearchReportSameDepth ==
    /\ Alive /\ wpc = "s_report" /\ board \notin NoMoves
    /\ allow_cutoff' = TRUE /\ line' = "move"
    /\ wpc' = "s_iterate"
    /\ UNCHANGED <<mpc, token, board, mate_depth, limits, stop_flag,
                   running_flag, depth, history>>

\* The rest of the iteration: keep score and line, report, and go on or leave
\* the loop.
SearchReport ==
    /\ Alive /\ wpc = "s_report" /\ board \notin NoMoves
    /\ allow_cutoff' = TRUE /\ line' = "move"
    /\ \/ limits.timed /\ wpc' = "s_answer" /\ UNCHANGED depth
       \/ mate_depth /\ wpc' = "s_answer" /\ UNCHANGED depth
       \/ /\ depth' = depth + 1
          /\ wpc' = IF depth + 1 <= limits.depth THEN "s_iterate" ELSE "s_answer"
    /\ UNCHANGED <<mpc, token, board, mate_depth, limits, stop_flag,
                   running_flag, history>>

\* With no legal move the line is empty, and principle.back() reads in front
\* of the null pointer of a vector that never held anything.
SearchReportCrash ==
    /\ Alive /\ wpc = "s_report" /\ board \in NoMoves
    /\ mpc' = "crashed"
    /\ UNCHANGED <<token, board, mate_depth, limits, stop_flag, running_flag,
                   wpc, search_vars, history>>

\* A wrong variant: the move of the line is announced without the check that
\* it is legal.
SearchAnswerUnchecked ==
    /\ Alive /\ wpc = "s_answer" /\ ~(line = "empty" /\ limits.depth = 0)
    /\ said' = IF line = "move" THEN "found" ELSE "junk"
    /\ owed' = owed - 1
    /\ wpc' = "clear_running"
    /\ UNCHANGED <<mpc, token, board, mate_depth, limits, stop_flag,
                   running_flag, search_vars, asked>>

\* line.back() and bestmove(): a move that is not legal is replaced by the
\* first legal one.  back() of the empty line reads the word in front of what
\* reserve(max_depth) allocated, which is no legal move but by accident;
\* legal_moves[0] of an empty list is junk.
SearchAnswer ==
    /\ Alive /\ wpc = "s_answer" /\ ~(line = "empty" /\ limits.depth = 0)
    /\ said' = CASE board \in NoMoves -> "junk"
                 [] board \notin NoMoves /\ line = "move" -> "found"
                 [] OTHER -> "any_legal"
    /\ owed' = owed - 1
    /\ wpc' = "clear_running"
    /\ UNCHANGED <<mpc, token, board, mate_depth, limits, stop_flag,
                   running_flag, search_vars, asked>>

\* reserve(0) allocates nothing, so that back() reads in front of null.
SearchAnswerCrash ==
    /\ Alive /\ wpc = "s_answer" /\ line = "empty" /\ limits.depth = 0
    /\ mpc' = "crashed"
    /\ UNCHANGED <<token, board, mate_depth, limits, stop_flag, running_flag,
                   wpc, search_vars, history>>

ClearRunning ==
    /\ Alive /\ wpc = "clear_running"
    /\ running_flag' = FALSE /\ wpc' = "done"
    /\ UNCHANGED <<mpc, token, board, mate_depth, limits, stop_flag,
                   search_vars, history>>

(***************************************************************************)
(* The worker: do_perft.                                                   *)
(***************************************************************************)
PerftSetRunning ==
    /\ Alive /\ wpc = "p_set_running"
    /\ running_flag' = TRUE /\ wpc' = "p_clear_stop"
    /\ UNCHANGED <<mpc, token, board, mate_depth, limits, stop_flag,
                   search_vars, history>>

PerftClearStop ==
    /\ Alive /\ wpc = "p_clear_stop"
    /\ stop_flag' = FALSE /\ wpc' = "p_count"
    /\ UNCHANGED <<mpc, token, board, mate_depth, limits, running_flag,
                   search_vars, history>>

\* perft() walks the tree, leaving early when it sees stop_flag; the result is
\* reported unless stop_flag is up.
PerftCount ==
    /\ Alive /\ wpc = "p_count"
    /\ wpc' = IF stop_flag THEN "clear_running" ELSE "p_report"
    /\ UNCHANGED <<mpc, token, board, mate_depth, limits, stop_flag,
                   running_flag, search_vars, history>>

PerftReport ==
    /\ Alive /\ wpc = "p_report"
    /\ wpc' = "clear_running"
    /\ UNCHANGED <<mpc, token, board, mate_depth, limits, stop_flag,
                   running_flag, search_vars, history>>

Worker ==
    \/ SearchClearStop \/ SearchSetRunning \/ SearchIterate \/ SearchCheck
    \/ SearchReport \/ SearchReportCrash \/ SearchAnswer \/ SearchAnswerCrash
    \/ PerftSetRunning \/ PerftClearStop \/ PerftCount \/ PerftReport
    \/ ClearRunning

\* The process is gone.
Gone == ~Alive /\ UNCHANGED vars

Next == (\E c \in Commands : Getline(c)) \/ Main \/ Worker \/ Gone

Spec == Init /\ [][Next]_vars

\* Both threads are scheduled; nothing obliges the GUI to send anything.
FairSpec == Spec /\ WF_vars(Main) /\ WF_vars(Worker)

(***************************************************************************)
(* Properties.                                                             *)
(***************************************************************************)
TypeOK ==
    /\ mpc \in {"getline", "cleanup", "cleanup_join", "stop", "set_stop",
                "stop_join", "exec"} \cup Dead
    /\ token \in AllCommands
    /\ board \in Positions /\ asked \in Positions
    /\ mate_depth \in BOOLEAN /\ limits \in Limits \cup {NoLimits}
    /\ stop_flag \in BOOLEAN /\ running_flag \in BOOLEAN
    /\ wpc \in {"none", "done", "clear_running"} \cup Search_pcs \cup Perft_pcs
    /\ depth \in Nat /\ allow_cutoff \in BOOLEAN /\ line \in {"empty", "move"}
    /\ said \in {"none", "found", "any_legal", "junk"}
    /\ owed \in Int

\* A command that calls stop() is carried out with no worker that can still
\* touch the board or the tables, whatever the worker was doing when the line
\* arrived: cleanup_thread and stop() between them leave no window, not even
\* for a thread that has not raised running_flag yet.
Exclusive ==
    (mpc = "exec" /\ token \in Stopping) => wpc \notin Live_pcs

\* Every go is answered once: the answers still owed are the search that runs
\* and the go that has been read and not carried out, never fewer (an answer
\* nobody asked for) and never more (a go swallowed by a later stop).
InFlight == token = "go" /\ mpc \notin ({"getline"} \cup Dead)
OneAnswerPerGo ==
    Alive => owed = (IF InFlight THEN 1 ELSE 0) + (IF wpc \in Search_pcs THEN 1 ELSE 0)

\* Once the main thread waits in stop() for a search, the request it has made
\* stays up until the search has ended.  It holds because do_search clears
\* stop_flag before it raises running_flag; do_perft does it the other way
\* round, and a count can erase the request.
SearchKeepsStop ==
    [][mpc = "stop_join" /\ stop_flag /\ wpc \notin Perft_pcs => stop_flag']_vars

\* A search that may go to depth 2 and has no node limit comes back without a
\* move only when the GUI asked it to stop: the clock alone cannot cut the
\* first iteration short, because allow_cutoff is set after it.
EmptyOnlyIfStopped ==
    (/\ wpc = "s_answer" /\ line = "empty"
     /\ limits.depth >= 2 /\ ~limits.nodes)
    => mpc \in {"stop_join"} \cup Dead

\* The engine keeps its side of the contract of UciContract: no position is
\* set up under a search or a count, and a search ends in one answer, legal in
\* the position on the board.  Contract!Finishes adds that it does end.
Phase == CASE ~Alive -> "gone"
           [] Alive /\ wpc \in Search_pcs -> "thinking"
           [] Alive /\ wpc \in Perft_pcs -> "counting"
           [] OTHER -> "idle"
Contract == INSTANCE UciContract WITH phase <- Phase, position <- board, answer <- said
ContractSpec == Contract!Spec
ContractFinishes == Contract!Finishes

\* The main thread comes back to reading the GUI after every command: neither
\* join waits for ever, and no step of the two threads waits on the other.
MainReturns == mpc # "getline" ~> mpc \in {"getline"} \cup Dead

(***************************************************************************)
(* What the comments of the code say and the code does not do.             *)
(***************************************************************************)

\* uci.cpp:250: "for every "go" command a "bestmove" command is needed".  The
\* process is not terminated with a go unanswered.
NotTerminatedOwing == mpc = "terminated" => owed = 0

\* uci.cpp:399: running_flag goes down when the thread is "finished (and ready
\* to join)"; a thread cleanup_thread waits for has got that far.
CleanupJoinsFinished == mpc = "cleanup_join" => wpc \notin Live_pcs

\* search.cpp:646: "Allow a forced stop after at least some calculation has
\* been done": an answer is made from a line that holds a move.
AnswerHasLine == wpc = "s_answer" => line = "move"
=============================================================================
