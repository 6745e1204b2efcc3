------------------------------ MODULE UciProofs ------------------------------
(***************************************************************************)
(* Theorems about Uci, for every set of commands, positions and limits.    *)
(***************************************************************************)
EXTENDS Uci, TLAPS

\* A worker that exists but has not raised running_flag yet.
Starting_pcs == {"s_clear_stop", "s_set_running", "p_set_running"}

\* Past cleanup_thread a joinable worker has raised running_flag at some time:
\* this is what makes the test in stop() sufficient.
Started ==
    mpc \in {"stop", "set_stop", "stop_join", "exec"} => wpc \notin Starting_pcs

RunningFlag == running_flag <=> wpc \in Running_pcs

StopTokens == mpc \in {"stop", "set_stop", "stop_join"} => token \in Stopping

\* Every variable keeps to its set of values.
THEOREM TypeCorrect == Spec => []TypeOK
<1>1. Init => TypeOK
  <2> SUFFICES ASSUME Init PROVE TypeOK
    OBVIOUS
  <2>1. limits \in Limits \cup {NoLimits}
    BY DEF Init
  <2>2. /\ mpc \in {"getline", "cleanup", "cleanup_join", "stop", "set_stop",
                    "stop_join", "exec"} \cup Dead
        /\ token \in AllCommands
        /\ wpc \in {"none", "done", "clear_running"} \cup Search_pcs \cup Perft_pcs
    BY DEF Init, AllCommands
  <2>3. board \in Positions /\ asked \in Positions
    BY PositionsAssumption DEF Init
  <2>4. /\ mate_depth \in BOOLEAN /\ stop_flag \in BOOLEAN
        /\ running_flag \in BOOLEAN /\ allow_cutoff \in BOOLEAN
    BY DEF Init
  <2>5. /\ line \in {"empty", "move"}
        /\ said \in {"none", "found", "any_legal", "junk"}
    BY DEF Init
  <2>6. depth = 0 /\ owed = 0
    BY DEF Init
  <2>7. depth \in Nat /\ owed \in Int
    BY <2>6
  <2> QED
    BY <2>1, <2>2, <2>3, <2>4, <2>5, <2>7 DEF TypeOK
<1>2. TypeOK /\ [Next]_vars => TypeOK'
  <2> SUFFICES ASSUME TypeOK, [Next]_vars PROVE TypeOK'
    OBVIOUS
  <2> USE DEF TypeOK, Dead
  <2>1. ASSUME NEW c \in Commands, Getline(c) PROVE TypeOK'
    <3>1. token' \in AllCommands
      BY <2>1, CommandsAssumption DEF Getline
    <3>2. owed' \in Int
      <4>1. owed' = owed \/ owed' = owed + 1
        BY <2>1 DEF Getline
      <4> QED
        BY <4>1
    <3> QED
      BY <2>1, <3>1, <3>2 DEF Getline, search_vars
  <2>2. CASE Cleanup
    BY <2>2 DEF Cleanup, Dispatch, search_vars, history
  <2>3. CASE CleanupJoin
    BY <2>3 DEF CleanupJoin, Dispatch, search_vars, history
  <2>4. CASE StopTest
    BY <2>4 DEF StopTest, search_vars, history
  <2>5. CASE SetStop
    BY <2>5 DEF SetStop, search_vars, history
  <2>6. CASE StopJoin
    BY <2>6 DEF StopJoin, search_vars, history
  <2>7. ASSUME NEW l \in Limits, ExecGo(l) PROVE TypeOK'
    BY <2>7 DEF ExecGo, search_vars, Search_pcs
  <2>8. CASE ExecPerft
    BY <2>8 DEF ExecPerft, search_vars, history, Perft_pcs
  <2>9. ASSUME NEW p \in Positions, ExecSetBoard(p) PROVE TypeOK'
    BY <2>9 DEF ExecSetBoard, search_vars, history
  <2>10. CASE ExecOther
    BY <2>10 DEF ExecOther, search_vars, history
  <2>11. CASE ExecQuit
    BY <2>11 DEF ExecQuit, search_vars, history
  <2>12. CASE SearchClearStop
    BY <2>12 DEF SearchClearStop, search_vars, history, Search_pcs
  <2>13. CASE SearchSetRunning
    BY <2>13 DEF SearchSetRunning, history, Search_pcs, Search_run
  <2>14. CASE SearchIterate
    <3>1. stop_flag' \in BOOLEAN
      BY <2>14 DEF SearchIterate
    <3> QED
      BY <2>14, <3>1 DEF SearchIterate, search_vars, history, Search_pcs, Search_run
  <2>15. CASE SearchCheck
    BY <2>15 DEF SearchCheck, history, search_vars, Search_pcs, Search_run
  <2>16. CASE SearchReport
    BY <2>16 DEF SearchReport, history, Search_pcs, Search_run
  <2>17. CASE SearchReportCrash
    BY <2>17 DEF SearchReportCrash, search_vars, history
  <2>18. CASE SearchAnswer
    BY <2>18 DEF SearchAnswer, search_vars
  <2>19. CASE SearchAnswerCrash
    BY <2>19 DEF SearchAnswerCrash, search_vars, history
  <2>20. CASE ClearRunning
    BY <2>20 DEF ClearRunning, search_vars, history
  <2>21. CASE PerftSetRunning
    BY <2>21 DEF PerftSetRunning, search_vars, history, Perft_pcs, Perft_run
  <2>22. CASE PerftClearStop
    BY <2>22 DEF PerftClearStop, search_vars, history, Perft_pcs, Perft_run
  <2>23. CASE PerftCount
    BY <2>23 DEF PerftCount, search_vars, history, Perft_pcs, Perft_run
  <2>24. CASE PerftReport
    BY <2>24 DEF PerftReport, search_vars, history
  <2>25. CASE UNCHANGED vars
    BY <2>25 DEF vars, search_vars, history
  <2> QED
    BY <2>1, <2>2, <2>3, <2>4, <2>5, <2>6, <2>7, <2>8, <2>9, <2>10, <2>11,
       <2>12, <2>13, <2>14, <2>15, <2>16, <2>17, <2>18, <2>19, <2>20, <2>21,
       <2>22, <2>23, <2>24, <2>25 DEF Next, Main, Worker, Gone
<1> QED
  BY <1>1, <1>2, PTL DEF Spec

\* The inductive invariant behind Exclusive: what the two threads agree on.
Control == RunningFlag /\ StopTokens /\ Started /\ Exclusive

LEMMA ControlStep == TypeOK /\ Control /\ [Next]_vars => Control'
<1> SUFFICES ASSUME TypeOK, Control, [Next]_vars PROVE Control'
  OBVIOUS
<1> USE DEF Control, RunningFlag, StopTokens, Started, Exclusive, Starting_pcs,
        Running_pcs, Live_pcs, Search_pcs, Search_run, Perft_pcs, Perft_run
<1>1. ASSUME NEW c \in Commands, Getline(c) PROVE Control'
  BY <1>1 DEF Getline
<1>2. CASE Cleanup
  \* A worker that is not running and not joinable does not exist; one that is
  \* running has left Starting_pcs.
  BY <1>2 DEF Cleanup, Dispatch, Joinable
<1>3. CASE CleanupJoin
  BY <1>3 DEF CleanupJoin, Dispatch
<1>4. CASE StopTest
  \* Not running, and not starting by Started: the worker is done or absent.
  BY <1>4 DEF StopTest, TypeOK
<1>5. CASE SetStop
  BY <1>5 DEF SetStop
<1>6. CASE StopJoin
  BY <1>6 DEF StopJoin
<1>7. ASSUME NEW l \in Limits, ExecGo(l) PROVE Control'
  BY <1>7 DEF ExecGo, Stopping, Joinable
<1>8. CASE ExecPerft
  BY <1>8 DEF ExecPerft, Stopping, Joinable
<1>9. ASSUME NEW p \in Positions, ExecSetBoard(p) PROVE Control'
  BY <1>9 DEF ExecSetBoard
<1>10. CASE ExecOther
  BY <1>10 DEF ExecOther
<1>11. CASE ExecQuit
  BY <1>11 DEF ExecQuit
<1>12. CASE SearchClearStop
  BY <1>12 DEF SearchClearStop
<1>13. CASE SearchSetRunning
  BY <1>13 DEF SearchSetRunning, history
<1>14. CASE SearchIterate
  BY <1>14 DEF SearchIterate
<1>15. CASE SearchCheck
  BY <1>15 DEF SearchCheck, history
<1>16. CASE SearchReport
  BY <1>16 DEF SearchReport, history
<1>17. CASE SearchReportCrash
  BY <1>17 DEF SearchReportCrash
<1>18. CASE SearchAnswer
  BY <1>18 DEF SearchAnswer
<1>19. CASE SearchAnswerCrash
  BY <1>19 DEF SearchAnswerCrash
<1>20. CASE ClearRunning
  BY <1>20 DEF ClearRunning
<1>21. CASE PerftSetRunning
  BY <1>21 DEF PerftSetRunning
<1>22. CASE PerftClearStop
  BY <1>22 DEF PerftClearStop
<1>23. CASE PerftCount
  BY <1>23 DEF PerftCount
<1>24. CASE PerftReport
  BY <1>24 DEF PerftReport
<1>25. CASE UNCHANGED vars
  BY <1>25 DEF vars
<1> QED
  BY <1>1, <1>2, <1>3, <1>4, <1>5, <1>6, <1>7, <1>8, <1>9, <1>10, <1>11,
     <1>12, <1>13, <1>14, <1>15, <1>16, <1>17, <1>18, <1>19, <1>20, <1>21,
     <1>22, <1>23, <1>24, <1>25 DEF Next, Main, Worker, Gone

LEMMA ControlAlways == Spec => []Control
<1>1. Init => Control
  BY DEF Init, Control, RunningFlag, StopTokens, Started, Exclusive,
         Running_pcs, Search_run, Perft_run
<1>2. Spec => []TypeOK
  BY TypeCorrect
<1> QED
  BY <1>1, <1>2, ControlStep, PTL DEF Spec

\* uci.cpp:278-282 and 430-439: whenever a command that calls stop() is carried
\* out, no worker can still touch the board or the tables.
THEOREM ExclusiveBoard == Spec => []Exclusive
<1>1. Control => Exclusive
  BY DEF Control
<1> QED
  BY <1>1, ControlAlways, PTL

LEMMA OneAnswerStep == TypeOK /\ OneAnswerPerGo /\ [Next]_vars => OneAnswerPerGo'
<1> SUFFICES ASSUME TypeOK, OneAnswerPerGo, [Next]_vars PROVE OneAnswerPerGo'
  OBVIOUS
<1> USE DEF OneAnswerPerGo, InFlight, Alive, Dead, Search_pcs, Search_run, TypeOK
<1>1. ASSUME NEW c \in Commands, Getline(c) PROVE OneAnswerPerGo'
  <2>1. /\ mpc = "getline" /\ mpc' = "cleanup" /\ wpc' = wpc
        /\ owed' = IF token' = "go" THEN owed + 1 ELSE owed
    BY <1>1 DEF Getline
  <2> QED
    BY <2>1
<1>2. CASE Cleanup
  BY <1>2 DEF Cleanup, Dispatch, history
<1>3. CASE CleanupJoin
  BY <1>3 DEF CleanupJoin, Dispatch, history
<1>4. CASE StopTest
  BY <1>4 DEF StopTest, history
<1>5. CASE SetStop
  BY <1>5 DEF SetStop, history
<1>6. CASE StopJoin
  BY <1>6 DEF StopJoin, history
<1>7. ASSUME NEW l \in Limits, ExecGo(l) PROVE OneAnswerPerGo'
  BY <1>7 DEF ExecGo, Joinable
<1>8. CASE ExecPerft
  BY <1>8 DEF ExecPerft, Joinable, history
<1>9. ASSUME NEW p \in Positions, ExecSetBoard(p) PROVE OneAnswerPerGo'
  BY <1>9 DEF ExecSetBoard, history
<1>10. CASE ExecOther
  BY <1>10 DEF ExecOther, history
<1>11. CASE ExecQuit
  BY <1>11 DEF ExecQuit, history
<1>12. CASE SearchClearStop
  BY <1>12 DEF SearchClearStop, history
<1>13. CASE SearchSetRunning
  BY <1>13 DEF SearchSetRunning, history
<1>14. CASE SearchIterate
  BY <1>14 DEF SearchIterate, history
<1>15. CASE SearchCheck
  BY <1>15 DEF SearchCheck, history
<1>16. CASE SearchReport
  BY <1>16 DEF SearchReport, history
<1>17. CASE SearchReportCrash
  BY <1>17 DEF SearchReportCrash, history
<1>18. CASE SearchAnswer
  BY <1>18 DEF SearchAnswer
<1>19. CASE SearchAnswerCrash
  BY <1>19 DEF SearchAnswerCrash, history
<1>20. CASE ClearRunning
  BY <1>20 DEF ClearRunning, history
<1>21. CASE PerftSetRunning
  BY <1>21 DEF PerftSetRunning, history
<1>22. CASE PerftClearStop
  BY <1>22 DEF PerftClearStop, history
<1>23. CASE PerftCount
  BY <1>23 DEF PerftCount, history
<1>24. CASE PerftReport
  BY <1>24 DEF PerftReport, history
<1>25. CASE UNCHANGED vars
  BY <1>25 DEF vars, history
<1> QED
  BY <1>1, <1>2, <1>3, <1>4, <1>5, <1>6, <1>7, <1>8, <1>9, <1>10, <1>11,
     <1>12, <1>13, <1>14, <1>15, <1>16, <1>17, <1>18, <1>19, <1>20, <1>21,
     <1>22, <1>23, <1>24, <1>25 DEF Next, Main, Worker, Gone

\* uci.cpp:250: a bestmove for every go.  As long as the process lives no go is
\* answered twice, and none is dropped.
THEOREM OneAnswer == Spec => []OneAnswerPerGo
<1>1. Init => OneAnswerPerGo
  <2> SUFFICES ASSUME Init PROVE OneAnswerPerGo
    OBVIOUS
  <2>1. mpc = "getline" /\ wpc = "none" /\ owed = 0
    BY DEF Init
  <2> QED
    BY <2>1 DEF OneAnswerPerGo, InFlight, Search_pcs, Search_run
<1>2. Spec => []TypeOK
  BY TypeCorrect
<1> QED
  BY <1>1, <1>2, OneAnswerStep, PTL DEF Spec

\* uci.cpp:395-400: from the moment the main thread waits in stop() for a search,
\* no step of either thread takes the stop back.
THEOREM StopIsKept == Spec => SearchKeepsStop
<1> DEFINE Kept == mpc = "stop_join" /\ stop_flag /\ wpc \notin Perft_pcs => stop_flag'
<1>1. TypeOK /\ Control /\ [Next]_vars => Kept
  <2> SUFFICES ASSUME Control, [Next]_vars, mpc = "stop_join", stop_flag,
                      wpc \notin Perft_pcs
               PROVE  stop_flag'
    BY DEF Kept
  <2>1. wpc \notin Starting_pcs
    BY DEF Control, Started
  <2>2. ~SearchClearStop /\ ~PerftClearStop
    BY <2>1 DEF SearchClearStop, PerftClearStop, Starting_pcs, Perft_pcs, Perft_run
  <2>3. CASE Worker
    BY <2>2, <2>3 DEF Worker, SearchSetRunning, SearchIterate, SearchCheck, SearchReport,
           SearchReportCrash, SearchAnswer, SearchAnswerCrash, PerftSetRunning,
           PerftCount, PerftReport, ClearRunning
  <2>4. CASE Main
    BY <2>4 DEF Main, Cleanup, CleanupJoin, StopTest, SetStop, StopJoin, ExecGo,
           ExecPerft, ExecSetBoard, ExecOther, ExecQuit
  <2>5. ASSUME NEW c \in Commands, Getline(c) PROVE stop_flag'
    BY <2>5 DEF Getline
  <2>6. CASE UNCHANGED vars
    BY <2>6 DEF vars
  <2> QED
    BY <2>3, <2>4, <2>5, <2>6 DEF Next, Gone
<1>2. Spec => []TypeOK /\ []Control
  BY TypeCorrect, ControlAlways, PTL
<1>3. Spec => [][Kept]_vars
  <2> HIDE DEF Kept
  <2> QED  BY <1>1, <1>2, PTL DEF Spec
<1> QED
  BY <1>3 DEF SearchKeepsStop

\* Where the stop of a search without a line comes from: the flag is down when
\* the search starts, and allow_cutoff and the line change together.
StopCause ==
    /\ wpc = "s_set_running" => ~stop_flag
    /\ wpc \in {"s_iterate", "s_check", "s_report"} /\ line = "empty" => ~allow_cutoff
    /\ (/\ wpc \in {"s_iterate", "s_check"} /\ line = "empty"
        /\ limits.depth >= 2 /\ ~limits.nodes /\ stop_flag)
       => mpc \in {"stop_join"} \cup Dead
    /\ EmptyOnlyIfStopped

LEMMA StopCauseStep == TypeOK /\ Control /\ StopCause /\ [Next]_vars => StopCause'
<1> SUFFICES ASSUME TypeOK, Control, StopCause, [Next]_vars PROVE StopCause'
  OBVIOUS
<1> USE DEF StopCause, EmptyOnlyIfStopped, Dead
<1>1. ASSUME NEW c \in Commands, Getline(c) PROVE StopCause'
  BY <1>1 DEF Getline, search_vars
<1>2. CASE Cleanup
  BY <1>2 DEF Cleanup, search_vars
<1>3. CASE CleanupJoin
  BY <1>3 DEF CleanupJoin, search_vars
<1>4. CASE StopTest
  BY <1>4 DEF StopTest, search_vars
<1>5. CASE SetStop
  \* The worker has left Starting_pcs, and the main thread goes on to wait.
  BY <1>5 DEF SetStop, search_vars, Control, Started, Starting_pcs
<1>6. CASE StopJoin
  BY <1>6 DEF StopJoin, search_vars
<1>7. ASSUME NEW l \in Limits, ExecGo(l) PROVE StopCause'
  BY <1>7 DEF ExecGo, Joinable, search_vars, Control, Started, Starting_pcs
<1>8. CASE ExecPerft
  BY <1>8 DEF ExecPerft, search_vars, Joinable
<1>9. ASSUME NEW p \in Positions, ExecSetBoard(p) PROVE StopCause'
  BY <1>9 DEF ExecSetBoard, search_vars
<1>10. CASE ExecOther
  BY <1>10 DEF ExecOther, search_vars
<1>11. CASE ExecQuit
  BY <1>11 DEF ExecQuit, search_vars
<1>12. CASE SearchClearStop
  BY <1>12 DEF SearchClearStop, search_vars
<1>13. CASE SearchSetRunning
  BY <1>13 DEF SearchSetRunning
<1>14. CASE SearchIterate
  BY <1>14 DEF SearchIterate, SelfStop, search_vars
<1>15. CASE SearchCheck
  BY <1>15 DEF SearchCheck, search_vars
<1>16. CASE SearchReport
  BY <1>16 DEF SearchReport
<1>17. CASE SearchReportCrash
  BY <1>17 DEF SearchReportCrash, search_vars
<1>18. CASE SearchAnswer
  BY <1>18 DEF SearchAnswer, search_vars
<1>19. CASE SearchAnswerCrash
  BY <1>19 DEF SearchAnswerCrash, search_vars
<1>20. CASE ClearRunning
  BY <1>20 DEF ClearRunning, search_vars
<1>21. CASE PerftSetRunning
  BY <1>21 DEF PerftSetRunning, search_vars
<1>22. CASE PerftClearStop
  BY <1>22 DEF PerftClearStop, search_vars
<1>23. CASE PerftCount
  BY <1>23 DEF PerftCount, search_vars
<1>24. CASE PerftReport
  BY <1>24 DEF PerftReport, search_vars
<1>25. CASE UNCHANGED vars
  BY <1>25 DEF vars, search_vars
<1> QED
  BY <1>1, <1>2, <1>3, <1>4, <1>5, <1>6, <1>7, <1>8, <1>9, <1>10, <1>11,
     <1>12, <1>13, <1>14, <1>15, <1>16, <1>17, <1>18, <1>19, <1>20, <1>21,
     <1>22, <1>23, <1>24, <1>25 DEF Next, Main, Worker, Gone

\* search.cpp:646: a search that may go to depth 2 and has no node limit never
\* ends without a line by itself, however little time it is given.
THEOREM EmptyMeansStopped == Spec => []EmptyOnlyIfStopped
<1>1. Init => StopCause
  BY DEF Init, StopCause, EmptyOnlyIfStopped
<1>2. StopCause => EmptyOnlyIfStopped
  BY DEF StopCause
<1>3. Spec => []TypeOK /\ []Control
  BY TypeCorrect, ControlAlways, PTL
<1> QED
  BY <1>1, <1>2, <1>3, StopCauseStep, PTL DEF Spec

\* Every step of the two threads is a step of the contract or none at all.
LEMMA ContractStep ==
  TypeOK /\ Control /\ [Next]_vars => [Contract!Next]_(Contract!vars)
<1> SUFFICES ASSUME TypeOK, Control, [Next]_vars
             PROVE  [Contract!Next]_(Contract!vars)
  OBVIOUS
<1> USE DEF Phase, Alive, Dead, Live_pcs, Search_pcs, Search_run, Perft_pcs,
        Perft_run, Contract!vars
<1>1. ASSUME NEW c \in Commands, Getline(c) PROVE [Contract!Next]_(Contract!vars)
  BY <1>1 DEF Getline, history
<1>2. CASE Cleanup
  BY <1>2 DEF Cleanup, Dispatch, history
<1>3. CASE CleanupJoin
  BY <1>3 DEF CleanupJoin, Dispatch, history
<1>4. CASE StopTest
  BY <1>4 DEF StopTest, history
<1>5. CASE SetStop
  BY <1>5 DEF SetStop, history
<1>6. CASE StopJoin
  BY <1>6 DEF StopJoin, history
<1>7. ASSUME NEW l \in Limits, ExecGo(l) PROVE [Contract!Next]_(Contract!vars)
  BY <1>7 DEF ExecGo, Joinable, Contract!Next, Contract!Go, Contract!Leave
<1>8. CASE ExecPerft
  BY <1>8 DEF ExecPerft, Joinable, history, Contract!Next, Contract!Count, Contract!Leave
<1>9. ASSUME NEW p \in Positions, ExecSetBoard(p) PROVE [Contract!Next]_(Contract!vars)
  <2>1. CASE token = "ucinewgame"
    BY <1>9, <2>1 DEF ExecSetBoard, history, Contract!Next, Contract!NewGame
  <2>2. CASE token \in {"position", "quiesce"}
    BY <1>9, <2>2 DEF ExecSetBoard, Control, Exclusive, Stopping, history,
             TypeOK, Contract!Next, Contract!SetPosition
  <2> QED
    BY <1>9, <2>1, <2>2 DEF ExecSetBoard
<1>10. CASE ExecOther
  BY <1>10 DEF ExecOther, history
<1>11. CASE ExecQuit
  BY <1>11 DEF ExecQuit, history, Contract!Next, Contract!Leave
<1>12. CASE SearchClearStop
  BY <1>12 DEF SearchClearStop, history
<1>13. CASE SearchSetRunning
  BY <1>13 DEF SearchSetRunning, history
<1>14. CASE SearchIterate
  BY <1>14 DEF SearchIterate, history
<1>15. CASE SearchCheck
  BY <1>15 DEF SearchCheck, history
<1>16. CASE SearchReport
  BY <1>16 DEF SearchReport, history
<1>17. CASE SearchReportCrash
  BY <1>17 DEF SearchReportCrash, history, Contract!Next, Contract!Leave
<1>18. CASE SearchAnswer
  BY <1>18 DEF SearchAnswer, Contract!Next, Contract!Answer
<1>19. CASE SearchAnswerCrash
  BY <1>19 DEF SearchAnswerCrash, history, Contract!Next, Contract!Leave
<1>20. CASE ClearRunning
  BY <1>20 DEF ClearRunning, history
<1>21. CASE PerftSetRunning
  BY <1>21 DEF PerftSetRunning, history
<1>22. CASE PerftClearStop
  BY <1>22 DEF PerftClearStop, history
<1>23. CASE PerftCount
  BY <1>23 DEF PerftCount, history, Contract!Next, Contract!Counted
<1>24. CASE PerftReport
  BY <1>24 DEF PerftReport, history, Contract!Next, Contract!Counted
<1>25. CASE UNCHANGED vars
  BY <1>25 DEF vars, history
<1> QED
  BY <1>1, <1>2, <1>3, <1>4, <1>5, <1>6, <1>7, <1>8, <1>9, <1>10, <1>11,
     <1>12, <1>13, <1>14, <1>15, <1>16, <1>17, <1>18, <1>19, <1>20, <1>21,
     <1>22, <1>23, <1>24, <1>25 DEF Next, Main, Worker, Gone

\* uci.cpp as the GUI sees it: the engine keeps the contract, whatever the order of
\* the commands and of the steps of the two threads.
THEOREM KeepsContract == Spec => ContractSpec
<1>1. Init => Contract!Init
  BY DEF Init, Contract!Init, Phase, Alive, Dead, Search_pcs, Search_run, Perft_pcs,
         Perft_run
<1>2. TypeOK /\ Control /\ [Next]_vars => [Contract!Next]_(Contract!vars)
  BY ContractStep
<1>3. Spec => []TypeOK /\ []Control
  BY TypeCorrect, ControlAlways, PTL
<1> QED
  BY <1>1, <1>2, <1>3, PTL DEF Spec, ContractSpec, Contract!Spec
=============================================================================
