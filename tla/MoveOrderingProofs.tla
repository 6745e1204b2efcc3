-------------------------- MODULE MoveOrderingProofs --------------------------
(***************************************************************************)
(* The rows of the killer table, for every set of moves and plies and any  *)
(* number of cutoffs: they keep to quiet moves and hold none of them       *)
(* twice.  The three invariants are inductive together: that a row of      *)
(* quiet moves stays one needs its shape, and that it has no duplicates    *)
(* needs that a store overwrites one place with a move no place holds.     *)
(* With the order in which a row is filled they show that it is a queue.   *)
(***************************************************************************)
EXTENDS MoveOrdering, TLAPS

IInv == TypeOK /\ KillersDistinct /\ KillersQuiet

LEMMA RowIndices == Rows = {0, 1, 2} /\ \A i \in Rows : (i + 1) % n_krow \in Rows
BY SMT DEF Rows, n_krow

\* KillerTable::store keeps the shape of the table and its two invariants.
LEMMA StoreKeeps ==
    ASSUME IInv, NEW ply \in Plies, NEW move \in Moves, KillerStore(ply, move)
    PROVE  /\ killers' \in [Plies -> [Rows -> Moves \cup {NoMove}]]
           /\ indicies' \in [Plies -> Rows]
           /\ KillersDistinct'
           /\ KillersQuiet'
<1> USE DEF IInv, TypeOK
<1>1. CASE UNCHANGED <<killers, indicies>>
    BY <1>1 DEF KillersDistinct, KillersQuiet
<1>2. CASE ~(Type[move] # "QUIETmv" \/ InRow(move, killers[ply]))
    <2> DEFINE k == indicies[ply]
    <2>1. /\ killers' = [killers EXCEPT ![ply][k] = move]
          /\ indicies' = [indicies EXCEPT ![ply] = (@ + 1) % n_krow]
          /\ Type[move] = "QUIETmv"
          /\ ~InRow(move, killers[ply])
        BY <1>2 DEF KillerStore
    <2>2. k \in Rows /\ (k + 1) % n_krow \in Rows
        BY RowIndices
    <2>3. indicies' \in [Plies -> Rows]
        BY <2>1, <2>2
    <2>4. killers' \in [Plies -> [Rows -> Moves \cup {NoMove}]]
        BY <2>1, <2>2
    <2>5. \A p \in Plies, i \in Rows :
             killers'[p][i] = IF p = ply /\ i = k THEN move ELSE killers[p][i]
        BY <2>1, <2>2
    <2>6. \A i \in Rows : killers[ply][i] # move
        BY <2>1 DEF InRow
    <2>7. KillersDistinct'
        BY <2>5, <2>6 DEF KillersDistinct
    <2>8. KillersQuiet'
        BY <2>1, <2>5 DEF KillersQuiet
    <2> QED
        BY <2>3, <2>4, <2>7, <2>8
<1> QED
    BY <1>1, <1>2 DEF KillerStore

LEMMA InvNext == IInv /\ [Next]_vars => IInv'
<1> SUFFICES ASSUME IInv, [Next]_vars PROVE IInv'
    OBVIOUS
<1>1. ASSUME NEW ply \in Plies, NEW depth \in Depths, NEW move \in Moves,
             Cutoff(ply, depth, move)
      PROVE  IInv'
    <2>1. KillerStore(ply, move) /\ HistoryStore(depth, move)
        BY <1>1 DEF Cutoff
    <2>2. depth * depth \in Nat
        BY DepthsAssumption
    <2>3. history' \in [Cells -> Nat]
        <3>1. Slot[move] \in Cells /\ history \in [Cells -> Nat]
            BY DEF Cells, IInv, TypeOK
        <3>2. CASE is_quiet(move)
            BY <2>1, <2>2, <3>1, <3>2 DEF HistoryStore
        <3>3. CASE ~is_quiet(move)
            BY <2>1, <3>1, <3>3 DEF HistoryStore
        <3> QED
            BY <3>2, <3>3
    <2> QED
        BY <2>1, <2>3, StoreKeeps DEF IInv, TypeOK
<1>2. ASSUME NewSearch PROVE IInv'
    BY <1>2 DEF NewSearch, IInv, TypeOK, KillersDistinct, KillersQuiet
<1>3. ASSUME UNCHANGED vars PROVE IInv'
    BY <1>3 DEF vars, IInv, TypeOK, KillersDistinct, KillersQuiet
<1> QED
    BY <1>1, <1>2, <1>3 DEF Next

LEMMA InvAlways == Spec => []IInv
<1>1. Init => IInv
    <2> SUFFICES ASSUME Init PROVE IInv
        OBVIOUS
    <2>1. TypeOK
        BY RowIndices DEF Init, TypeOK
    <2>2. KillersDistinct
        BY DEF Init, KillersDistinct
    <2>3. KillersQuiet
        BY DEF Init, KillersQuiet
    <2> QED
        BY <2>1, <2>2, <2>3 DEF IInv
<1> QED
    BY <1>1, InvNext, PTL DEF Spec

\* The tables keep their shape: no cutoff writes outside a row of three.
THEOREM TablesType == Spec => []TypeOK
<1>1. IInv => TypeOK
    BY DEF IInv
<1> QED
    BY <1>1, InvAlways, PTL

\* No killer takes two of the places of its row.
THEOREM NoKillerTwice == Spec => []KillersDistinct
<1>1. IInv => KillersDistinct
    BY DEF IInv
<1> QED
    BY <1>1, InvAlways, PTL

\* Only quiet moves become killers.
THEOREM OnlyQuietKillers == Spec => []KillersQuiet
<1>1. IInv => KillersQuiet
    BY DEF IInv
<1> QED
    BY <1>1, InvAlways, PTL

\* ordering.cpp:210: winning captures, killers, even captures, quiet moves that give
\* no check and losing captures come in this order, whatever the exchange values
\* are and however far the history has counted.
THEOREM BandsAreKept == Spec => []OrderBands
<1>1. IInv => OrderBands
    <2> SUFFICES ASSUME IInv, NEW ply \in Plies, NEW take \in Moves, is_capture(take),
                        NEW quiet \in Moves, Type[quiet] \in {"QUIETmv", "DOUBLE_PUSH"},
                        NEW see \in SeeValues, NEW c \in BOOLEAN, NEW d \in BOOLEAN
                 PROVE  LET killer == InRow(quiet, killers[ply])
                            even == see > -50 /\ see < 50
                            taking == Score(ply, take, see, c)
                            other == Score(ply, quiet, 0, d)
                        IN /\ see > 50 /\ killer => taking > other
                           /\ even /\ killer => other > taking
                           /\ even /\ ~killer /\ ~d => taking > other
                           /\ see < -50 => other > taking
        BY DEF OrderBands
    <2> DEFINE killer == InRow(quiet, killers[ply])
               old == history[Slot[quiet]]
    <2>1. see \in Int
        BY SeeAssumption
    <2>2. ~InRow(take, killers[ply])
        BY MovesAssumption DEF IInv, TypeOK, KillersQuiet, InRow, is_capture
    <2>3. Score(ply, take, see, c) = CaptureScore(see, c)
        BY <2>2 DEF Score, is_capture
    <2>4. ~is_capture(quiet) /\ Type[quiet] # "PROMOTION"
        BY DEF is_capture
    <2>5. Score(ply, quiet, 0, d)
          = IF killer THEN 200000 ELSE Saturated(old) + (IF d THEN 100000 ELSE 0)
        BY <2>4 DEF Score, is_capture, killer
    <2>6. old \in Nat
        BY DEF IInv, TypeOK, Cells
    <2> HIDE DEF killer, old
    <2>7. Saturated(old) \in Int /\ 0 <= Saturated(old) /\ Saturated(old) <= 100000
        BY <2>6 DEF Saturated
    <2>8. /\ see > 50 => CaptureScore(see, c) > 400000
          /\ see > -50 /\ see < 50 => /\ CaptureScore(see, c) > 149950
                                      /\ CaptureScore(see, c) < 155050
          /\ see < -50 => CaptureScore(see, c) < 0
        <3>1. CASE see > 50
            BY <2>1, <3>1 DEF CaptureScore
        <3>2. CASE ~(see > 50) /\ see > -50
            BY <2>1, <3>2 DEF CaptureScore
        <3>3. CASE ~(see > -50)
            BY <2>1, <3>3 DEF CaptureScore
        <3> QED  BY <2>1, <3>1, <3>2, <3>3
    <2>9. CaptureScore(see, c) \in Int
        BY <2>1 DEF CaptureScore
    <2> QED
        BY <2>1, <2>3, <2>5, <2>7, <2>8, <2>9 DEF killer
<1> QED
    BY <1>1, InvAlways, PTL

\* A row is filled from its first place on: where the next killer goes no place from
\* there on is taken, or every place is.
Filled ==
    \A ply \in Plies : \A i \in Rows :
        killers[ply][i] = NoMove <=>
            killers[ply][indicies[ply]] = NoMove /\ i >= indicies[ply]

\* A store that is not turned away writes the next place and moves on.
LEMMA Stored ==
    ASSUME IInv, NEW ply \in Plies, NEW move \in Moves, KillerStore(ply, move),
           ~UNCHANGED <<killers, indicies>>
    PROVE  /\ \A i \in Rows : killers'[ply][i] = IF i = indicies[ply] THEN move ELSE killers[ply][i]
           /\ indicies'[ply] = IF indicies[ply] = 2 THEN 0 ELSE indicies[ply] + 1
           /\ \A p \in Plies \ {ply} : killers'[p] = killers[p] /\ indicies'[p] = indicies[p]
           /\ \A i \in Rows : killers[ply][i] # move
<1> USE DEF IInv, TypeOK
<1>1. /\ killers' = [killers EXCEPT ![ply][indicies[ply]] = move]
      /\ indicies' = [indicies EXCEPT ![ply] = (@ + 1) % n_krow]
      /\ ~InRow(move, killers[ply])
    BY DEF KillerStore
<1>2. \A i \in Rows : i \in {0, 1, 2} /\ (i + 1) % n_krow = IF i = 2 THEN 0 ELSE i + 1
    BY SMT DEF Rows, n_krow
<1>3. indicies[ply] \in Rows
    OBVIOUS
<1>4. indicies'[ply] = (indicies[ply] + 1) % n_krow
    BY <1>1
<1>5. \A i \in Rows : killers[ply][i] # move
    BY <1>1 DEF InRow
<1> QED
    BY <1>1, <1>2, <1>3, <1>4, <1>5

LEMMA FilledNext == IInv /\ Filled /\ [Next]_vars => Filled'
<1> SUFFICES ASSUME IInv, Filled, [Next]_vars, ~UNCHANGED <<killers, indicies>>
             PROVE  Filled'
    BY DEF Filled
<1>1. PICK ply \in Plies, move \in Moves : KillerStore(ply, move)
    BY DEF Next, Cutoff, NewSearch, vars
<1>2. ASSUME NEW p \in Plies, p # ply, NEW i \in Rows
      PROVE  killers'[p][i] = NoMove <=>
                killers'[p][indicies'[p]] = NoMove /\ i >= indicies'[p]
    BY <1>1, <1>2, Stored DEF Filled
<1>3. ASSUME NEW i \in Rows
      PROVE  killers'[ply][i] = NoMove <=>
                killers'[ply][indicies'[ply]] = NoMove /\ i >= indicies'[ply]
    <2> DEFINE k == indicies[ply]
               n == indicies'[ply]
    <2>1. k \in {0, 1, 2} /\ i \in {0, 1, 2}
        BY RowIndices DEF IInv, TypeOK
    <2>2. n = IF k = 2 THEN 0 ELSE k + 1
        BY <1>1, Stored
    <2>3. n \in Rows
        BY <2>1, <2>2, RowIndices
    <2>4. \A j \in Rows : killers'[ply][j] = IF j = k THEN move ELSE killers[ply][j]
        BY <1>1, Stored
    <2>5. move # NoMove
        BY MovesAssumption
    <2>6. \A j \in Rows : killers[ply][j] = NoMove <=> killers[ply][k] = NoMove /\ j >= k
        BY DEF Filled
    <2> HIDE DEF k, n
    <2>7. /\ killers'[ply][i] = NoMove <=> i # k /\ killers[ply][k] = NoMove /\ i >= k
          /\ killers'[ply][n] = NoMove <=> n # k /\ killers[ply][k] = NoMove /\ n >= k
        BY <2>3, <2>4, <2>5, <2>6
    <2>8. killers'[ply][i] = NoMove <=> killers'[ply][n] = NoMove /\ i >= n
        BY <2>1, <2>2, <2>7
    <2> QED
        BY <2>8 DEF n
<1> QED
    BY <1>2, <1>3 DEF Filled

\* What the row of each ply is as a queue.
Queues ==
    \A ply \in Plies :
        LET r == killers[ply]
            k == indicies[ply]
        IN /\ r[k] = NoMove => Recent(ply) = [j \in 1 .. k |-> r[j - 1]]
           /\ r[k] # NoMove /\ k = 0 => Recent(ply) = <<r[0], r[1], r[2]>>
           /\ r[k] # NoMove /\ k = 1 => Recent(ply) = <<r[1], r[2], r[0]>>
           /\ r[k] # NoMove /\ k = 2 => Recent(ply) = <<r[2], r[0], r[1]>>

\* Recent is that: the oldest is where the next killer goes, or else in the first place.
LEMMA QueuesAre == IInv /\ Filled => Queues
<1> SUFFICES ASSUME IInv, Filled, NEW ply \in Plies
             PROVE  LET r == killers[ply]
                        k == indicies[ply]
                    IN /\ r[k] = NoMove => Recent(ply) = [j \in 1 .. k |-> r[j - 1]]
                       /\ r[k] # NoMove /\ k = 0 => Recent(ply) = <<r[0], r[1], r[2]>>
                       /\ r[k] # NoMove /\ k = 1 => Recent(ply) = <<r[1], r[2], r[0]>>
                       /\ r[k] # NoMove /\ k = 2 => Recent(ply) = <<r[2], r[0], r[1]>>
    BY DEF Queues
<1> DEFINE r == killers[ply]
           k == indicies[ply]
<1>1. k \in {0, 1, 2}
    BY RowIndices DEF IInv, TypeOK
<1>2. Oldest(ply) = [j \in 1 .. 3 |-> r[(k + j - 1) % 3]]
    BY DEF Oldest, n_krow
<1> HIDE DEF r, k
<1>3. ASSUME r[k] = NoMove PROVE Recent(ply) = [j \in 1 .. k |-> r[j - 1]]
    <2>1. Held(ply) = k
        BY <1>3 DEF Held, r, k
    <2>2. \A j \in 1 .. k : 3 - k + j \in 1 .. 3 /\ (k + (3 - k + j) - 1) % 3 = j - 1
        BY <1>1
    <2>3. \A j \in 1 .. k : Oldest(ply)[3 - k + j] = r[j - 1]
        BY <1>2, <2>2
    <2> QED
        BY <2>1, <2>3 DEF Recent, n_krow
<1>4. ASSUME r[k] # NoMove
      PROVE  Recent(ply) = <<r[k % 3], r[(k + 1) % 3], r[(k + 2) % 3]>>
    <2>1. Held(ply) = 3
        BY <1>4 DEF Held, r, k, n_krow
    <2>2. \A j \in 1 .. 3 : 3 - 3 + j = j
        OBVIOUS
    <2>3. Recent(ply) = [j \in 1 .. 3 |-> r[(k + j - 1) % 3]]
        BY <1>2, <2>1, <2>2 DEF Recent, n_krow
    <2>4. k + 1 - 1 = k /\ k + 2 - 1 = k + 1 /\ k + 3 - 1 = k + 2
        BY <1>1
    <2> QED
        BY <2>3, <2>4
<1>5. /\ 0 % 3 = 0 /\ 1 % 3 = 1 /\ 2 % 3 = 2 /\ 3 % 3 = 0 /\ 4 % 3 = 1
    OBVIOUS
<1>6. /\ r[k] # NoMove /\ k = 0 => Recent(ply) = <<r[0], r[1], r[2]>>
      /\ r[k] # NoMove /\ k = 1 => Recent(ply) = <<r[1], r[2], r[0]>>
      /\ r[k] # NoMove /\ k = 2 => Recent(ply) = <<r[2], r[0], r[1]>>
    BY <1>4, <1>5
<1> QED
    BY <1>3, <1>6 DEF r, k

\* So it is after a step.
LEMMA QueuesAreNext == IInv' /\ Filled' => Queues'
BY QueuesAre, PTL

\* The row after a store is the queue with the move at its end, and without its oldest
\* if it was full.
LEMMA Remembers ==
    ASSUME IInv, Filled, IInv', Filled', NEW ply \in Plies, NEW move \in Moves,
           KillerStore(ply, move), ~UNCHANGED <<killers, indicies>>
    PROVE  /\ move \notin Queue!ToSet(Recent(ply))
           /\ Recent(ply)' = Append(IF Len(Recent(ply)) = n_krow THEN Tail(Recent(ply))
                                    ELSE Recent(ply), move)
<1> DEFINE r == killers[ply]
           k == indicies[ply]
           s == killers'[ply]
           n == indicies'[ply]
<1>1. k \in {0, 1, 2} /\ Rows = {0, 1, 2}
    BY RowIndices DEF IInv, TypeOK
<1>2. /\ \A i \in {0, 1, 2} : s[i] = IF i = k THEN move ELSE r[i]
      /\ n = IF k = 2 THEN 0 ELSE k + 1
      /\ \A i \in {0, 1, 2} : r[i] # move
    BY <1>1, Stored
<1>3. /\ r[k] = NoMove => Recent(ply) = [j \in 1 .. k |-> r[j - 1]]
      /\ r[k] # NoMove /\ k = 0 => Recent(ply) = <<r[0], r[1], r[2]>>
      /\ r[k] # NoMove /\ k = 1 => Recent(ply) = <<r[1], r[2], r[0]>>
      /\ r[k] # NoMove /\ k = 2 => Recent(ply) = <<r[2], r[0], r[1]>>
    BY QueuesAre DEF Queues
<1>4. /\ s[n] = NoMove => Recent(ply)' = [j \in 1 .. n |-> s[j - 1]]
      /\ s[n] # NoMove /\ n = 0 => Recent(ply)' = <<s[0], s[1], s[2]>>
      /\ s[n] # NoMove /\ n = 1 => Recent(ply)' = <<s[1], s[2], s[0]>>
      /\ s[n] # NoMove /\ n = 2 => Recent(ply)' = <<s[2], s[0], s[1]>>
    BY QueuesAreNext DEF Queues
<1>5. /\ \A i \in {0, 1, 2} : r[i] = NoMove <=> r[k] = NoMove /\ i >= k
      /\ move # NoMove
    BY <1>1, MovesAssumption DEF Filled
<1> DEFINE q == Recent(ply)
           t == Recent(ply)'
<1> HIDE DEF r, k, s, n, q, t
<1>6. CASE r[k] = NoMove
    <2>1. q = [j \in 1 .. k |-> r[j - 1]] /\ Len(q) = k /\ k # n_krow
        BY <1>1, <1>3, <1>6 DEF n_krow, q
    <2>2. \A j \in 1 .. k : q[j] # move
        BY <1>1, <1>2, <2>1
    <2>3. t = [j \in 1 .. k + 1 |-> s[j - 1]]
        <3>1. CASE k = 2
            <4>1. n = 0 /\ s[0] # NoMove
                BY <1>2, <1>5, <3>1
            <4>2. t = <<s[0], s[1], s[2]>>
                BY <1>4, <4>1 DEF t
            <4> QED
                BY <3>1, <4>2
        <3>2. CASE k # 2
            <4>1. n = k + 1 /\ n \in {1, 2}
                BY <1>1, <1>2, <3>2
            <4>2. s[n] = NoMove
                BY <1>1, <1>2, <1>5, <1>6, <4>1
            <4> QED
                BY <1>4, <4>1, <4>2 DEF t
        <3> QED
            BY <3>1, <3>2
    <2>4. t = Append(q, move)
        BY <1>1, <1>2, <2>1, <2>3
    <2> QED
        BY <2>1, <2>2, <2>4 DEF Queue!ToSet, q, t
<1>7. CASE r[k] # NoMove
    <2>1. s[n] # NoMove
        BY <1>1, <1>2, <1>5, <1>7
    <2>2. PICK x \in {0, 1, 2}, y \in {0, 1, 2}, z \in {0, 1, 2} :
             /\ q = <<r[x], r[y], r[z]>> /\ t = <<r[y], r[z], move>>
        <3>1. CASE k = 0
            <4>1. q = <<r[0], r[1], r[2]>> /\ t = <<r[1], r[2], move>>
                BY <1>2, <1>3, <1>4, <1>7, <2>1, <3>1 DEF q, t
            <4> QED
                BY <4>1
        <3>2. CASE k = 1
            <4>1. q = <<r[1], r[2], r[0]>> /\ t = <<r[2], r[0], move>>
                BY <1>2, <1>3, <1>4, <1>7, <2>1, <3>2 DEF q, t
            <4> QED
                BY <4>1
        <3>3. CASE k = 2
            <4>1. q = <<r[2], r[0], r[1]>> /\ t = <<r[0], r[1], move>>
                BY <1>2, <1>3, <1>4, <1>7, <2>1, <3>3 DEF q, t
            <4> QED
                BY <4>1
        <3> QED
            BY <1>1, <3>1, <3>2, <3>3
    <2>3. Len(q) = n_krow /\ t = Append(Tail(q), move)
        BY <2>2 DEF n_krow
    <2>4. \A j \in DOMAIN q : q[j] # move
        BY <1>2, <2>2
    <2> QED
        BY <2>3, <2>4 DEF Queue!ToSet, q, t
<1> QED
    BY <1>6, <1>7

\* KillerTable is a queue: the killers of a ply are the last three different quiet moves
\* that cut it off, and each store drops the oldest and no other.
THEOREM LastKillers == Spec => QueueSpec
<1> DEFINE queue == [ply \in Plies |-> Recent(ply)]
<1>1. Init => Queue!Init /\ Filled
    <2> SUFFICES ASSUME Init PROVE Queue!Init /\ Filled
        OBVIOUS
    <2>1. \A ply \in Plies : Held(ply) = 0
        BY RowIndices DEF Init, Held
    <2>2. \A ply \in Plies : Recent(ply) = <<>>
        BY <2>1 DEF Recent
    <2>3. Filled
        BY RowIndices DEF Init, Filled
    <2> QED
        BY <2>2, <2>3 DEF Queue!Init
<1>2. IInv /\ Filled /\ IInv' /\ Filled' /\ [Next]_vars => [Queue!Next]_queue
    <2> SUFFICES ASSUME IInv, Filled, IInv', Filled', [Next]_vars
                 PROVE  Queue!Next \/ UNCHANGED queue
        OBVIOUS
    <2>1. CASE UNCHANGED <<killers, indicies>>
        BY <2>1 DEF Recent, Held, Oldest
    <2>2. CASE ~UNCHANGED <<killers, indicies>>
        <3>1. PICK ply \in Plies, move \in Moves : KillerStore(ply, move)
            BY <2>2 DEF Next, Cutoff, NewSearch, vars
        <3>2. \A p \in Plies \ {ply} : Recent(p)' = Recent(p)
            <4>1. \A p \in Plies \ {ply} : killers'[p] = killers[p] /\ indicies'[p] = indicies[p]
                BY <2>2, <3>1, Stored
            <4>2. \A p \in Plies \ {ply} : Held(p)' = Held(p) /\ Oldest(p)' = Oldest(p)
                BY <4>1 DEF Held, Oldest
            <4> QED
                BY <4>2 DEF Recent
        <3>3. /\ move \notin Queue!ToSet(queue[ply])
              /\ queue' = [queue EXCEPT ![ply] =
                              Append(IF Len(@) = n_krow THEN Tail(@) ELSE @, move)]
            BY <2>2, <3>1, <3>2, Remembers
        <3>4. Queue!Remember(ply, move)
            BY <3>3 DEF Queue!Remember
        <3> QED
            BY <3>4 DEF Queue!Next
    <2> QED
        BY <2>1, <2>2
<1> QED
    BY <1>1, <1>2, InvAlways, FilledNext, PTL DEF Spec, QueueSpec, Queue!Spec
=============================================================================
