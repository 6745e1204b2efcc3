--------------------------- MODULE TransTableProofs ---------------------------
(***************************************************************************)
(* Theorems about TransTable, for every set of hashes, sizes, scores,      *)
(* depths and plies.                                                       *)
(***************************************************************************)
EXTENDS TransTable, TLAPS

\* A mate score that was stored at one ply and is read at another is the same
\* distance from the node.
LEMMA ReadAtPly ==
  ASSUME NEW eval \in Int, NEW p \in Nat, NEW q \in Nat, Plausible(eval, p)
  PROVE  LET read == eval_from_tt(eval_to_tt(eval, p), q)
             shift == q - p
         IN CASE is_mating(eval) ->
                    is_mating(eval - shift) => read = eval - shift
              [] is_mating(-eval) ->
                    is_mating(-(eval + shift)) => read = eval + shift
              [] OTHER -> read = eval
<1> USE DEF is_mating, eval_to_tt, eval_from_tt, Plausible, MATING_SCORE,
            MIN_MATE_SCORE, MAX_SCORE, MAX_PLY
<1>1. CASE is_mating(eval)
  BY <1>1
<1>2. CASE is_mating(-eval)
  BY <1>2
<1>3. CASE ~is_mating(eval) /\ ~is_mating(-eval)
  BY <1>3
<1> QED
  BY <1>1, <1>2, <1>3

\* What an entry holds is what the search stored, converted, and unmarked: nothing
\* ever marks an entry.
FromOrigin ==
    \A i \in 0 .. size - 1 :
        /\ Plausible(origin[i].eval, origin[i].ply)
        /\ data[i].score = eval_to_tt(origin[i].eval, origin[i].ply)
        /\ data[i].depth = Narrow(origin[i].depth)
        /\ data[i].deleted = FALSE

\* The table has the size the option gave it.
Sized == size = BitFloor[tt_max(option)]

IInv == TypeOK /\ InItsSlot /\ FromOrigin /\ Sized

\* The entry and the origin of a slot that holds nothing.
LEMMA EmptySlot ==
  /\ Empty \in [hash : Nat, score : Int, bound : Bounds, depth : 0 .. 255,
                move : Moves \cup {NoMove}, deleted : BOOLEAN]
  /\ NoOrigin \in [eval : Int, ply : Nat, depth : Nat, epoch : Nat]
  /\ Plausible(NoOrigin.eval, NoOrigin.ply)
  /\ Empty.score = eval_to_tt(NoOrigin.eval, NoOrigin.ply)
  /\ Empty.depth = Narrow(NoOrigin.depth) /\ Empty.deleted = FALSE
<1>1. Empty \in [hash : Nat, score : Int, bound : Bounds, depth : 0 .. 255,
                move : Moves \cup {NoMove}, deleted : BOOLEAN]
  BY DEF Empty, Bounds
<1>2. NoOrigin \in [eval : Int, ply : Nat, depth : Nat, epoch : Nat]
  BY DEF NoOrigin
<1>3. /\ NoOrigin.eval = 0 /\ NoOrigin.ply = 0 /\ NoOrigin.depth = 0
      /\ Empty.score = 0 /\ Empty.depth = 0 /\ Empty.deleted = FALSE
  BY DEF Empty, NoOrigin
<1>4. Plausible(0, 0) /\ eval_to_tt(0, 0) = 0 /\ Narrow(0) = 0
  BY DEF Plausible, eval_to_tt, is_mating, Narrow, MATING_SCORE, MIN_MATE_SCORE,
         MAX_SCORE, MAX_PLY
<1> QED
  BY <1>1, <1>2, <1>3, <1>4

\* A table of empty slots satisfies the invariant, before a step and after it.
NewTable ==
    /\ size \in Nat /\ epoch \in Nat /\ option \in HashOptions /\ Sized
    /\ data = [i \in 0 .. size - 1 |-> Empty]
    /\ origin = [i \in 0 .. size - 1 |-> NoOrigin]

LEMMA FreshTable == (NewTable => IInv) /\ (NewTable' => IInv')
BY EmptySlot DEF NewTable, IInv, TypeOK, InItsSlot, FromOrigin

LEMMA ElementType ==
  ASSUME NEW hash \in Hashes, NEW eval \in Evals, NEW bound \in Bounds,
         NEW depth \in Depths, NEW move \in Moves, NEW ply \in Plies
  PROVE  LET e == Element(hash, eval, bound, depth, move, ply)
         IN /\ e \in [hash : Nat, score : Int, bound : Bounds, depth : 0 .. 255,
                      move : Moves \cup {NoMove}, deleted : BOOLEAN]
            /\ e.hash = hash
            /\ e.score = eval_to_tt(eval, ply)
            /\ e.depth = Narrow(depth)
<1>1. hash \in Nat /\ eval \in Int /\ depth \in Nat /\ ply \in Nat
  BY HashesAssumption, ScoresAssumption, DepthsAssumption
<1>2. eval_to_tt(eval, ply) \in Int
  BY <1>1 DEF eval_to_tt
<1>3. Narrow(depth) \in 0 .. 255
  BY <1>1 DEF Narrow
<1> QED
  BY <1>1, <1>2, <1>3 DEF Element

LEMMA InvStep == IInv /\ [Next]_vars => IInv'
<1> SUFFICES ASSUME IInv, [Next]_vars PROVE IInv'
  OBVIOUS
<1>1. ASSUME NEW hash \in Hashes, NEW eval \in Evals, NEW bound \in Bounds,
             NEW depth \in Depths, NEW move \in Moves, NEW ply \in Plies,
             Plausible(eval, ply), Store(hash, eval, bound, depth, move, ply), size > 0
      PROVE  IInv'
  <2> DEFINE e == Element(hash, eval, bound, depth, move, ply)
             j == Index(hash)
             o == [eval |-> eval, ply |-> ply, depth |-> depth, epoch |-> epoch]
  <2>1. CASE ~Replaces(e, data[j])
    <3>1. UNCHANGED vars
      BY <1>1, <2>1 DEF Store, vars
    <3> QED
      BY <3>1 DEF IInv, TypeOK, InItsSlot, FromOrigin, Sized, Index, vars
  <2>2. CASE Replaces(e, data[j])
    <3>1. /\ data' = [data EXCEPT ![j] = e] /\ origin' = [origin EXCEPT ![j] = o]
          /\ size' = size /\ epoch' = epoch /\ option' = option
      BY <1>1, <2>2 DEF Store
    <3>2. hash \in Nat /\ eval \in Int /\ depth \in Nat /\ ply \in Nat
      BY HashesAssumption, ScoresAssumption, DepthsAssumption
    <3>3. j \in 0 .. size - 1
      BY <1>1, <3>2 DEF IInv, TypeOK, Index
    <3>4. /\ e \in [hash : Nat, score : Int, bound : Bounds, depth : 0 .. 255,
                    move : Moves \cup {NoMove}, deleted : BOOLEAN]
          /\ e.hash = hash /\ e.score = eval_to_tt(eval, ply)
          /\ e.depth = Narrow(depth)
      BY ElementType
    <3>4a. e.deleted = FALSE
      BY DEF Element
    <3>5. o \in [eval : Int, ply : Nat, depth : Nat, epoch : Nat]
      BY <3>2 DEF IInv, TypeOK
    <3> HIDE DEF e, j, o
    <3>6. TypeOK'
      BY <3>1, <3>3, <3>4, <3>5 DEF IInv, TypeOK
    <3>7. InItsSlot'
      <4> SUFFICES ASSUME NEW i \in 0 .. size - 1
                   PROVE  data'[i] = Empty \/ data'[i].hash % size = i
        BY <3>1, <3>6 DEF InItsSlot, Index, TypeOK
      <4>1. CASE i = j
        BY <4>1, <3>1, <3>3, <3>4 DEF IInv, TypeOK, Index, j
      <4>2. CASE i # j
        BY <4>2, <3>1, <3>3 DEF IInv, TypeOK, InItsSlot, Index
      <4> QED
        BY <4>1, <4>2
    <3>8. FromOrigin'
      <4> SUFFICES ASSUME NEW i \in 0 .. size - 1
                   PROVE  /\ Plausible(origin'[i].eval, origin'[i].ply)
                          /\ data'[i].score = eval_to_tt(origin'[i].eval, origin'[i].ply)
                          /\ data'[i].depth = Narrow(origin'[i].depth)
                          /\ data'[i].deleted = FALSE
        BY <3>1 DEF FromOrigin
      <4>1. CASE i = j
        <5>1. data'[i] = e /\ origin'[i] = o
          BY <4>1, <3>1, <3>3 DEF IInv, TypeOK
        <5>2. o.eval = eval /\ o.ply = ply /\ o.depth = depth
          BY DEF o
        <5> QED
          BY <5>1, <5>2, <3>4, <3>4a, <1>1
      <4>2. CASE i # j
        BY <4>2, <3>1 DEF IInv, TypeOK, FromOrigin
      <4> QED
        BY <4>1, <4>2
    <3> QED
      BY <3>1, <3>6, <3>7, <3>8 DEF IInv, Sized
  <2> QED
    BY <2>1, <2>2
<1>2. CASE SetDelete
  <2>1. /\ data' = data /\ size' = size /\ option' = option /\ origin' = origin
        /\ epoch' = epoch + 1
    BY <1>2 DEF SetDelete, IInv, TypeOK
  <2> QED
    BY <2>1 DEF IInv, TypeOK, InItsSlot, FromOrigin, Sized, Index
<1>3. ASSUME NEW value \in HashOptions, Reinit(value) PROVE IInv'
  <2>1. size' \in Nat /\ epoch' \in Nat /\ option' \in HashOptions /\ Sized'
    BY <1>3, BitFloorAssumption DEF Reinit, Fresh, IInv, TypeOK, Sized
  <2> QED
    BY <1>3, <2>1, FreshTable DEF Reinit, Fresh, NewTable
<1>4. CASE UNCHANGED vars
  BY <1>4 DEF IInv, TypeOK, InItsSlot, FromOrigin, Sized, Index, vars
<1> QED
  BY <1>1, <1>2, <1>3, <1>4 DEF Next, Stores

LEMMA InvAlways == Spec => []IInv
<1>1. Init => IInv
  BY FreshTable, OptionsAssumption, BitFloorAssumption DEF Init, Sized, NewTable
<1> QED
  BY <1>1, InvStep, PTL DEF Spec

\* The table keeps to its type, whatever is stored and however it is resized.
THEOREM TableType == Spec => []TypeOK
<1>1. IInv => TypeOK
  BY DEF IInv
<1> QED
  BY <1>1, InvAlways, PTL

\* transposition.cpp:21 and 63: a probe looks where a store has written.
THEOREM EntriesInTheirSlots == Spec => []InItsSlot
<1>1. IInv => InItsSlot
  BY DEF IInv
<1> QED
  BY <1>1, InvAlways, PTL

\* transposition.cpp:31-51: mates keep their distance from the node, and every
\* other score is read back as it was stored.
THEOREM ScoresReadBack == Spec => []ReadBack
<1>1. IInv => ReadBack
  <2> SUFFICES ASSUME IInv, NEW i \in DOMAIN data, NEW q \in Plies
               PROVE  LET o == origin[i]
                          shift == q - o.ply
                          read == eval_from_tt(data[i].score, q)
                      IN CASE is_mating(o.eval) ->
                                  is_mating(o.eval - shift) => read = o.eval - shift
                           [] is_mating(-o.eval) ->
                                  is_mating(-(o.eval + shift)) => read = o.eval + shift
                           [] OTHER -> read = o.eval
    BY DEF ReadBack
  <2>1. origin[i].eval \in Int /\ origin[i].ply \in Nat /\ q \in Nat
    BY ScoresAssumption DEF IInv, TypeOK
  <2>2. /\ Plausible(origin[i].eval, origin[i].ply)
        /\ data[i].score = eval_to_tt(origin[i].eval, origin[i].ply)
    BY DEF IInv, TypeOK, FromOrigin
  <2> QED
    BY <2>1, <2>2, ReadAtPly
<1> QED
  BY <1>1, InvAlways, PTL

\* uci.cpp:153-163, transposition.cpp:10-15: the memory the option allows is kept
\* to and used, for every value of it but the multiples of what 32 bits count.
THEOREM TableSized == Spec => []TableFits
<1>1. IInv => TableFits
  <2> SUFFICES ASSUME IInv PROVE TableFits
    OBVIOUS
  <2> DEFINE value == Clamped(option)
             left == value % Wrap
             n == left * EntriesPerMiB
  <2>1. value \in Nat /\ Wrap \in Nat \ {0} /\ EntriesPerMiB \in Nat \ {0}
    BY OptionsAssumption DEF IInv, TypeOK, Clamped, hash_min
  <2>2. left \in Nat /\ left <= value /\ (value < Wrap => left = value)
    BY <2>1
  <2>3. size \in Nat /\ size <= n /\ (n > 0 => n < 2 * size)
    BY BitFloorAssumption DEF IInv, TypeOK, Sized, tt_max
  <2> HIDE DEF value, left
  <2>4. n \in Nat /\ n <= value * EntriesPerMiB /\ (left # 0 => n > 0)
    BY <2>1, <2>2
  <2>5. value > 0
    BY OptionsAssumption DEF value, Clamped, hash_min, IInv, TypeOK
  <2>6. size <= value * EntriesPerMiB
    <3> HIDE DEF n
    <3> QED
      BY <2>1, <2>3, <2>4
  <2>7. ASSUME value < Wrap PROVE 2 * size > value * EntriesPerMiB
    BY <2>2, <2>3, <2>4, <2>5, <2>7
  <2>8. ASSUME size = 0 PROVE left = 0
    BY <2>2, <2>3, <2>4, <2>8
  <2> QED
    BY <2>6, <2>7, <2>8 DEF TableFits, value, left
<1> QED
  BY <1>1, InvAlways, PTL

\* transposition.cpp:57-72: whatever is stored meanwhile, an entry that keeps its
\* slot keeps its exactness, and its depth as long as it is no more exact.
THEOREM EntriesGetNoWorse == Spec => NeverWorse
<1> DEFINE Kept == size' = size => \A i \in DOMAIN data :
                      (data'[i].hash = data[i].hash /\ data'[i] # Empty)
                      => Better(data'[i], data[i])
<1>1. IInv /\ [Next]_vars => Kept
  <2> SUFFICES ASSUME IInv, [Next]_vars, size' = size, NEW i \in DOMAIN data,
                      data'[i].hash = data[i].hash, data'[i] # Empty
               PROVE  Better(data'[i], data[i])
    BY DEF Kept
  <2>0. i \in 0 .. size - 1
    BY DEF IInv, TypeOK
  <2>1. data[i].deleted = FALSE /\ data[i].depth \in Int
    <3>1. data[i].deleted = FALSE
      BY <2>0 DEF IInv, FromOrigin
    <3>2. data[i].depth \in 0 .. 255
      BY <2>0 DEF IInv, TypeOK
    <3> QED  BY <3>1, <3>2
  <2>2. CASE data'[i] = data[i]
    BY <2>1, <2>2 DEF Better
  <2>3. ASSUME NEW hash \in Hashes, NEW eval \in Evals, NEW bound \in Bounds,
               NEW depth \in Depths, NEW move \in Moves, NEW ply \in Plies,
               Store(hash, eval, bound, depth, move, ply), data'[i] # data[i]
        PROVE  Better(data'[i], data[i])
    <3> DEFINE e == Element(hash, eval, bound, depth, move, ply)
               j == Index(hash)
    <3>1. Replaces(e, data[j]) /\ data' = [data EXCEPT ![j] = e]
      BY <2>3 DEF Store
    <3> HIDE DEF e, j
    <3>2. i = j /\ data'[i] = e
      BY <2>3, <3>1 DEF IInv, TypeOK
    <3> QED
      BY <2>1, <3>1, <3>2 DEF Replaces, Better
  <2>4. CASE SetDelete
    BY <2>2, <2>4 DEF SetDelete
  <2>5. ASSUME NEW value \in HashOptions, Reinit(value) PROVE FALSE
    BY <2>0, <2>5 DEF Reinit, Fresh
  <2>6. CASE UNCHANGED vars
    BY <2>2, <2>6 DEF vars
  <2> QED
    BY <2>2, <2>3, <2>4, <2>5, <2>6 DEF Next, Stores
<1>2. Spec => [][Kept]_vars
  <2> HIDE DEF Kept
  <2> QED  BY <1>1, InvAlways, PTL DEF Spec
<1> QED
  BY <1>2 DEF NeverWorse
=============================================================================
