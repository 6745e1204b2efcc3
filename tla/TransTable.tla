------------------------------ MODULE TransTable ------------------------------
(***************************************************************************)
(* The transposition table (transposition.cpp, transposition.hpp): a power *)
(* of two of slots, the slot of a position being the low bits of its hash. *)
(* The full hash is kept in the entry, so a probe can tell the positions   *)
(* that share a slot apart.  Mate scores are kept relative to the node.    *)
(*                                                                         *)
(* enable() and disable() are called by nobody and are left out; prefetch  *)
(* changes nothing.                                                        *)
(***************************************************************************)
EXTENDS Integers

CONSTANTS
    Hashes,     \* the zobrist keys of the positions
    HashOptions,    \* the values of the Hash option, in MiB
    HashDefault,
    HashMax,        \* 8192
    Wrap,           \* the MiB that 32 bits no longer count in bytes: 4096
    EntriesPerMiB,  \* 2^20 by the size of an entry: 65536
    BitFloor,       \* std::bit_floor, a function on the values of tt_max
    Evals,      \* the scores a search stores, relative to the root of the game
    Depths,     \* the depths it stores them for
    Moves,
    Plies,      \* the plies at which it does
    MaxEpoch    \* bound on the number of searches

\* types.hpp
MAX_PLY == 512
MAX_SCORE == 32767
MATING_SCORE == MAX_SCORE - 1
MIN_MATE_SCORE == MATING_SCORE - MAX_PLY

Bounds == {"LOWER", "UPPER", "EXACT"}

ASSUME HashesAssumption == Hashes \subseteq Nat
ASSUME OptionsAssumption ==
    /\ HashOptions \subseteq Nat /\ HashDefault \in HashOptions
    /\ {HashMax, Wrap, EntriesPerMiB} \subseteq Nat \ {0}
ASSUME DepthsAssumption == Depths \subseteq Nat
ASSUME ScoresAssumption == Evals \subseteq Int /\ Plies \subseteq Nat
ASSUME EpochAssumption == MaxEpoch \in Nat

\* setoption Hash (uci.cpp).
hash_min == 1
Clamped(value) ==
    IF value < hash_min THEN hash_min ELSE IF value > HashMax THEN HashMax ELSE value

\* A wrong variant: the option is taken as it is sent.
tt_max_unclamped(value) == (value % Wrap) * EntriesPerMiB

\* The product value * 2^20 is one of 32 bits.
tt_max(value) == (Clamped(value) % Wrap) * EntriesPerMiB

\* What std::bit_floor gives: the power of two at or below a number, 0 for 0.
ASSUME BitFloorAssumption ==
    \A value \in HashOptions :
        LET n == tt_max(value)
        IN /\ BitFloor[n] \in Nat /\ BitFloor[n] <= n
           /\ n > 0 => n < 2 * BitFloor[n]

is_mating(score) == score >= MIN_MATE_SCORE /\ score <= MATING_SCORE

\* A mate is MATING_SCORE - (ply of the mate) in the search and
\* MATING_SCORE - (distance to it) in the table.
eval_to_tt(eval, ply) ==
    CASE is_mating(eval) -> eval + ply
      [] is_mating(-eval) -> eval - ply
      [] OTHER -> eval

\* A wrong variant: mates are stored as they are.
eval_from_tt_absolute(eval, ply) == eval

eval_from_tt(eval, ply) ==
    CASE is_mating(eval) -> eval - ply
      [] is_mating(-eval) -> eval + ply
      [] OTHER -> eval

\* A wrong variant: the depth is not cut down.
NarrowNot(depth) == depth

\* _depth is a uint8_t.
Narrow(depth) == depth % 256

VARIABLES
    data,       \* the vector of entries
    size,       \* max_index; bitmask is size - 1
    option,     \* history: the last value of the Hash option
    epoch,      \* history: the number of searches begun
    origin      \* history: what each entry was made from, and when

vars == <<data, size, option, epoch, origin>>

\* A value-initialised entry: hash 0, an exact 0 of depth 0 and no move.
NoMove == "none"
Empty == [hash |-> 0, score |-> 0, bound |-> "EXACT", depth |-> 0,
          move |-> NoMove, deleted |-> FALSE]
NoOrigin == [eval |-> 0, ply |-> 0, depth |-> 0, epoch |-> 0]

Fresh(n) ==
    /\ data' = [i \in 0 .. n - 1 |-> Empty]
    /\ size' = n
    /\ origin' = [i \in 0 .. n - 1 |-> NoOrigin]

Init ==
    /\ option = HashDefault /\ size = BitFloor[tt_max(HashDefault)]
    /\ data = [i \in 0 .. size - 1 |-> Empty]
    /\ origin = [i \in 0 .. size - 1 |-> NoOrigin]
    /\ epoch = 0

\* hash & bitmask, with a bitmask of size - 1 and a size that is a power of two.
\* (With no slot at all the mask keeps every bit, and at() throws.)
Index(hash) == hash % size

Element(hash, eval, bound, depth, move, ply) ==
    [hash |-> hash, score |-> eval_to_tt(eval, ply), bound |-> bound,
     depth |-> Narrow(depth), move |-> move, deleted |-> FALSE]

\* The entry a probe hands back is a hit if its hash is the one asked for.
ProbeHit(hash) == data[Index(hash)].hash = hash

\* A wrong variant: any entry of the same position is replaced.
ReplacesAlways(elem, old) == TRUE

\* When store() writes: the old entry is marked, is of another position, or is
\* of this one and no better: exactness counts before depth.
Replaces(elem, old) ==
    \/ old.deleted
    \/ elem.hash # old.hash
    \/ (elem.bound = "EXACT") = (old.bound = "EXACT") /\ elem.depth >= old.depth
    \/ elem.bound = "EXACT" /\ old.bound # "EXACT"

Store(hash, eval, bound, depth, move, ply) ==
    LET elem == Element(hash, eval, bound, depth, move, ply)
        i == Index(hash)
    IN /\ IF Replaces(elem, data[i])
          THEN /\ data' = [data EXCEPT ![i] = elem]
               /\ origin' = [origin EXCEPT ![i] =
                     [eval |-> eval, ply |-> ply, depth |-> depth, epoch |-> epoch]]
          ELSE UNCHANGED <<data, origin>>
       /\ UNCHANGED <<size, option, epoch>>

\* set_delete(), at the start of a search.  Its loop runs over copies of the
\* entries, so none in the table is marked.
SetDelete ==
    /\ epoch < MaxEpoch
    /\ epoch' = epoch + 1
    /\ data' = [i \in DOMAIN data |-> data[i]]
    /\ UNCHANGED <<size, option, origin>>

\* A wrong variant: the vector is resized and keeps its entries.
ReinitKeeping(value) ==
    LET n == BitFloor[tt_max(value)]
    IN /\ data' = [i \in 0 .. n - 1 |-> IF i < size THEN data[i] ELSE Empty]
       /\ origin' = [i \in 0 .. n - 1 |-> IF i < size THEN origin[i] ELSE NoOrigin]
       /\ size' = n /\ option' = value
       /\ UNCHANGED epoch

\* reinit(), from the Hash option: a new table of the new size.
Reinit(value) ==
    /\ Fresh(BitFloor[tt_max(value)])
    /\ option' = value
    /\ UNCHANGED epoch

\* A score that a node at this ply can have: it is mated, or mates, no earlier
\* than here and no later than the last ply.
Plausible(eval, ply) ==
    /\ -MATING_SCORE + ply <= eval /\ eval <= MATING_SCORE - ply

\* Without a slot a search ends in an exception at its first probe.
Stores ==
    /\ size > 0
    /\ \E hash \in Hashes, eval \in Evals, bound \in Bounds, depth \in Depths,
          move \in Moves, ply \in Plies :
            Plausible(eval, ply) /\ Store(hash, eval, bound, depth, move, ply)

Next == Stores \/ SetDelete \/ \E value \in HashOptions : Reinit(value)

Spec == Init /\ [][Next]_vars

(***************************************************************************)
(* Properties.                                                             *)
(***************************************************************************)
TypeOK ==
    /\ size \in Nat /\ option \in HashOptions
    /\ data \in [0 .. size - 1 ->
                 [hash : Nat, score : Int, bound : Bounds, depth : 0 .. 255,
                  move : Moves \cup {NoMove}, deleted : BOOLEAN]]
    /\ origin \in [0 .. size - 1 ->
                   [eval : Int, ply : Nat, depth : Nat, epoch : Nat]]
    /\ epoch \in Nat

\* An entry lies in the slot a probe for its position looks in, and so in one
\* slot only, whatever sizes the table has had: no entry survives a change of
\* the size.
InItsSlot == \A i \in DOMAIN data : data[i] = Empty \/ Index(data[i].hash) = i

\* What a search reads back, at whatever ply it meets the position again: the
\* score that was stored, a mate being as far from the node as it was from the
\* node it was found at, as long as that mate falls before the last ply.
ReadBack ==
    \A i \in DOMAIN data, q \in Plies :
        LET o == origin[i]
            shift == q - o.ply
            read == eval_from_tt(data[i].score, q)
        IN CASE is_mating(o.eval) ->
                    is_mating(o.eval - shift) => read = o.eval - shift
             [] is_mating(-o.eval) ->
                    is_mating(-(o.eval + shift)) => read = o.eval + shift
             [] OTHER -> read = o.eval

\* The table never takes more than the Hash option allows, even one out of range,
\* and more than half of it below 4 GiB.  It is without a slot for multiples of
\* 4 GiB alone, which the option may be: their number of bytes is 0 in 32 bits.
TableFits ==
    LET value == Clamped(option)
    IN /\ size <= value * EntriesPerMiB
       /\ value < Wrap => 2 * size > value * EntriesPerMiB
       /\ size = 0 => value % Wrap = 0

\* As long as a position keeps its slot, and no new table is made, its entry
\* does not get worse: an exact score is not lost to a bound, nor a deeper
\* entry to a shallower one of the same exactness.
Better(new, old) ==
    \/ new.bound = "EXACT" /\ old.bound # "EXACT"
    \/ (new.bound = "EXACT") = (old.bound = "EXACT") /\ new.depth >= old.depth
NeverWorse ==
    [][size' = size => \A i \in DOMAIN data :
        (data'[i].hash = data[i].hash /\ data'[i] # Empty)
        => Better(data'[i], data[i])]_vars

\* transposition.cpp:65: "Always replace if the old value is due to be
\* replaced": what an earlier search left gives way to whatever this one stores.
OldGivesWay ==
    \A hash \in Hashes, eval \in Evals, bound \in Bounds, depth \in Depths,
       move \in Moves, ply \in Plies :
        LET i == Index(hash)
        IN (size > 0 /\ data[i] # Empty /\ origin[i].epoch < epoch)
           => Replaces(Element(hash, eval, bound, depth, move, ply), data[i])
=============================================================================
