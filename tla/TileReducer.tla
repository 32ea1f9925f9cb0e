---------------------------- MODULE TileReducer -----------------------------
(***************************************************************************)
(* src/L1reducer.cpp and src/L2reducer.cpp: a reducer gets one tile after   *)
(* the other from a mapper, merges each into what it has, and at the end    *)
(* marks the duplicates and compacts.  L1 sorts the tiles it gets, L2 gets  *)
(* them sorted and only flips them.                                         *)
(*                                                                          *)
(* The list (data) has room for two tiles.  A new tile overwrites the first *)
(* half, which after a merge is meant to hold nothing but junk.             *)
(***************************************************************************)
EXTENDS BitonicSort, Compaction, Sequences

VARIABLES
    level,     \* which of the programs this is
    tiles,     \* the tiles that come, in their order
    base_idx,  \* where the next tile goes
    t          \* how many tiles have come

tile_size == Size(tiles[1])
n_tiles   == Len(tiles)
Index     == 0..2 * tile_size - 1

Descending(list, from, to) == \A c \in from..to - 1 : geq(list[c], list[c + 1])

\* The list is not initialised, and not used before two tiles are there.
Listen ==
    /\ pc = "listen"
    /\ data' = [c \in Index |-> none]
    /\ base_idx' = tile_size /\ t' = 0
    /\ pc' = "receive"
    /\ UNCHANGED <<marked, distance, i, j, level, tiles>>

Received(tile) ==
    [c \in Index |-> IF c - base_idx \in 0..tile_size - 1 THEN tile[c - base_idx] ELSE data[c]]

FlippedNew(list) ==            \* mutant: L2 flips the tile it has just got
    [c \in Index |-> IF c \in base_idx..base_idx + tile_size - 1
                     THEN list[2 * base_idx + tile_size - 1 - c] ELSE list[c]]

\* L2 swaps low and high in the first half, which is the new tile but for the first.
Flipped(list) == [c \in Index |-> IF c < tile_size THEN list[tile_size - 1 - c] ELSE list[c]]

Ordered(list) ==
    IF level = "L1" THEN sort(list, base_idx, tile_size, base_idx = 0) ELSE Flipped(list)

BaseKept == base_idx' = base_idx    \* mutant: the next tile overwrites the second half

\* The next tile overwrites the first half.
NextBase == base_idx' = 0

Receive ==
    LET list == Ordered(Received(tiles[t + 1])) IN
    /\ pc = "receive"
    /\ data' = IF t > 0 THEN bitonic_merge(list, 0, 2 * tile_size, FALSE) ELSE list
    /\ NextBase
    /\ t' = t + 1
    /\ pc' = IF t' < n_tiles THEN "receive" ELSE "reduce"
    /\ UNCHANGED <<marked, distance, i, j, level, tiles>>

Reduce == (MarkDuplicates \/ CompactStep) /\ UNCHANGED <<level, tiles, base_idx, t>>

-----------------------------------------------------------------------------
(* Properties.                                                               *)

\* Fingerprints have 32 bits and a sign, so that half of them are negative, and emp
\* compares them by the sign of a difference that wraps around: a positive one, none
\* and a negative one may be a cycle, which no sorting brings in order, and none is
\* the largest of positive ones only.  No program checks either.

\* emp's comparison is an order of these cells.
Sorts(S) ==
    \A x, y, z \in S : (geq(x, y) \/ geq(y, x)) /\ (geq(x, y) /\ geq(y, z) => geq(x, z))

\* What the mappers say of none, that "a sort will put it at the end" (mapper.hpp:46-47).
NoneLargest(S) == \A x \in S : geq(none, x)

\* The cells of the first r tiles that are not none, and the devices in them.
Sent(r) == {x \in (1..r) \X (0..tile_size - 1) : tiles[x[1]][x[2]] # none}
SentCells(r) == {tiles[x[1]][x[2]] : x \in Sent(r)}

CellsOf(list) == {list[c] : c \in Kept(list)}

\* No two cells that are kept are the same.
Once(list) == \A c, d \in Kept(list) : list[c] = list[d] => c = d

\* Safety: if emp's comparison is an order of the cells that come, every merge gives
\* a list "in final descending order, with junk at the beginning" (L1reducer.cpp:90),
\* so its second half is again what the next merge expects, and equal devices are
\* neighbours.
MergedInOrder ==
    t > 1 /\ pc \in {"receive", "reduce"} /\ Sorts(SentCells(n_tiles) \cup {none}) =>
        Descending(data, 0, 2 * tile_size - 1)

\* Safety: the output has no device that no tile has, whatever the fingerprints; none
\* twice, if emp's comparison is an order of them; and every device of every tile, in
\* front, though each tile overwrote half of the list, if none is the largest and the
\* tiles together have no more devices than a tile has cells (the "conservative
\* assumptions" of L1reducer.cpp:96).
NothingLost ==
    pc = "done" /\ n_tiles > 0 =>
        LET sent == SentCells(n_tiles) IN
        /\ CellsOf(data) \subseteq sent
        /\ Sorts(sent \cup {none}) => Once(data)
        /\ NoneLargest(sent) /\ Cardinality(Sent(n_tiles)) <= tile_size =>
              /\ CellsOf(data) = sent
              /\ \A c \in Kept(data) : c < Cardinality(sent)
=============================================================================
