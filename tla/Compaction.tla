----------------------------- MODULE Compaction -----------------------------
(***************************************************************************)
(* compact() of include/primitives.hpp (lines 57-94; the overload of lines  *)
(* 20-53 is the same algorithm over a none of all ones), run on what        *)
(* compute_distance_mark_duplicates() leaves.  It moves every kept cell to  *)
(* the front by powers of two, without branching on the data: pass i moves  *)
(* a cell by 2^i if bit i of its distance is set.  The programs that call   *)
(* it have the other steps (module QueryTiles).                             *)
(***************************************************************************)
EXTENDS ListOps

CONSTANT Cells      \* what a cell can be, none included

ASSUME CompactionAssumption == none \in Cells /\ Cells \subseteq -Half..Half - 1

VARIABLES
    marked,      \* the list when compact() is called
    data,        \* the list it works on
    distance,    \* distance[c]: how far cell c still has to go, in steps of 2^i
    i, j,        \* the loop: pass, cell
    pc           \* "reduce" before the loop, "loop", "done" after it

n == Size(data)

\* compute_distance_mark_duplicates(), and the head of compact().
MarkDuplicates ==
    /\ pc = "reduce"
    /\ marked' = Marked(data)
    /\ data' = marked'
    /\ distance' = Distance(marked')
    /\ i' = 0 /\ j' = 1 /\ pc' = "loop"

-----------------------------------------------------------------------------
move == distance[j] % 2 # 0
new_distance == distance[j] \div 2
index == j - 2^i

CellLeftBehind ==      \* mutant: a cell that has moved is not cleaned up
    /\ data' = [data EXCEPT ![index] = IF move THEN data[j] ELSE @]
    /\ distance' = [distance EXCEPT ![index] = IF move THEN new_distance ELSE @,
                                    ![j] = IF move THEN 0 ELSE new_distance]

DistanceKept ==        \* mutant: the cell moves, its distance stays
    /\ data' = [data EXCEPT ![index] = IF move THEN data[j] ELSE @,
                            ![j] = IF move THEN none ELSE @]
    /\ distance' = [distance EXCEPT ![j] = new_distance]

\* put data[j] to data[j] or data[j - 2^i]
MoveCell ==
    /\ data' = [data EXCEPT ![index] = IF move THEN data[j] ELSE @,
                            ![j] = IF move THEN none ELSE @]
    /\ distance' = [distance EXCEPT ![index] = IF move THEN new_distance ELSE @,
                                    ![j] = IF move THEN 0 ELSE new_distance]

OnePassLess ==         \* mutant: the loop over the bits ends one too early
    IF j + 1 < n THEN j' = j + 1 /\ UNCHANGED <<i, pc>>
    ELSE /\ i' = i + 1 /\ j' = 2^(i + 1)
         /\ pc' = IF i + 1 < n_bits(n) - 1 THEN "loop" ELSE "done"

\* Both loop headers.
NextCell ==
    IF j + 1 < n THEN j' = j + 1 /\ UNCHANGED <<i, pc>>
    ELSE /\ i' = i + 1 /\ j' = 2^(i + 1)
         /\ pc' = IF i + 1 < n_bits(n) THEN "loop" ELSE "done"

CompactStep == pc = "loop" /\ MoveCell /\ NextCell /\ UNCHANGED marked

-----------------------------------------------------------------------------
(* Properties.                                                               *)

Compacting == pc \in {"loop", "done"}

TypeOK ==
    /\ marked \in [0..n - 1 -> Cells]
    /\ data \in [0..n - 1 -> Cells]
    /\ distance \in [0..n - 1 -> 0..n - 1]
    /\ i \in 0..n_bits(n) /\ j \in 1..2 * n

\* The size of a step of cell c: the cells before j have made this pass.
Unit(c) == IF c < j THEN 2^(i + 1) ELSE 2^i

\* The distance that a kept cell still has leads to its place among the kept
\* cells; a cell that is none has nowhere to go.
Targets ==
    \A c \in 0..n - 1 :
        IF data[c] = none THEN distance[c] = 0
        ELSE c - distance[c] * (IF pc = "done" THEN 2^i ELSE Unit(c)) = Rank(data, c)

\* Invariant of the loop (primitives.hpp:65-93): the distances are right at
\* every cell, although they are halved and moved as the cells are.
IInv == Compacting => TypeOK /\ Targets

\* Safety: at every step the kept cells are those of the input, in the input's
\* order.  No cell is moved onto another one, which nothing in the code tests.
OrderKept == Compacting => Compacted(data) = Compacted(marked)

\* Safety: at the end the kept cells are in front.
Compact == pc = "done" => data = Compacted(marked)
=============================================================================
