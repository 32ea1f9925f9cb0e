----------------------------- MODULE NodeReduce -----------------------------
(***************************************************************************)
(* The list of one process of test/node_q2.cpp: it maps a first pair of     *)
(* tiles (process_first_pair, include/map_reducer.hpp), merges the other    *)
(* tiles into its list one by one, and then merges the lists that other     *)
(* processes send it reversed through a pipe (module ShmPipe).  Before      *)
(* every compaction compute_distance_mark_duplicates() "expects sorted      *)
(* list" (include/reducer.hpp:11).                                          *)
(***************************************************************************)
EXTENDS BitonicSort

CONSTANTS Ids, tile_size, output_size,
          n_tiles,     \* tiles that the process maps
          n_receives   \* lists that it receives in the reduce stages

\* Ids are positive and below Half; output_size <= 2 * tile_size.

VARIABLES
    list,      \* the vector "lists"
    t,         \* the next tile
    received,  \* how many lists it has received
    pc         \* "first", "map", "mark" before the marking, "reduce"

vars == <<list, t, received, pc>>

Tile == [0..tile_size - 1 -> Ids \cup {none}]

Init == list = [c \in 0..1 |-> none] /\ t = 0 /\ received = 0 /\ pc = "first"

\* Two tiles, sorted in descending order.
FirstPair ==
    /\ pc = "first"
    /\ \E a, b \in Tile :
          list' = sort([c \in 0..2 * tile_size - 1 |-> IF c < tile_size THEN a[c] ELSE b[c - tile_size]],
                       0, 2 * tile_size, FALSE)
    /\ t' = 2 /\ pc' = "mark"
    /\ UNCHANGED received

\* Duplicates are marked and the list compacted, then cut to what the next
\* stage keeps of it and extended by what it adds.
MarkAndCompact ==
    LET extra == IF t < n_tiles THEN tile_size ELSE output_size
        done  == Compacted(Marked(list))
    IN  /\ pc = "mark"
        /\ list' = [c \in 0..output_size + extra - 1 |-> IF c < Size(list) THEN done[c] ELSE none]
        /\ pc' = IF t < n_tiles THEN "map" ELSE "reduce"
        /\ UNCHANGED <<t, received>>

\* The next tile goes behind the output_size good elements, is sorted in
\* ascending order, and the whole list is merged in ascending order.
MapTile ==
    /\ pc = "map"
    /\ \E tile \in Tile :
          LET loaded == [c \in DOMAIN list |-> IF c < output_size THEN list[c] ELSE tile[c - output_size]]
          IN  list' = bitonic_merge(sort(loaded, output_size, tile_size, TRUE), 0, Size(list), TRUE)
    /\ t' = t + 1 /\ pc' = "mark"
    /\ UNCHANGED received

\* What a process sends: devices in the order of its last merge, then none.
Output == {out \in [0..output_size - 1 -> Ids \cup {none}] :
              /\ out = Compacted(out)
              /\ \A c, d \in Kept(out) :
                    c < d => IF n_tiles > 2 \/ received > 0 THEN out[c] < out[d] ELSE out[c] > out[d]}

\* A list arrives in reverse order, and the whole is merged in ascending order.
ReceiveList ==
    /\ pc = "reduce" /\ received < n_receives
    /\ \E out \in Output :
          list' = bitonic_merge([c \in DOMAIN list |-> IF c < output_size THEN list[c]
                                                       ELSE out[2 * output_size - 1 - c]],
                                0, Size(list), TRUE)
    /\ received' = received + 1 /\ pc' = "mark"
    /\ UNCHANGED t

Next == FirstPair \/ MarkAndCompact \/ MapTile \/ ReceiveList
Spec == Init /\ [][Next]_vars
-----------------------------------------------------------------------------
\* Safety: what the comment of compute_distance_mark_duplicates() says it
\* expects (reducer.hpp:11): equal devices are neighbours, or the duplicate is
\* not found.
ExpectsSorted ==
    pc = "mark" => \A c, d \in Kept(list) :
        c < d /\ list[c] = list[d] => \A e \in c..d : list[e] = list[c]
=============================================================================
