----------------------------- MODULE QueryTiles -----------------------------
(***************************************************************************)
(* The queries of "who met a sick device", from the encounters that devices *)
(* upload to the output of a reducer: src/ingress_gv.cpp confirms and       *)
(* stores a tile, src/mapper_gv.cpp (query 2) and test/node_q1.cpp (query   *)
(* 1) read it, a reducer merges what the mapper sends.  The mapper has one  *)
(* key for all its tiles, so it sends the same one every time.              *)
(*                                                                          *)
(* A reducer is also run on any tiles, and compact() on any list, since     *)
(* other mappers and other programs call them.                              *)
(***************************************************************************)
EXTENDS TileReducer, Mapper

CONSTANTS
    Runs,       \* what is run: subset of {"query", "L1", "L2", "list"}
    StoredSize, \* the size of the tile that ingress stores (even)
    TileSize, TileCount,  \* what reducers get from other mappers
    Sizes       \* the lengths of other lists

ASSUME QueryAssumption ==
    /\ Runs \subseteq {"query", "L1", "L2", "list"}
    /\ Reciprocated \subseteq BOOLEAN
    /\ Reporting \subseteq Nat \ {0} /\ Total \subseteq Nat \ {0}
    /\ Ids \subseteq -(2^(didbits - 1))..2^(didbits - 1) - 1
    /\ Sizes \subseteq Nat \ {0, 1} /\ TileCount > 1

VARIABLES
    uploaded,    \* the encounters: as they come, and then in the order of the tile
    tile_gv,     \* the tile in Redis
    sick_gv,     \* the sick device in Redis
    count        \* the result of query 1

reducer == <<marked, data, distance, i, j, level, tiles, base_idx, t>>
vars    == <<reducer, pc, uploaded, tile_gv, sick_gv, count>>

Tile == [0..TileSize - 1 -> Cells]

\* A mapper sends any tile to L1, and one in descending order to L2.
Input(l) == IF l = "L1" THEN Tile ELSE {tile \in Tile : Descending(tile, 0, TileSize - 1)}

Init ==
    /\ marked = <<>> /\ distance = <<>> /\ i = 0 /\ j = 0 /\ base_idx = 0 /\ t = 0
    /\ tile_gv = <<>> /\ sick_gv = {} /\ count = 0
    /\ \/ /\ "query" \in Runs
          /\ \E draw \in Draws(StoredSize) :
                uploaded = [k \in 0..StoredSize - 1 |-> fillEncounter(draw, k)]
          /\ tiles = <<>> /\ level = "L1" /\ data = <<>> /\ pc = "ingress"
       \/ /\ level \in Runs \cap {"L1", "L2"}
          /\ tiles \in [1..TileCount -> Input(level)]
          /\ uploaded = <<>> /\ data = <<>> /\ pc = "listen"
       \/ /\ "list" \in Runs
          /\ \E s \in Sizes : data \in [0..s - 1 -> Cells]
          /\ tiles = <<>> /\ level = "L1" /\ uploaded = <<>> /\ pc = "reduce"

\* emp::sort() by encounter id.
SortedByKey ==
    LET key == [k \in DOMAIN uploaded |-> Signed(Reconstructed(uploaded[k], k, <<"ID">>), didbits)]
    IN  ById!SortOrder(key, Unsorted(key), 0, Size(key), TRUE)

\* One repetition of ingress_gv: reconstruct the shares, sort, confirm, store.
Ingress ==
    LET order    == SortedByKey
        sort_key == [k \in DOMAIN uploaded |-> Reconstructed(uploaded[order[k]], order[k], <<"ID">>)]
        tile     == [k \in DOMAIN uploaded |-> Reconstructed(uploaded[order[k]], order[k], fields)]
    IN  /\ pc = "ingress"
        /\ tile_gv' = confirm_encounters(tile, sort_key)
        /\ sick_gv' = {b \in tile_gv'[0] : b < Width["ID"]}
        /\ uploaded' = InOrder(uploaded, order)
        /\ pc' = "map"
        /\ UNCHANGED <<reducer, count>>

\* The mappers of both queries; that of query 2 sends its tiles to L1.
Map ==
    LET sick == get_sick_did(sick_gv) IN
    /\ pc = "map"
    /\ tiles' = [k \in 1..TileCount |-> run_query_unique_devices(tile_gv, sick)]
    /\ count' = run_query_count_encounters(tile_gv, sick)
    /\ pc' = "listen"
    /\ UNCHANGED <<marked, data, distance, i, j, level, base_idx, t, uploaded, tile_gv, sick_gv>>

Next ==
    \/ Ingress \/ Map
    \/ (Listen \/ Receive \/ Reduce) /\ UNCHANGED <<uploaded, tile_gv, sick_gv, count>>

Spec == Init /\ [][Next]_vars
-----------------------------------------------------------------------------
(* Properties.  reciprocated says of an encounter "should this encounter be  *)
(* confirmed?" (encounter.hpp:56); no program reads it.                      *)

SickDevice == uploaded[0].DEVICE

\* The confirmed encounters of the sick device, as the generator made them.
SickEncounters ==
    {k \in DOMAIN uploaded : uploaded[k].reciprocated /\ uploaded[k].DEVICE = SickDevice}

\* Safety: query 2 ends with no fingerprint but of devices that the sick one met in
\* an encounter that both uploaded, and, if none is the largest of these fingerprints
\* (that is, if all are positive), with every one of them, once: through shares,
\* sorting, confirmation, positions of bits, the cut to the low bits, merges and
\* compaction.
UniqueDevices ==
    pc = "done" /\ uploaded # <<>> =>
        LET met == {fingerprint(uploaded[k].ENCOUNTERED) : k \in SickEncounters}
        IN  /\ CellsOf(data) \subseteq met
            /\ NoneLargest(met) => CellsOf(data) = met /\ Once(data)

\* Safety: query 1 counts the encounters of the sick device that both uploaded.
CountsEncounters == pc = "listen" /\ uploaded # <<>> => count = Cardinality(SickEncounters)

\* Safety: "if an encounter has been uploaded by both parties then the encounter
\* is confirmed, i.e., valid" (ingress_gv.cpp:176-178).
BothConfirmed ==
    pc = "map" => \A k \in DOMAIN uploaded : uploaded[k].reciprocated => Confirmed(tile_gv[k])
=============================================================================
