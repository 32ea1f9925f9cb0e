---------------------------- MODULE MCQueryTiles ----------------------------
(* Three devices, whose fingerprints are their low three bits: 3, 1 (of 9)   *)
(* and -2 (of 6); tiles of four encounters (two pairs) in Redis, tiles of    *)
(* two cells from other mappers, other lists of two to six cells.  emp's     *)
(* comparison orders 1, 3 and none, and -2, 3 and none, but 1 > -2 > none >  *)
(* 1.                                                                        *)
EXTENDS QueryTiles

MCCells == {-2, 1, 3, none}
MCSizes == 2..6
AllIds  == -(2^(didbits - 1))..2^(didbits - 1) - 1

\* All cases of fingerprints: in order or not, with none the largest or not.
ASSUME MCCellsMix ==
    /\ Sorts({1, 3, none}) /\ NoneLargest({1, 3}) /\ Sorts({-2, 3, none}) /\ ~NoneLargest({-2, 3})
    /\ ~Sorts({-2, 1, none}) /\ {fingerprint(Bits(d, didbits)) : d \in {3, 6, 9}} = {-2, 1, 3}
=============================================================================
