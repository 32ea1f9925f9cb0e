------------------------------- MODULE Mapper -------------------------------
(***************************************************************************)
(* include/ingress.hpp and include/mapper.hpp: the tile that ingress_gv     *)
(* leaves in Redis, and what the mappers of the queries read out of it.     *)
(* The writer has the fields in a list and the readers have numbers.        *)
(***************************************************************************)
EXTENDS BitonicSort, Encounters

CONSTANT hashbits   \* width of a fingerprint: 32 in the code, where a device has 256 bits

\* The integers that reducers compare are fingerprints.
ASSUME MapperAssumption ==
    hashbits \in Nat \ {0} /\ didbits \in Nat /\ hashbits <= didbits /\ Half = 2^(hashbits - 1)

\* The network of ingress_gv sorts by encounter ids, which are as wide as a device.
ById == INSTANCE BitonicSort WITH Half <- 2^(didbits - 1)

tilebits == 2 * didbits + 32 + 16 + 8

fields == <<"DEVICE", "ENCOUNTERED", "TIME", "DURATION", "CONFIRMED">>

-----------------------------------------------------------------------------
(* Ingress.                                                                  *)

\* encounter_1 with the device of encounter_2 as the one it has encountered.
set_encountered_device_id(encounter_1, encounter_2) ==
    {b \in encounter_1 : b \notin didbits..2 * didbits - 1}
    \cup {didbits + b : b \in Slice(encounter_2, 0, didbits)}

ConfirmsNextOnly(tile, sort_key) ==    \* mutant: the neighbour before is not compared
    [c \in DOMAIN tile |->
        LET met == IF c + 1 \in DOMAIN tile THEN c + 1 ELSE c - 1
        IN  (set_encountered_device_id(tile[c], tile[met]) \ {tilebits - 1})
            \cup {x \in {tilebits - 1} : sort_key[c] = sort_key[met]}]

\* The last bit says that a neighbour has the same id; the device is taken from
\* the next encounter if that is the one, or from the one before.
confirm_encounters(tile, sort_key) ==
    [c \in DOMAIN tile |->
        LET last == Size(tile) - 1
            same == {m \in {c - 1, c + 1} \cap DOMAIN tile : sort_key[m] = sort_key[c]}
            met  == IF c = 0 \/ (c < last /\ c + 1 \in same) THEN c + 1 ELSE c - 1
        IN  (set_encountered_device_id(tile[c], tile[met]) \ {tilebits - 1})
            \cup {x \in {tilebits - 1} : same # {}}]

-----------------------------------------------------------------------------
(* The mappers.                                                              *)

\* A device is sick, and the query is for it.
get_sick_did(sick_gv) == Slice(sick_gv, 0, didbits)

\* conf.bits[7 - i] is bit i of the byte, and bits[0] is tested.
Confirmed(integer) == 7 - 0 \in Slice(integer, tilebits - 8, 8)

AnyEncounter(integer, sick) ==     \* mutant: an encounter counts unconfirmed
    Slice(integer, 0, didbits) = sick

Matches(integer, sick) == Slice(integer, 0, didbits) = sick /\ Confirmed(integer)

\* did.resize(hashbits): the low bits, read as a signed number.
fingerprint(did) == Signed(Slice(did, 0, hashbits), hashbits)

\* Query 2: the fingerprints of the devices that the sick one met, else none.
run_query_unique_devices(tile, sick) ==
    [c \in DOMAIN tile |->
        IF Matches(tile[c], sick) THEN fingerprint(Slice(tile[c], didbits, didbits)) ELSE none]

\* floor(log2(tile_size)) + 1
counter_bits(tile_size) == CHOOSE b \in 1..tile_size : 2^(b - 1) <= tile_size /\ tile_size < 2^b

\* Query 1: how many encounters the sick device had.
run_query_count_encounters(tile, sick) ==
    Cardinality({c \in DOMAIN tile : Matches(tile[c], sick)}) % 2^counter_bits(Size(tile))
=============================================================================
