----------------------------- MODULE Encounters -----------------------------
(***************************************************************************)
(* include/encounter.hpp: the encounters that the benchmarks make up, their *)
(* two shares, and the bits of an emp::Integer that fields are written to.  *)
(*                                                                          *)
(* A string of bits is the set of the positions of its ones, so xor is the  *)
(* symmetric difference.  The hashes that choose devices and ids give       *)
(* anything they can give, and different ones differ.                       *)
(***************************************************************************)
EXTENDS Integers, Sequences, FiniteSetsExt, Functions

CONSTANTS
    Reporting,     \* the devices that upload encounters
    Total,         \* the devices there are
    Ids,           \* encounter ids
    Reciprocated,  \* subset of BOOLEAN: what reciprocation_percent leaves possible
    didbits        \* width of a device and of an id: 256 in the code

Bits(x, width)   == {b \in 0..width - 1 : (x \div 2^b) % 2 = 1}
Signed(bits, width) ==
    LET x == MapThenSumSet(LAMBDA b : 2^b, bits)
    IN  IF x < 2^(width - 1) THEN x ELSE x - 2^width

Width == [ID |-> didbits, DEVICE |-> didbits, ENCOUNTERED |-> didbits,
          TIME |-> 32, DURATION |-> 16, CONFIRMED |-> 8]

-----------------------------------------------------------------------------
\* Where the hashes of encounter k come from: both of a reciprocated pair have
\* those of the even one.
Source(recip, k) == IF k % 2 = 1 /\ ~recip[k \div 2] THEN k ELSE k - (k % 2)

\* Two different devices, both of them reporting if the encounter is reciprocated.
fillDeviceIDPair(reciprocated) ==
    {p \in Reporting \X (IF reciprocated THEN Reporting ELSE Total) : p[1] # p[2]}

\* Every way to draw devices and ids for an even number of encounters.
Draws(count) ==
    UNION {LET sources == {Source(recip, k) : k \in 0..count - 1} IN
           {[recip |-> recip, pair |-> pair, id |-> id] :
               pair \in {p \in [sources -> Reporting \X (Reporting \cup Total)] :
                            \A s \in sources : p[s] \in fillDeviceIDPair(recip[s \div 2])},
               id \in Injection(sources, Ids)} :
           recip \in [0..count \div 2 - 1 -> Reciprocated]}

\* The odd encounter of a reciprocated pair has the devices the other way round.
fillEncounter(draw, k) ==
    LET s == Source(draw.recip, k)
        p == draw.pair[s]
        q == IF k % 2 = 1 /\ draw.recip[k \div 2] THEN <<p[2], p[1]>> ELSE p
    IN  [ID |-> Bits(draw.id[s] % 2^didbits, didbits),
         DEVICE |-> Bits(q[1], didbits), ENCOUNTERED |-> Bits(q[2], didbits),
         TIME |-> Bits(s, 16), DURATION |-> Bits(s, 16), CONFIRMED |-> {},
         reciprocated |-> draw.recip[k \div 2]]

-----------------------------------------------------------------------------
\* Bob's share is a hash of the index, here of its last bit; Alice's is the rest.
fillBlind(k) == [f \in DOMAIN Width |-> {b \in 0..Width[f] - 1 : (b + k) % 2 = 0}]
aliceShare(e, k) == [f \in DOMAIN Width |-> SymDiff(e[f], fillBlind(k)[f])]

\* The first bit of the x-th field.
Start(fields, x) == MapThenSumSet(LAMBDA y : Width[fields[y]], 1..x - 1)

\* One integer of the fields of a share, the first one in its lowest bits.
fillIntegers(share, fields) ==
    UNION {{Start(fields, x) + b : b \in share[fields[x]]} : x \in 1..Len(fields)}

\* What the two parties' integers give, xored in circuit.
Reconstructed(e, k, fields) ==
    SymDiff(fillIntegers(aliceShare(e, k), fields), fillIntegers(fillBlind(k), fields))

\* Bits from.. of an integer.
Slice(integer, from, width) == {b - from : b \in {x \in integer : x - from \in 0..width - 1}}
=============================================================================
