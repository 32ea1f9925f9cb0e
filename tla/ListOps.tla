------------------------------ MODULE ListOps -------------------------------
(***************************************************************************)
(* The cells that reducers handle: 32-bit fingerprints of devices and       *)
(* "none", and the operations of include/reducer.hpp and                    *)
(* include/primitives.hpp on a list of them, as functions on 0..n-1.        *)
(***************************************************************************)
EXTENDS Integers, FiniteSets

CONSTANT Half       \* 2^31 in the code: integers run from -Half to Half - 1

ASSUME HalfAssumption == Half \in Nat \ {0}

none == -Half       \* -2147483648

\* Integers of the circuits wrap around, and compare by the sign of their
\* difference: beside positive integers, none is the largest of all.
Wrap(x)   == ((x + Half) % (2 * Half)) - Half
geq(x, y) == Wrap(x - y) >= 0

Size(list) == Cardinality(DOMAIN list)

\* floor(log2(size - 1)) + 1
n_bits(n) == CHOOSE b \in 1..n : 2^(b - 1) <= n - 1 /\ n - 1 < 2^b

\* The list that compute_distance_mark_duplicates() leaves: of neighbours that
\* are equal only the last stays.
Marked(list) ==
    LET n == Size(list)
        m == [i \in 0..n - 1 |-> IF i < n - 1 /\ list[i] = list[i + 1] THEN none ELSE list[i]]
    IN  [m EXCEPT ![n - 1] = IF m[n - 1] = m[n - 2] THEN none ELSE @]

\* The distances it returns: how many cells are none before a cell that is not.
Distance(list) ==
    [i \in DOMAIN list |-> IF list[i] = none THEN 0
                           ELSE Cardinality({j \in 0..i - 1 : list[j] = none})]

\* The cells that are kept, and how many of them come before cell c.
Kept(list) == {c \in DOMAIN list : list[c] # none}
Rank(list, c) == Cardinality({j \in Kept(list) : j < c})

\* What compact() makes of a list (module Compaction): the kept cells in their
\* order, then none.
Compacted(list) ==
    [r \in DOMAIN list |->
        IF \E c \in Kept(list) : Rank(list, c) = r
        THEN list[CHOOSE c \in Kept(list) : Rank(list, c) = r]
        ELSE none]
=============================================================================
