---------------------------- MODULE BitonicSort -----------------------------
(***************************************************************************)
(* emp::sort and emp::bitonic_merge, with emp's comparison geq of module    *)
(* ListOps.  Data that is sorted along with its keys moves as they do, so   *)
(* what the network computes is an order: where each key came from.         *)
(***************************************************************************)
EXTENDS ListOps

Orders(key) == [DOMAIN key -> DOMAIN key]

\* Whether cmp_swap() swaps the keys at places a and b, to have them ascend iff acc.
cmp_swap(key, order, a, b, acc) == ~geq(key[order[b]], key[order[a]]) <=> acc

\* The places lo.. compared with those m further on, pair by pair; they are fewer than m.
CompareAll(key, order, lo, pairs, m, acc) ==
    LET first == lo..lo + pairs - 1 IN
    [c \in DOMAIN order |->
        IF c \in first /\ cmp_swap(key, order, c, c + m, acc) THEN order[c + m]
        ELSE IF c - m \in first /\ cmp_swap(key, order, c - m, c, acc) THEN order[c - m]
        ELSE order[c]]

greatestPowerOfTwoLessThan(n) == CHOOSE m \in {2^e : e \in 0..n} : m < n /\ 2 * m >= n

\* Sorts the n keys from lo if they go up and then down, or down and then up.
MergeOrder(key, order, lo, n, acc) ==
    LET merge[k \in 0..n] == [x \in Int \X Orders(key) |->
            IF k <= 1 THEN x[2]
            ELSE LET m == greatestPowerOfTwoLessThan(k)
                     compared == CompareAll(key, x[2], x[1], k - m, m, acc)
                 IN  merge[k - m][<<x[1] + m, merge[m][<<x[1], compared>>]>>]]
    IN  merge[n][<<lo, order>>]

\* Sorts any n keys from lo.
SortOrder(key, order, lo, n, acc) ==
    LET sorted[k \in 0..n] == [x \in Int \X Orders(key) \X BOOLEAN |->
            IF k <= 1 THEN x[2]
            ELSE LET m == k \div 2
                     first == sorted[m][<<x[1], x[2], ~x[3]>>]
                     both  == sorted[k - m][<<x[1] + m, first, x[3]>>]
                 IN  MergeOrder(key, both, x[1], k, x[3])]
    IN  sorted[n][<<lo, order, acc>>]

Unsorted(list) == [c \in DOMAIN list |-> c]
InOrder(list, order) == [c \in DOMAIN list |-> list[order[c]]]

bitonic_merge(list, lo, n, acc) == InOrder(list, MergeOrder(list, Unsorted(list), lo, n, acc))
sort(list, lo, n, acc)          == InOrder(list, SortOrder(list, Unsorted(list), lo, n, acc))
=============================================================================
