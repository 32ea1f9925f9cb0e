------------------------- MODULE TileReducerProofs --------------------------
(***************************************************************************)
(* What TLAPS proves of the reducers and of what they call:                 *)
(*   - compact(), called on a list of any length, moves the kept cells to   *)
(*     the front, in their order, and never one onto another;               *)
(*   - emp::sort and emp::bitonic_merge lose none of any number of cells,   *)
(*     and sort them if emp's comparison is an order of them, which it is   *)
(*     not of none with a positive and a negative one that are near;        *)
(*   - a reducer that gets any number of tiles of any size invents no       *)
(*     device, has the tiles merged in order after each and no device twice *)
(*     if emp's comparison is an order of them, and loses none if they fit  *)
(*     into one tile and none is the largest.                               *)
(*                                                                          *)
(* A network that only compares is right if it is right for two values      *)
(* (the 0-1 principle): for each value v, the places of the cells that      *)
(* belong behind v, the late ones, must end up behind the early ones.       *)
(***************************************************************************)
EXTENDS TileReducer, FiniteSetTheorems, FunctionTheorems, WellFoundedInduction, TLAPS

-----------------------------------------------------------------------------
(* compact() on any list.                                                    *)

CompactInit == pc = "reduce" /\ \E N \in Nat \ {0, 1} : data \in [0..N - 1 -> Cells]
CompactNext == MarkDuplicates \/ CompactStep
CompactSpec == CompactInit /\ [][CompactNext]_<<marked, data, distance, i, j, pc>>

\* The loop variables, at the loop headers.
LoopInv ==
    /\ pc = "loop" => i < n_bits(n) /\ 2^i <= j /\ j < n
    /\ pc = "done" => i = n_bits(n)

ListInv == \E N \in Nat \ {0, 1} : data \in [0..N - 1 -> Cells]

Inv == pc \in {"reduce", "loop", "done"} /\ ListInv /\ IInv /\ LoopInv /\ OrderKept

-----------------------------------------------------------------------------
(* Powers of two, and the number of passes.                                  *)

LEMMA Least ==
  ASSUME NEW T, T \subseteq Nat, T # {}
  PROVE  \E m \in T : \A y \in T : m <= y
  <1>1. PICK x \in T : \A y \in T : ~ (<<y, x>> \in OpToRel(<, Nat))
    BY WFMin, NatLessThanWellFounded, Zenon
  <1>2. \A y \in T : ~(y < x)
    BY <1>1 DEF OpToRel
  <1>3. QED
    BY <1>2

\* A set of k elements has 2^k subsets.
LEMMA SubsetsOf ==
  ASSUME NEW k \in Nat
  PROVE  IsFiniteSet(SUBSET (1..k)) /\ Cardinality(SUBSET (1..k)) = 2^k /\ 2^k \in Nat
  <1>1. IsFiniteSet(1..k) /\ Cardinality(1..k) = k
    BY FS_Interval
  <1>2. IsFiniteSet(SUBSET (1..k)) /\ Cardinality(SUBSET (1..k)) = 2^k
    BY <1>1, FS_SUBSET
  <1>3. QED
    BY <1>2, FS_CardinalityType

LEMMA PowerDoubles ==
  ASSUME NEW k \in Nat
  PROVE  2^(k + 1) = 2 * 2^k
  <1> DEFINE S == SUBSET (1..k)
             T == {A \cup {k + 1} : A \in S}
             f == [A \in S |-> A \cup {k + 1}]
  <1>1. f \in Bijection(S, T)
    <2>1. \A A, B \in S : f[A] = f[B] => A = B
      <3> SUFFICES ASSUME NEW A \in S, NEW B \in S, f[A] = f[B] PROVE A = B
        OBVIOUS
      <3>1. k + 1 \notin A /\ k + 1 \notin B
        OBVIOUS
      <3>2. A \cup {k + 1} = B \cup {k + 1}
        OBVIOUS
      <3>3. QED
        BY <3>1, <3>2
    <2>2. f \in [S -> T]
      OBVIOUS
    <2>3. \A B \in T : \E A \in S : f[A] = B
      OBVIOUS
    <2> HIDE DEF f, S, T
    <2>4. QED
      BY <2>1, <2>2, <2>3 DEF Bijection, Injection, Surjection, IsInjective
  <1>2. IsFiniteSet(S) /\ Cardinality(S) = 2^k /\ 2^k \in Nat
    BY SubsetsOf
  <1>3. IsFiniteSet(T) /\ Cardinality(T) = 2^k
    <2> HIDE DEF S, T, f
    <2>1. QED
      BY <1>1, <1>2, FS_Bijection DEF ExistsBijection
  <1>4. S \cap T = {}
    <2> SUFFICES ASSUME NEW A \in S, A \in T PROVE FALSE
      OBVIOUS
    <2>1. k + 1 \in A /\ A \subseteq 1..k
      OBVIOUS
    <2>2. QED
      BY <2>1
  <1>5. S \cup T = SUBSET (1..(k + 1))
    <2>1. ASSUME NEW A \in SUBSET (1..(k + 1)), k + 1 \in A
          PROVE  A \in T
      <3>1. A \ {k + 1} \in S
        OBVIOUS
      <3>2. A = (A \ {k + 1}) \cup {k + 1}
        BY <2>1
      <3>3. QED
        BY <3>1, <3>2
    <2>2. ASSUME NEW A \in SUBSET (1..(k + 1)), k + 1 \notin A
          PROVE  A \in S
      BY <2>2
    <2>3. ASSUME NEW A \in T PROVE A \subseteq 1..(k + 1)
      <3>1. PICK B \in S : A = B \cup {k + 1}
        BY <2>3
      <3>2. B \subseteq 1..(k + 1) /\ k + 1 \in 1..(k + 1)
        OBVIOUS
      <3>3. QED
        BY <3>1, <3>2
    <2>4. ASSUME NEW A \in S PROVE A \subseteq 1..(k + 1)
      OBVIOUS
    <2>5. QED
      BY <2>1, <2>2, <2>3, <2>4
  <1>6. Cardinality(S \cup T) = Cardinality(S) + Cardinality(T) - Cardinality(S \cap T)
    <2> HIDE DEF S, T, f
    <2>1. QED
      BY <1>2, <1>3, FS_Union
  <1>7. Cardinality(S \cap T) = 0
    BY <1>4, FS_EmptySet
  <1>8. 2^(k + 1) = 2^k + 2^k - 0
    <2>1. k + 1 \in Nat
      OBVIOUS
    <2>2. Cardinality(SUBSET (1..(k + 1))) = 2^(k + 1)
      BY <2>1, SubsetsOf
    <2> HIDE DEF S, T, f
    <2>3. QED
      BY <2>2, <1>2, <1>3, <1>5, <1>6, <1>7
  <1>9. QED
    <2> DEFINE u == 2^k
               v == 2^(k + 1)
    <2>1. u \in Nat /\ v = u + u - 0
      BY <1>2, <1>8
    <2> HIDE DEF u, v
    <2>2. v = 2 * u
      BY <2>1
    <2>3. QED
      BY <2>2 DEF u, v

LEMMA PowerGrows ==
  ASSUME NEW a \in Nat, NEW b \in Nat, a <= b
  PROVE  2^a \in Nat \ {0} /\ 2^b \in Nat \ {0} /\ 2^a <= 2^b /\ b < 2^b
  <1>1. \A k \in Nat : 2^k \in Nat \ {0}
    <2> SUFFICES ASSUME NEW k \in Nat PROVE 2^k \in Nat \ {0}
      OBVIOUS
    <2>1. {} \in SUBSET (1..k)
      OBVIOUS
    <2>2. QED
      BY <2>1, SubsetsOf, FS_EmptySet
  <1>2. 2^a <= 2^b
    <2>1. SUBSET (1..a) \in SUBSET (SUBSET (1..b))
      OBVIOUS
    <2>2. Cardinality(SUBSET (1..a)) <= Cardinality(SUBSET (1..b))
      BY <2>1, SubsetsOf, FS_Subset
    <2>3. QED
      BY <2>2, SubsetsOf
  <1>3. b < 2^b
    <2> DEFINE T == {k \in Nat : ~(k < 2^k)}
    <2> SUFFICES ASSUME T # {} PROVE FALSE
      OBVIOUS
    <2>1. PICK m \in T : \A y \in T : m <= y
      BY Least
    <2>2. CASE m = 0
      <3>1. 2^0 = 1
        OBVIOUS
      <3>2. QED
        BY <2>1, <2>2, <3>1
    <2>3. CASE m # 0
      <3>1. m - 1 \in Nat /\ m = (m - 1) + 1 /\ m - 1 \notin T
        BY <2>1, <2>3
      <3>2. 2^((m - 1) + 1) = 2 * 2^(m - 1)
        BY <3>1, PowerDoubles
      <3> DEFINE u == 2^(m - 1)
                 v == 2^m
      <3>3. u \in Nat /\ m - 1 < u /\ v = 2 * u /\ ~(m < v)
        BY <1>1, <2>1, <3>1, <3>2
      <3> HIDE DEF u, v
      <3>4. QED
        BY <3>3, <3>1
    <2>4. QED
      BY <2>2, <2>3
  <1>4. QED
    BY <1>1, <1>2, <1>3

LEMMA Passes ==
  ASSUME NEW N \in Nat \ {0, 1}
  PROVE  n_bits(N) \in 1..N /\ 2^(n_bits(N) - 1) <= N - 1 /\ N - 1 < 2^n_bits(N)
  <1> DEFINE T == {b \in Nat : N - 1 < 2^b}
  <1>1. N \in T
    BY PowerGrows
  <1>2. PICK b \in T : \A y \in T : b <= y
    BY <1>1, Least
  <1>3. b # 0
    <2> SUFFICES ASSUME b = 0 PROVE FALSE
      OBVIOUS
    <2>1. N - 1 < 2^b
      OBVIOUS
    <2>2. 2^b = 1
      OBVIOUS
    <2>3. QED
      BY <2>1, <2>2
  <1>4. b - 1 \in Nat /\ b - 1 \notin T
    BY <1>2, <1>3
  <1>5. 2^(b - 1) \in Nat
    BY <1>4, PowerGrows
  <1>6. b \in 1..N /\ 2^(b - 1) <= N - 1 /\ N - 1 < 2^b
    BY <1>1, <1>2, <1>3, <1>4, <1>5
  <1>7. \E c \in 1..N : 2^(c - 1) <= N - 1 /\ N - 1 < 2^c
    BY <1>6
  <1>8. QED
    BY <1>7 DEF n_bits

-----------------------------------------------------------------------------
(* Ranks.                                                                    *)

LEMMA Sized ==
  ASSUME NEW N \in Nat, NEW d, DOMAIN d = 0..N - 1
  PROVE  Size(d) = N
  BY FS_Interval DEF Size

LEMMA Within ==
  ASSUME NEW x \in Nat, NEW y \in Nat, x <= y, NEW S, S \subseteq x..y - 1
  PROVE  IsFiniteSet(S) /\ Cardinality(S) \in Nat /\ Cardinality(S) <= y - x
  <1>1. x \in Int /\ y - 1 \in Int
    OBVIOUS
  <1>2. IsFiniteSet(x..y - 1) /\ Cardinality(x..y - 1) = y - x
    <2>1. /\ IsFiniteSet(x..y - 1)
          /\ Cardinality(x..y - 1) = IF x > y - 1 THEN 0 ELSE (y - 1) - x + 1
      BY <1>1, FS_Interval
    <2>2. QED
      BY <2>1
  <1>3. S \in SUBSET (x..y - 1)
    OBVIOUS
  <1>4. IsFiniteSet(S) /\ Cardinality(S) <= Cardinality(x..y - 1)
    BY <1>2, <1>3, FS_Subset
  <1>5. QED
    BY <1>2, <1>4, FS_CardinalityType

\* The kept cells between two places.
LEMMA RankGrows ==
  ASSUME NEW N \in Nat, NEW d, DOMAIN d = 0..N - 1, NEW a \in 0..N, NEW b \in a..N
  PROVE  /\ Rank(d, a) \in 0..a /\ Rank(d, b) \in 0..b
         /\ Rank(d, a) <= Rank(d, b) /\ Rank(d, b) - Rank(d, a) <= b - a
         /\ (\A c \in a..b - 1 : d[c] = none) => Rank(d, a) = Rank(d, b)
         /\ a < b /\ d[a] # none => Rank(d, a) < Rank(d, b)
  <1> DEFINE A == {e \in Kept(d) : e < a}
             B == {e \in Kept(d) : e < b}
             M == {e \in Kept(d) : a <= e /\ e < b}
  <1>1. A \subseteq 0..a - 1 /\ B \subseteq 0..b - 1 /\ M \subseteq a..b - 1
    BY DEF Kept
  <1>2. 0 \in Nat /\ a \in Nat /\ b \in Nat /\ 0 <= a /\ 0 <= b /\ a <= b /\ a - 0 = a /\ b - 0 = b
    OBVIOUS
  <1>3. A \cap M = {} /\ A \cup M = B
    BY DEF Kept
  <1>4. (\A c \in a..b - 1 : d[c] = none) => M = {}
    BY DEF Kept
  <1>5. a < b /\ d[a] # none => a \in M
    BY DEF Kept
  <1>6. Rank(d, a) = Cardinality(A) /\ Rank(d, b) = Cardinality(B)
    BY DEF Rank
  <1> HIDE DEF A, B, M
  <1>7. /\ IsFiniteSet(A) /\ Cardinality(A) \in Nat /\ Cardinality(A) <= a
        /\ IsFiniteSet(B) /\ Cardinality(B) \in Nat /\ Cardinality(B) <= b
        /\ IsFiniteSet(M) /\ Cardinality(M) \in Nat /\ Cardinality(M) <= b - a
    BY <1>1, <1>2, Within
  <1>8. Cardinality(A \cap M) = 0 /\ (Cardinality(M) = 0 <=> M = {})
    BY <1>3, <1>7, FS_EmptySet
  <1>9. Cardinality(B) = Cardinality(A) + Cardinality(M) - Cardinality(A \cap M)
    BY <1>3, <1>7, FS_Union
  <1>10. QED
    BY <1>4, <1>5, <1>6, <1>7, <1>8, <1>9

\* No two kept cells have the same rank.
LEMMA RankInjective ==
  ASSUME NEW N \in Nat, NEW d, DOMAIN d = 0..N - 1, NEW a \in Kept(d), NEW b \in Kept(d),
         Rank(d, a) = Rank(d, b)
  PROVE  a = b
  <1>1. a \in 0..N - 1 /\ b \in 0..N - 1 /\ d[a] # none /\ d[b] # none
    BY DEF Kept
  <1>2. ~(a < b)
    <2> SUFFICES ASSUME a < b PROVE FALSE
      OBVIOUS
    <2>1. a \in 0..N /\ b \in a..N /\ Rank(d, a) \in 0..a /\ Rank(d, b) \in 0..b
      BY <1>1, RankGrows
    <2>2. Rank(d, a) < Rank(d, b)
      BY <1>1, <2>1, RankGrows
    <2>3. QED
      BY <2>1, <2>2
  <1>3. ~(b < a)
    <2> SUFFICES ASSUME b < a PROVE FALSE
      OBVIOUS
    <2>1. b \in 0..N /\ a \in b..N /\ Rank(d, a) \in 0..a /\ Rank(d, b) \in 0..b
      BY <1>1, RankGrows
    <2>2. Rank(d, b) < Rank(d, a)
      BY <1>1, <2>1, RankGrows
    <2>3. QED
      BY <2>1, <2>2
  <1>4. QED
    BY <1>1, <1>2, <1>3

LEMMA CompactedCell ==
  ASSUME NEW N \in Nat, NEW d, DOMAIN d = 0..N - 1, NEW c \in Kept(d)
  PROVE  Rank(d, c) \in 0..N - 1 /\ Compacted(d)[Rank(d, c)] = d[c]
  <1>1. c \in 0..N - 1 /\ Rank(d, c) \in 0..N - 1
    <2>1. c \in 0..N - 1
      BY DEF Kept
    <2>2. c \in 0..N /\ c \in c..N
      BY <2>1
    <2>3. Rank(d, c) \in 0..c
      BY <2>2, RankGrows
    <2>4. QED
      BY <2>1, <2>3
  <1> DEFINE r == Rank(d, c)
             e == CHOOSE x \in Kept(d) : Rank(d, x) = r
  <1>2. e \in Kept(d) /\ Rank(d, e) = r
    OBVIOUS
  <1>3. e = c
    BY <1>2, RankInjective
  <1>4. Compacted(d)[r] = d[e]
    BY <1>1 DEF Compacted
  <1>5. QED
    BY <1>1, <1>3, <1>4

LEMMA CompactedRest ==
  ASSUME NEW d, NEW r \in DOMAIN d, \A c \in Kept(d) : Rank(d, c) # r
  PROVE  Compacted(d)[r] = none
  BY DEF Compacted

\* Lists whose kept cells are the same, rank by rank, are compacted to the same.
LEMMA SameCompacted ==
  ASSUME NEW N \in Nat, NEW d, DOMAIN d = 0..N - 1, NEW d2, DOMAIN d2 = 0..N - 1,
         \A c \in Kept(d) : \E e \in Kept(d2) : Rank(d2, e) = Rank(d, c) /\ d2[e] = d[c],
         \A e \in Kept(d2) : \E c \in Kept(d) : Rank(d2, e) = Rank(d, c)
  PROVE  Compacted(d2) = Compacted(d)
  <1>1. ASSUME NEW r \in 0..N - 1 PROVE Compacted(d2)[r] = Compacted(d)[r]
    <2>1. CASE \E c \in Kept(d) : Rank(d, c) = r
      <3>1. PICK c \in Kept(d) : Rank(d, c) = r
        BY <2>1
      <3>2. PICK e \in Kept(d2) : Rank(d2, e) = r /\ d2[e] = d[c]
        BY <3>1
      <3>3. Compacted(d)[r] = d[c]
        BY <3>1, CompactedCell
      <3>4. Compacted(d2)[r] = d2[e]
        BY <3>2, CompactedCell
      <3>5. QED
        BY <3>2, <3>3, <3>4
    <2>2. CASE \A c \in Kept(d) : Rank(d, c) # r
      <3>1. \A e \in Kept(d2) : Rank(d2, e) # r
        BY <2>2
      <3>2. QED
        BY <2>2, <3>1, CompactedRest
    <2>3. QED
      BY <2>1, <2>2
  <1>2. /\ Compacted(d) = [r \in 0..N - 1 |-> Compacted(d)[r]]
        /\ Compacted(d2) = [r \in 0..N - 1 |-> Compacted(d2)[r]]
    BY DEF Compacted
  <1>3. QED
    BY <1>1, <1>2

-----------------------------------------------------------------------------
(* A cell is moved.                                                          *)

\* No multiple of u lies between -u and u but 0.
LEMMA NoMultiple ==
  ASSUME NEW u \in Nat \ {0}, NEW x \in Int, -u < u * x, u * x < u
  PROVE  x = 0
  <1>1. ~(x >= 1)
    <2> SUFFICES ASSUME x >= 1 PROVE u * x >= u
      OBVIOUS
    <2>1. QED
      OBVIOUS
  <1>2. ~(x <= -1)
    <2> SUFFICES ASSUME x <= -1 PROVE u * x <= -u
      OBVIOUS
    <2>1. QED
      OBVIOUS
  <1>3. QED
    BY <1>1, <1>2

\* Where the kept cells are in a pass of steps of u, of which the cells before
\* k have made theirs.
OnTheWay(d, dist, u, k) ==
    \A c \in DOMAIN d :
        IF d[c] = none THEN dist[c] = 0
        ELSE c - dist[c] * (IF c < k THEN 2 * u ELSE u) = Rank(d, c)

\* Cell k of list d is to move by u.
Moving(N, d, dist, u, k) ==
    /\ N \in Nat /\ DOMAIN d = 0..N - 1 /\ dist \in [0..N - 1 -> Nat]
    /\ u \in Nat \ {0} /\ k \in u..N - 1
    /\ OnTheWay(d, dist, u, k) /\ dist[k] % 2 # 0

\* A cell that moves in this pass has none before it, as far as it moves.
LEMMA Gap ==
  ASSUME NEW N, NEW d, NEW dist, NEW u, NEW k, Moving(N, d, dist, u, k)
  PROVE  d[k] # none /\ \A c \in (k - u)..(k - 1) : d[c] = none
  <1>. /\ N \in Nat /\ DOMAIN d = 0..N - 1 /\ dist \in [0..N - 1 -> Nat]
       /\ u \in Nat \ {0} /\ k \in u..N - 1 /\ OnTheWay(d, dist, u, k) /\ dist[k] % 2 # 0
    BY DEF Moving
  <1>1. k \in 0..N - 1 /\ dist[k] \in Nat
    OBVIOUS
  <1>2. d[k] # none /\ k - dist[k] * u = Rank(d, k)
    <2>1. dist[k] # 0
      BY <1>1
    <2>2. /\ d[k] = none => dist[k] = 0
          /\ d[k] # none => k - dist[k] * (IF k < k THEN 2 * u ELSE u) = Rank(d, k)
      BY <1>1 DEF OnTheWay
    <2>3. (IF k < k THEN 2 * u ELSE u) = u
      BY <1>1
    <2>4. QED
      BY <2>1, <2>2, <2>3
  <1>3. ASSUME NEW c \in (k - u)..(k - 1), d[c] # none PROVE FALSE
    <2>1. c \in 0..N - 1 /\ c < k /\ dist[c] \in Nat
      OBVIOUS
    <2>2. c - dist[c] * (2 * u) = Rank(d, c)
      BY <1>3, <2>1 DEF OnTheWay
    <2>3. /\ Rank(d, c) \in Int /\ Rank(d, k) \in Int
          /\ Rank(d, c) < Rank(d, k) /\ Rank(d, k) - Rank(d, c) <= k - c
      <3>1. c \in 0..N /\ k \in c..N
        BY <1>1, <2>1
      <3>2. Rank(d, c) \in 0..c /\ Rank(d, k) \in 0..k
        BY <3>1, RankGrows
      <3>3. Rank(d, c) < Rank(d, k) /\ Rank(d, k) - Rank(d, c) <= k - c
        BY <1>3, <2>1, <3>1, RankGrows
      <3>4. QED
        BY <3>2, <3>3
    <2> DEFINE x == 2 * dist[c] - dist[k]
    <2>4. x \in Int /\ x # 0
      <3> DEFINE y == dist[k]
                 z == dist[c]
      <3>1. y \in Nat /\ z \in Nat /\ y % 2 # 0 /\ x = 2 * z - y
        BY <1>1, <2>1
      <3> HIDE DEF x, y, z
      <3>2. QED
        BY <3>1
    <2>5. u * x = dist[c] * (2 * u) - dist[k] * u
      BY <1>1, <2>1
    <2> DEFINE y == dist[k] * u
               z == dist[c] * (2 * u)
               w == u * x
    <2>6. y \in Int /\ z \in Int /\ w \in Int
      BY <1>1, <2>1
    <2>7. w = z - y /\ k - y = Rank(d, k) /\ c - z = Rank(d, c)
      BY <1>2, <2>2, <2>5
    <2>8. k - c <= u /\ k \in Int /\ c \in Int
      BY <1>1, <2>1
    <2> HIDE DEF x, y, z, w
    <2>9. -u < w /\ w < u
      BY <2>3, <2>6, <2>7, <2>8
    <2>10. QED
      BY <2>4, <2>9, NoMultiple DEF w
  <1>4. QED
    BY <1>2, <1>3

Hop(N, d, a, b, d2) ==
    /\ N \in Nat /\ DOMAIN d = 0..N - 1 /\ DOMAIN d2 = 0..N - 1
    /\ a \in 0..N - 1 /\ b \in a + 1..N - 1
    /\ d[b] # none /\ \A c \in a..b - 1 : d[c] = none
    /\ d2[a] = d[b] /\ d2[b] = none /\ \A c \in (0..N - 1) \ {a, b} : d2[c] = d[c]

\* Over such a gap the cell keeps its rank and so do all others.
LEMMA Moved ==
  ASSUME NEW N, NEW d, NEW a, NEW b, NEW d2, Hop(N, d, a, b, d2)
  PROVE  /\ Rank(d2, a) = Rank(d, b)
         /\ \A c \in 0..N - 1 : d2[c] # none /\ c # a => Rank(d2, c) = Rank(d, c)
         /\ Compacted(d2) = Compacted(d)
  <1>. /\ N \in Nat /\ DOMAIN d = 0..N - 1 /\ DOMAIN d2 = 0..N - 1
       /\ a \in 0..N - 1 /\ b \in a + 1..N - 1
       /\ d[b] # none /\ \A c \in a..b - 1 : d[c] = none
       /\ d2[a] = d[b] /\ d2[b] = none /\ \A c \in (0..N - 1) \ {a, b} : d2[c] = d[c]
    BY DEF Hop
  <1>1. /\ DOMAIN d2 = 0..N - 1 /\ d2[a] = d[b] /\ d2[b] = none
        /\ \A c \in 0..N - 1 : c # a /\ c # b => d2[c] = d[c]
        /\ d[a] = none /\ a # b /\ b \in 0..N - 1
    OBVIOUS
  <1>2. /\ Kept(d2) = (Kept(d) \ {b}) \cup {a} /\ b \in Kept(d) /\ a \notin Kept(d)
        /\ Kept(d) \subseteq 0..N - 1 /\ Kept(d2) \subseteq 0..N - 1 /\ a < b
    BY <1>1 DEF Kept
  <1>3. Rank(d2, a) = Rank(d, a)
    <2>1. {c \in Kept(d2) : c < a} = {c \in Kept(d) : c < a}
      BY <1>2
    <2>2. QED
      BY <2>1 DEF Rank
  <1>4. Rank(d, a) = Rank(d, b)
    <2>1. a \in 0..N /\ b \in a..N
      OBVIOUS
    <2>2. (\A c \in a..b - 1 : d[c] = none) => Rank(d, a) = Rank(d, b)
      BY <2>1, RankGrows
    <2>3. QED
      BY <2>2
  <1>5. ASSUME NEW c \in 0..N - 1, d2[c] # none, c # a
        PROVE  Rank(d2, c) = Rank(d, c) /\ c \in Kept(d) /\ d2[c] = d[c]
    <2>1. c # b /\ d2[c] = d[c] /\ ~(c \in a..b - 1) /\ c \in Kept(d)
      BY <1>1, <1>5 DEF Kept
    <2> DEFINE A == {e \in Kept(d) : e < c}
               B == {e \in Kept(d2) : e < c}
    <2>2. CASE c < a
      <3>1. A = B
        BY <1>2, <2>2
      <3>2. QED
        BY <2>1, <3>1 DEF Rank
    <2>3. CASE b < c
      <3>1. B = (A \ {b}) \cup {a} /\ b \in A /\ a \notin A \ {b}
        BY <1>2, <2>3
      <3>2. IsFiniteSet(A) /\ Cardinality(A) \in Nat
        <4>1. A \in SUBSET (0..N - 1)
          BY DEF Kept
        <4>2. 0 \in Int /\ N - 1 \in Int
          OBVIOUS
        <4> HIDE DEF A, B
        <4>3. QED
          BY <4>1, <4>2, FS_Interval, FS_Subset, FS_CardinalityType
      <3> HIDE DEF A, B
      <3>3. IsFiniteSet(A \ {b}) /\ Cardinality(A \ {b}) = Cardinality(A) - 1
        BY <3>1, <3>2, FS_RemoveElement
      <3>4. Cardinality(B) = (Cardinality(A) - 1) + 1
        BY <3>1, <3>3, FS_AddElement
      <3>5. QED
        BY <2>1, <3>2, <3>4 DEF A, B, Rank
    <2>4. QED
      BY <2>1, <2>2, <2>3
  <1>6. \A c \in Kept(d) : \E e \in Kept(d2) : Rank(d2, e) = Rank(d, c) /\ d2[e] = d[c]
    <2> SUFFICES ASSUME NEW c \in Kept(d)
                 PROVE  \E e \in Kept(d2) : Rank(d2, e) = Rank(d, c) /\ d2[e] = d[c]
      OBVIOUS
    <2>1. CASE c = b
      BY <1>1, <1>2, <1>3, <1>4, <2>1
    <2>2. CASE c # b
      <3>1. c \in Kept(d2) /\ c # a
        BY <1>2, <2>2
      <3>2. c \in 0..N - 1 /\ d2[c] # none
        BY <1>1, <3>1 DEF Kept
      <3>3. QED
        BY <1>5, <3>1, <3>2
    <2>3. QED
      BY <2>1, <2>2
  <1>7. \A e \in Kept(d2) : \E c \in Kept(d) : Rank(d2, e) = Rank(d, c)
    <2> SUFFICES ASSUME NEW e \in Kept(d2)
                 PROVE  \E c \in Kept(d) : Rank(d2, e) = Rank(d, c)
      OBVIOUS
    <2>1. CASE e = a
      BY <1>2, <1>3, <1>4, <2>1
    <2>2. CASE e # a
      <3>1. e \in 0..N - 1 /\ d2[e] # none
        BY <1>1 DEF Kept
      <3>2. QED
        BY <1>5, <2>2, <3>1
    <2>3. QED
      BY <2>1, <2>2
  <1>8. Compacted(d2) = Compacted(d)
    BY <1>1, <1>6, <1>7, SameCompacted
  <1>9. QED
    BY <1>3, <1>4, <1>5, <1>8

\* One round of the inner loop, with u for 2^i and m for move.
Round(N, d, dist, u, k, m, d2, dist2) ==
    /\ N \in Nat /\ DOMAIN d = 0..N - 1 /\ DOMAIN d2 = 0..N - 1 /\ dist \in [0..N - 1 -> Nat]
    /\ u \in Nat \ {0} /\ k \in u..N - 1 /\ OnTheWay(d, dist, u, k)
    /\ m \in BOOLEAN /\ (m <=> dist[k] % 2 # 0)
    /\ \A c \in 0..N - 1 :
          /\ d2[c] = IF m /\ c = k - u THEN d[k] ELSE IF m /\ c = k THEN none ELSE d[c]
          /\ dist2[c] = IF m /\ c = k - u THEN dist[k] \div 2
                        ELSE IF c = k THEN (IF m THEN 0 ELSE dist[k] \div 2)
                        ELSE dist[c]

\* After it every kept cell is still on its
\* way, and the list compacts to what it did.
LEMMA CellMoves ==
  ASSUME NEW N, NEW d, NEW dist, NEW u, NEW k, NEW m, NEW d2, NEW dist2,
         Round(N, d, dist, u, k, m, d2, dist2)
  PROVE  OnTheWay(d2, dist2, u, k + 1) /\ Compacted(d2) = Compacted(d)
  <1>0. m => d[k] # none /\ \A c \in (k - u)..(k - 1) : d[c] = none
    <2>1. m => Moving(N, d, dist, u, k)
      BY DEF Round, Moving
    <2>2. QED
      BY <2>1, Gap
  <1>. /\ N \in Nat /\ DOMAIN d = 0..N - 1 /\ DOMAIN d2 = 0..N - 1 /\ dist \in [0..N - 1 -> Nat]
       /\ u \in Nat \ {0} /\ k \in u..N - 1 /\ OnTheWay(d, dist, u, k)
       /\ m \in BOOLEAN /\ (m <=> dist[k] % 2 # 0)
    BY DEF Round
  <1>1. k \in 0..N - 1 /\ k - u \in 0..N - 1 /\ k - u < k /\ k \in (k - u) + 1..N - 1
    OBVIOUS
  <1>2. \A c \in 0..N - 1 :
           /\ d[c] = none => dist[c] = 0
           /\ d[c] # none /\ c < k => c - dist[c] * (2 * u) = Rank(d, c)
           /\ d[c] # none /\ ~(c < k) => c - dist[c] * u = Rank(d, c)
    BY DEF OnTheWay
  <1>3. dist[k] \in Nat /\ dist[k] \div 2 \in Nat
        /\ dist[k] = 2 * (dist[k] \div 2) + (IF m THEN 1 ELSE 0)
    <2>1. dist[k] \in Nat
      BY <1>1
    <2> DEFINE x == dist[k]
    <2>2. x \in Nat /\ (m <=> x % 2 # 0)
      BY <2>1
    <2> HIDE DEF x
    <2>3. x \div 2 \in Nat /\ x = 2 * (x \div 2) + (IF m THEN 1 ELSE 0)
      BY <2>2
    <2>4. QED
      BY <2>3 DEF x
  <1>4. CASE ~m
    <2>1. \A c \in 0..N - 1 : d2[c] = d[c] /\ dist2[c] = IF c = k THEN dist[k] \div 2 ELSE dist[c]
      BY <1>4 DEF Round
    <2>2. Kept(d2) = Kept(d)
      BY <2>1 DEF Kept
    <2>3. \A c \in 0..N - 1 : Rank(d2, c) = Rank(d, c)
      BY <2>2 DEF Rank
    <2>4. Compacted(d2) = Compacted(d)
      <3>1. \A c \in Kept(d) : c \in Kept(d2) /\ Rank(d2, c) = Rank(d, c) /\ d2[c] = d[c]
        BY <2>1, <2>2, <2>3 DEF Kept
      <3>2. \A c \in Kept(d2) : c \in Kept(d) /\ Rank(d2, c) = Rank(d, c)
        BY <2>2, <3>1
      <3>3. QED
        BY <3>1, <3>2, SameCompacted
    <2>5. ASSUME NEW c \in 0..N - 1
          PROVE  IF d2[c] = none THEN dist2[c] = 0
                 ELSE c - dist2[c] * (IF c < k + 1 THEN 2 * u ELSE u) = Rank(d2, c)
      <3>1. CASE c = k
        <4>1. dist2[c] * (2 * u) = dist[k] * u /\ (dist[k] = 0 => dist2[c] = 0)
          <5> DEFINE x == dist[k]
                     y == x \div 2
          <5>1. x \in Nat /\ y \in Nat /\ x = 2 * y + 0 /\ dist2[c] = y
            BY <1>3, <1>4, <2>1, <3>1
          <5> HIDE DEF x, y
          <5>2. y * (2 * u) = x * u /\ (x = 0 => y = 0)
            BY <5>1
          <5>3. QED
            BY <5>1, <5>2 DEF x
        <4>2. (IF c < k + 1 THEN 2 * u ELSE u) = 2 * u
          BY <3>1
        <4>3. QED
          BY <1>1, <1>2, <2>1, <2>3, <3>1, <4>1, <4>2
      <3>2. CASE c # k
        <4>1. dist2[c] = dist[c] /\ d2[c] = d[c] /\ Rank(d2, c) = Rank(d, c)
          BY <2>1, <2>3, <3>2
        <4>2. c < k + 1 <=> c < k
          BY <3>2
        <4>3. QED
          BY <1>2, <4>1, <4>2
      <3>3. QED
        BY <3>1, <3>2
    <2>6. QED
      BY <2>4, <2>5 DEF OnTheWay
  <1>5. CASE m
    <2>1. d[k] # none /\ \A c \in (k - u)..(k - 1) : d[c] = none
      BY <1>0, <1>5
    <2>2. /\ d2[k - u] = d[k] /\ d2[k] = none
          /\ \A c \in (0..N - 1) \ {k - u, k} : d2[c] = d[c]
          /\ dist2[k - u] = dist[k] \div 2 /\ dist2[k] = 0
          /\ \A c \in (0..N - 1) \ {k - u, k} : dist2[c] = dist[c]
      <3>1. \A c \in 0..N - 1 :
               /\ d2[c] = IF c = k - u THEN d[k] ELSE IF c = k THEN none ELSE d[c]
               /\ dist2[c] = IF c = k - u THEN dist[k] \div 2 ELSE IF c = k THEN 0 ELSE dist[c]
        BY <1>5 DEF Round
      <3>2. k - u # k
        BY <1>1
      <3>3. QED
        BY <1>1, <3>1, <3>2
    <2>3. /\ Rank(d2, k - u) = Rank(d, k)
          /\ \A c \in 0..N - 1 : d2[c] # none /\ c # k - u => Rank(d2, c) = Rank(d, c)
          /\ Compacted(d2) = Compacted(d)
      <3>1. /\ \A c \in (k - u)..(k - 1) : d[c] = none
            /\ \A c \in (0..N - 1) \ {k - u, k} : d2[c] = d[c]
        BY <2>1, <2>2
      <3>2. Hop(N, d, k - u, k, d2)
        BY <1>1, <2>1, <2>2, <3>1 DEF Hop
      <3>3. (0..N - 1) = DOMAIN d
        OBVIOUS
      <3>4. QED
        BY <3>2, Moved, Zenon
    <2>4. ASSUME NEW c \in 0..N - 1
          PROVE  IF d2[c] = none THEN dist2[c] = 0
                 ELSE c - dist2[c] * (IF c < k + 1 THEN 2 * u ELSE u) = Rank(d2, c)
      <3>1. CASE c = k
        BY <1>1, <1>5, <2>2, <3>1
      <3>2. CASE c = k - u
        <4>1. c - dist2[c] * (2 * u) = Rank(d, k)
          <5> DEFINE x == dist[k]
                     y == x \div 2
          <5>1. x \in Nat /\ y \in Nat /\ x = 2 * y + 1 /\ dist2[c] = y
            BY <1>3, <1>5, <2>2, <3>2
          <5>2. k - x * u = Rank(d, k)
            BY <1>1, <1>2, <2>1
          <5> HIDE DEF x, y
          <5>3. (k - u) - y * (2 * u) = k - x * u
            BY <5>1
          <5>4. QED
            BY <3>2, <5>1, <5>2, <5>3
        <4>2. (IF c < k + 1 THEN 2 * u ELSE u) = 2 * u /\ d2[c] # none
          BY <1>1, <2>1, <2>2, <3>2
        <4>3. QED
          BY <2>3, <3>2, <4>1, <4>2
      <3>3. CASE c # k /\ c # k - u
        <4>1. dist2[c] = dist[c] /\ d2[c] = d[c]
          BY <2>2, <3>3
        <4>2. (c < k + 1 <=> c < k) /\ (d2[c] # none => Rank(d2, c) = Rank(d, c))
          BY <2>3, <3>3
        <4>3. QED
          BY <1>2, <4>1, <4>2
      <3>4. QED
        BY <3>1, <3>2, <3>3
    <2>5. QED
      BY <2>3, <2>4 DEF OnTheWay
  <1>6. QED
    BY <1>4, <1>5

\* When all cells have made a pass, the first of the next have nowhere to go.
LEMMA PassEnds ==
  ASSUME NEW N \in Nat, NEW d, DOMAIN d = 0..N - 1, NEW dist \in [0..N - 1 -> Nat],
         NEW u \in Nat \ {0}, OnTheWay(d, dist, u, N)
  PROVE  /\ OnTheWay(d, dist, 2 * u, 2 * u)
         /\ \A c \in 0..N - 1 : IF d[c] = none THEN dist[c] = 0
                                ELSE c - dist[c] * (2 * u) = Rank(d, c)
         /\ \A c \in 0..N - 1 : c < 2 * u => dist[c] = 0
  <1>1. \A c \in 0..N - 1 : IF d[c] = none THEN dist[c] = 0
                            ELSE c - dist[c] * (2 * u) = Rank(d, c)
    BY DEF OnTheWay
  <1>2. ASSUME NEW c \in 0..N - 1, c < 2 * u PROVE dist[c] = 0
    <2>1. CASE d[c] = none
      BY <1>1, <2>1
    <2>2. CASE d[c] # none
      <3>1. c \in 0..N /\ c \in c..N
        OBVIOUS
      <3>2. Rank(d, c) \in Nat
        BY <3>1, RankGrows
      <3> DEFINE x == dist[c]
      <3>3. x \in Nat /\ c - x * (2 * u) = Rank(d, c)
        BY <1>1, <2>2
      <3> HIDE DEF x
      <3> DEFINE w == x * (2 * u)
      <3>4. w < 2 * u
        <4>1. w \in Int /\ c - w = Rank(d, c)
          BY <3>3
        <4> HIDE DEF w
        <4>2. QED
          BY <1>2, <3>2, <4>1
      <3>5. ~(x >= 1)
        <4> SUFFICES ASSUME x >= 1 PROVE x * (2 * u) >= 2 * u
          BY <3>3, <3>4
        <4>1. QED
          BY <3>3
      <3>6. QED
        BY <3>3, <3>5 DEF x
    <2>3. QED
      BY <2>1, <2>2
  <1>3. OnTheWay(d, dist, 2 * u, 2 * u)
    <2> SUFFICES ASSUME NEW c \in 0..N - 1
                 PROVE  IF d[c] = none THEN dist[c] = 0
                        ELSE c - dist[c] * (IF c < 2 * u THEN 2 * (2 * u) ELSE 2 * u) = Rank(d, c)
      BY DEF OnTheWay
    <2>1. CASE c < 2 * u
      <3>1. dist[c] = 0
        BY <1>2, <2>1
      <3>2. 0 * (2 * (2 * u)) = 0 /\ 0 * (2 * u) = 0
        OBVIOUS
      <3>3. QED
        BY <1>1, <2>1, <3>1, <3>2
    <2>2. CASE ~(c < 2 * u)
      BY <1>1, <2>2
    <2>3. QED
      BY <2>1, <2>2
  <1>4. QED
    BY <1>1, <1>2, <1>3

\* A list of which each kept cell is at its rank is compacted.
LEMMA AtRank ==
  ASSUME NEW N \in Nat, NEW d, d = [c \in 0..N - 1 |-> d[c]],
         \A c \in 0..N - 1 : d[c] # none => Rank(d, c) = c
  PROVE  Compacted(d) = d
  <1>1. DOMAIN d = 0..N - 1
    OBVIOUS
  <1>2. ASSUME NEW r \in 0..N - 1 PROVE Compacted(d)[r] = d[r]
    <2>1. CASE d[r] # none
      <3>1. r \in Kept(d) /\ Rank(d, r) = r
        BY <1>1, <2>1 DEF Kept
      <3>2. Compacted(d)[Rank(d, r)] = d[r]
        BY <1>1, <3>1, CompactedCell
      <3>3. QED
        BY <3>1, <3>2
    <2>2. CASE d[r] = none
      <3>1. \A c \in Kept(d) : Rank(d, c) # r
        BY <1>1, <2>2 DEF Kept
      <3>2. QED
        BY <1>1, <2>2, <3>1, CompactedRest
    <2>3. QED
      BY <2>1, <2>2
  <1>3. Compacted(d) = [r \in 0..N - 1 |-> Compacted(d)[r]]
    BY <1>1 DEF Compacted
  <1>4. QED
    BY <1>2, <1>3

-----------------------------------------------------------------------------
(* The steps of Compaction.                                                  *)

\* The distances that compact() gets lead to the ranks, in steps of one.
LEMMA FirstPass ==
  ASSUME NEW N \in Nat \ {0, 1}, NEW d, DOMAIN d = 0..N - 1
  PROVE  Distance(d) \in [0..N - 1 -> 0..N - 1] /\ OnTheWay(d, Distance(d), 1, 1)
  <1>1. ASSUME NEW c \in 0..N - 1
        PROVE  /\ Cardinality({e \in 0..c - 1 : d[e] = none}) \in 0..N - 1
               /\ c - Cardinality({e \in 0..c - 1 : d[e] = none}) = Rank(d, c)
    <2> DEFINE A == {e \in 0..c - 1 : d[e] = none}
               B == {e \in Kept(d) : e < c}
    <2>1. A \subseteq 0..c - 1 /\ B \subseteq 0..c - 1 /\ A \cap B = {} /\ A \cup B = 0..c - 1
      BY DEF Kept
    <2>2. Rank(d, c) = Cardinality(B)
      BY DEF Rank
    <2>3. 0 \in Nat /\ c \in Nat /\ 0 <= c /\ c - 0 = c
      OBVIOUS
    <2> HIDE DEF A, B
    <2>4. /\ IsFiniteSet(A) /\ Cardinality(A) \in Nat /\ Cardinality(A) <= c
          /\ IsFiniteSet(B) /\ Cardinality(B) \in Nat
      BY <2>1, <2>3, Within
    <2>5. Cardinality(0..c - 1) = c
      <3>1. 0 \in Int /\ c - 1 \in Int
        OBVIOUS
      <3>2. Cardinality(0..c - 1) = IF 0 > c - 1 THEN 0 ELSE (c - 1) - 0 + 1
        BY <3>1, FS_Interval
      <3>3. QED
        BY <3>2
    <2>6. Cardinality(A \cup B) = Cardinality(A) + Cardinality(B) - Cardinality(A \cap B)
      BY <2>4, FS_Union
    <2>7. Cardinality(A \cap B) = 0
      BY <2>1, FS_EmptySet
    <2>8. c - Cardinality(A) = Cardinality(B) /\ Cardinality(A) \in 0..N - 1
      <3> DEFINE x == Cardinality(A)
                 y == Cardinality(B)
      <3>1. x \in Nat /\ y \in Nat /\ c = x + y - 0
        BY <2>1, <2>4, <2>5, <2>6, <2>7
      <3> HIDE DEF x, y
      <3>2. c - x = y /\ x \in 0..N - 1
        BY <3>1
      <3>3. QED
        BY <3>2 DEF x, y
    <2>9. QED
      BY <2>2, <2>8 DEF A
  <1>2. Distance(d) = [c \in 0..N - 1 |-> IF d[c] = none THEN 0
                                          ELSE Cardinality({e \in 0..c - 1 : d[e] = none})]
    BY DEF Distance
  <1>3. ASSUME NEW c \in 0..N - 1
        PROVE  /\ Distance(d)[c] \in 0..N - 1
               /\ d[c] = none => Distance(d)[c] = 0
               /\ d[c] # none => c - Distance(d)[c] = Rank(d, c)
    BY <1>1, <1>2
  <1>4. Distance(d) \in [0..N - 1 -> 0..N - 1]
    BY <1>2, <1>3
  <1>5. ASSUME NEW c \in 0..N - 1, d[c] # none
        PROVE  c - Distance(d)[c] * (IF c < 1 THEN 2 * 1 ELSE 1) = Rank(d, c)
    <2> DEFINE x == Distance(d)[c]
    <2>1. c \in 0..N /\ c \in c..N
      OBVIOUS
    <2>2. x \in Nat /\ c - x = Rank(d, c) /\ Rank(d, c) \in 0..c
      BY <1>3, <1>5, <2>1, RankGrows
    <2> HIDE DEF x
    <2>3. c < 1 => x = 0
      BY <2>2
    <2>4. c - x * (IF c < 1 THEN 2 * 1 ELSE 1) = c - x
      BY <2>2, <2>3
    <2>5. QED
      BY <2>2, <2>4 DEF x
  <1>6. QED
    BY <1>3, <1>4, <1>5 DEF OnTheWay

LEMMA MarkKeeps ==
  ASSUME Inv, MarkDuplicates
  PROVE  Inv'
  <1>1. PICK N \in Nat \ {0, 1} : data \in [0..N - 1 -> Cells]
    BY DEF Inv, ListInv
  <1>2. Marked(data) \in [0..N - 1 -> Cells]
    <2>1. Size(data) = N
      BY <1>1, Sized
    <2> DEFINE m == [c \in 0..N - 1 |-> IF c < N - 1 /\ data[c] = data[c + 1] THEN none ELSE data[c]]
    <2>2. m \in [0..N - 1 -> Cells]
      BY <1>1, CompactionAssumption
    <2>3. Marked(data) = [m EXCEPT ![N - 1] = IF m[N - 1] = m[N - 2] THEN none ELSE @]
      BY <2>1 DEF Marked
    <2> HIDE DEF m
    <2>4. QED
      BY <2>2, <2>3, CompactionAssumption
  <1>3. /\ marked' = Marked(data) /\ data' = Marked(data) /\ distance' = Distance(data')
        /\ i' = 0 /\ j' = 1 /\ pc' = "loop"
    BY DEF MarkDuplicates
  <1>4. /\ data' \in [0..N - 1 -> Cells] /\ marked' = data'
        /\ distance' \in [0..N - 1 -> 0..N - 1] /\ OnTheWay(data', distance', 1, 1)
    BY <1>2, <1>3, FirstPass
  <1>5. n' = N
    BY <1>4, Sized DEF n
  <1>6. n_bits(N) \in 1..N /\ 2^0 = 1 /\ 2^(0 + 1) = 2 * 1
    BY Passes
  <1>7. Targets'
    <2>1. \A c \in 0..N - 1 : Unit(c)' = IF c < 1 THEN 2 * 1 ELSE 1
      BY <1>3, <1>6 DEF Unit
    <2>2. QED
      BY <1>3, <1>4, <1>5, <2>1 DEF Targets, OnTheWay
  <1>8. TypeOK'
    BY <1>3, <1>4, <1>5, <1>6 DEF TypeOK
  <1>9. LoopInv'
    BY <1>3, <1>5, <1>6 DEF LoopInv
  <1>10. ListInv'
    BY <1>4 DEF ListInv
  <1>11. OrderKept'
    BY <1>4 DEF OrderKept
  <1>12. QED
    BY <1>3, <1>7, <1>8, <1>9, <1>10, <1>11 DEF Inv, IInv

LEMMA CompactKeeps ==
  ASSUME Inv, CompactStep
  PROVE  Inv'
  <1>1. pc = "loop" /\ TypeOK /\ Targets /\ OrderKept /\ LoopInv /\ Compacting
    BY DEF CompactStep, Inv, IInv, Compacting
  <1>2. PICK N \in Nat \ {0, 1} : data \in [0..N - 1 -> Cells]
    BY DEF Inv, ListInv
  <1>3. n = N
    BY <1>2, Sized DEF n
  <1> DEFINE u == 2^i
             k == j
  <1>4. /\ marked \in [0..N - 1 -> Cells] /\ distance \in [0..N - 1 -> 0..N - 1]
        /\ i \in Nat /\ i < n_bits(N) /\ u <= k /\ k < N /\ k \in Nat
    <2>1. /\ marked \in [0..N - 1 -> Cells] /\ distance \in [0..N - 1 -> 0..N - 1]
          /\ i \in 0..n_bits(N) /\ j \in 1..2 * N
      BY <1>1, <1>3 DEF TypeOK
    <2>2. i < n_bits(N) /\ u <= k /\ k < N
      BY <1>1, <1>3 DEF LoopInv
    <2>3. n_bits(N) \in Nat
      BY Passes
    <2>4. QED
      BY <2>1, <2>2, <2>3
  <1>5. u \in Nat \ {0} /\ 2^(i + 1) = 2 * u /\ k \in u..N - 1
    BY <1>4, PowerGrows, PowerDoubles
  <1>6. OnTheWay(data, distance, u, k)
    <2>1. \A c \in 0..N - 1 : Unit(c) = IF c < k THEN 2 * u ELSE u
      BY <1>5 DEF Unit
    <2>2. QED
      BY <1>1, <1>2, <1>3, <2>1 DEF Targets, OnTheWay
  <1>7. /\ data' \in [0..N - 1 -> Cells] /\ distance' \in [0..N - 1 -> 0..N - 1]
        /\ Round(N, data, distance, u, k, move, data', distance')
    <2>1. index = k - u /\ index \in 0..N - 1 /\ k \in 0..N - 1 /\ index # k
      BY <1>4, <1>5 DEF index
    <2>2. distance[k] \in 0..N - 1 /\ new_distance \in 0..N - 1 /\ new_distance = distance[k] \div 2
      BY <1>4, <2>1 DEF new_distance
    <2>3. move \in BOOLEAN /\ (move <=> distance[k] % 2 # 0)
      BY DEF move
    <2>4. /\ data' = [data EXCEPT ![index] = IF move THEN data[k] ELSE @,
                                  ![k] = IF move THEN none ELSE @]
          /\ distance' = [distance EXCEPT ![index] = IF move THEN new_distance ELSE @,
                                          ![k] = IF move THEN 0 ELSE new_distance]
      BY DEF CompactStep, MoveCell
    <2> HIDE DEF u, k
    <2>5. /\ \A c \in 0..N - 1 : data'[c] = IF c = k THEN (IF move THEN none ELSE data[k])
                                            ELSE IF c = index THEN (IF move THEN data[k] ELSE data[c])
                                            ELSE data[c]
          /\ DOMAIN data' = 0..N - 1 /\ data' \in [0..N - 1 -> Cells]
      BY <1>2, <2>1, <2>4, CompactionAssumption
    <2>6. /\ \A c \in 0..N - 1 : distance'[c] =
                IF c = k THEN (IF move THEN 0 ELSE new_distance)
                ELSE IF c = index THEN (IF move THEN new_distance ELSE distance[c])
                ELSE distance[c]
          /\ distance' \in [0..N - 1 -> 0..N - 1]
      <3>1. distance \in [0..N - 1 -> 0..N - 1] /\ 0 \in 0..N - 1
        BY <1>4
      <3> DEFINE v == new_distance
      <3>2. v \in 0..N - 1
        BY <2>2
      <3>3. distance' = [distance EXCEPT ![index] = IF move THEN v ELSE @,
                                         ![k] = IF move THEN 0 ELSE v]
        BY <2>4
      <3> HIDE DEF v
      <3>4. /\ \A c \in 0..N - 1 : distance'[c] =
                IF c = k THEN (IF move THEN 0 ELSE v)
                ELSE IF c = index THEN (IF move THEN v ELSE distance[c])
                ELSE distance[c]
            /\ distance' \in [0..N - 1 -> 0..N - 1]
        BY <2>1, <3>1, <3>2, <3>3
      <3>5. QED
        BY <3>4 DEF v
    <2>7. distance \in [0..N - 1 -> Nat]
      BY <1>4
    <2>8. QED
      BY <1>2, <1>5, <1>6, <2>1, <2>2, <2>3, <2>5, <2>6, <2>7 DEF Round
  <1>8. OnTheWay(data', distance', u, k + 1) /\ Compacted(data') = Compacted(data)
    BY <1>7, CellMoves
  <1>9. n' = N
    BY <1>7, Sized DEF n
  <1>10. marked' = marked /\ NextCell
    BY DEF CompactStep
  <1>11. /\ pc' \in {"loop", "done"} /\ Targets' /\ LoopInv'
         /\ i' \in 0..n_bits(N) /\ j' \in 1..2 * N
    <2>1. CASE j + 1 < n
      <3>1. i' = i /\ j' = j + 1 /\ pc' = "loop"
        BY <1>1, <1>10, <2>1 DEF NextCell
      <3>2. \A c \in 0..N - 1 : Unit(c)' = IF c < k + 1 THEN 2 * u ELSE u
        BY <1>5, <3>1 DEF Unit
      <3>3. Targets'
        BY <1>7, <1>8, <1>9, <3>1, <3>2 DEF Targets, OnTheWay
      <3>4. QED
        BY <1>3, <1>4, <1>5, <1>9, <2>1, <3>1, <3>3, Passes DEF LoopInv
    <2>2. CASE ~(j + 1 < n)
      <3>1. /\ i' = i + 1 /\ j' = 2^(i + 1) /\ k + 1 = N
            /\ pc' = IF i + 1 < n_bits(N) THEN "loop" ELSE "done"
        BY <1>3, <1>4, <1>10, <2>2 DEF NextCell
      <3>2. /\ OnTheWay(data', distance', 2 * u, 2 * u)
            /\ \A c \in 0..N - 1 : IF data'[c] = none THEN distance'[c] = 0
                                   ELSE c - distance'[c] * (2 * u) = Rank(data', c)
        <4>1. distance' \in [0..N - 1 -> Nat] /\ DOMAIN data' = 0..N - 1
          BY <1>7
        <4>2. OnTheWay(data', distance', u, N)
          BY <1>8, <3>1
        <4> HIDE DEF u, k
        <4>3. QED
          BY <1>5, <4>1, <4>2, PassEnds
      <3>3. n_bits(N) \in Nat /\ i + 1 <= n_bits(N) /\ u <= N - 1
        <4>1. n_bits(N) \in Nat
          BY Passes
        <4> HIDE DEF u
        <4>2. QED
          BY <1>4, <1>5, <4>1
      <3>4. CASE i + 1 < n_bits(N)
        <4>1. 2^(i + 1) <= N - 1
          <5>1. i + 1 \in Nat /\ n_bits(N) - 1 \in Nat /\ i + 1 <= n_bits(N) - 1
            BY <1>4, <3>3, <3>4
          <5>2. 2^(i + 1) <= 2^(n_bits(N) - 1) /\ 2^(i + 1) \in Nat /\ 2^(n_bits(N) - 1) \in Nat
            BY <5>1, PowerGrows
          <5>3. 2^(n_bits(N) - 1) <= N - 1
            BY Passes
          <5>4. QED
            BY <5>2, <5>3
        <4>2. pc' = "loop" /\ i' = i + 1 /\ j' = 2 * u /\ 2^i' = 2 * u
          BY <1>5, <3>1, <3>4
        <4>3. 2^(i' + 1) = 2 * (2 * u)
          <5>1. i + 1 \in Nat
            BY <1>4
          <5>2. 2^((i + 1) + 1) = 2 * 2^(i + 1)
            BY <5>1, PowerDoubles
          <5>3. QED
            BY <1>5, <4>2, <5>2
        <4>4. \A c \in 0..N - 1 : Unit(c)' = IF c < 2 * u THEN 2 * (2 * u) ELSE 2 * u
          BY <4>2, <4>3 DEF Unit
        <4>5. Targets'
          BY <1>7, <1>9, <3>2, <4>2, <4>4 DEF Targets, OnTheWay
        <4>6. LoopInv'
          BY <1>5, <1>9, <3>4, <4>1, <4>2 DEF LoopInv
        <4>7. QED
          BY <1>5, <3>1, <3>3, <4>1, <4>2, <4>5, <4>6, <1>4
      <3>5. CASE ~(i + 1 < n_bits(N))
        <4>1. pc' = "done" /\ i' = n_bits(N) /\ 2^i' = 2 * u /\ j' = 2 * u
          BY <1>4, <1>5, <3>1, <3>3, <3>5
        <4>2. Targets'
          BY <1>9, <3>2, <4>1 DEF Targets
        <4>3. LoopInv'
          BY <1>9, <4>1 DEF LoopInv
        <4>4. QED
          BY <1>5, <3>3, <4>1, <4>2, <4>3
      <3>6. QED
        BY <3>4, <3>5
    <2>3. QED
      BY <2>1, <2>2
  <1>12. TypeOK'
    BY <1>4, <1>7, <1>9, <1>10, <1>11 DEF TypeOK
  <1>13. ListInv'
    BY <1>7 DEF ListInv
  <1>14. OrderKept'
    BY <1>1, <1>8, <1>10 DEF OrderKept, Compacting
  <1>15. QED
    BY <1>11, <1>12, <1>13, <1>14 DEF Inv, IInv
-----------------------------------------------------------------------------
(* What follows.                                                             *)

LEMMA InvStays ==
  ASSUME Inv, UNCHANGED <<marked, data, distance, i, j, pc>>
  PROVE  Inv'
  <1>1. n' = n
    BY DEF n
  <1>2. IInv'
    BY <1>1 DEF Inv, IInv, Compacting, TypeOK, Targets, Unit
  <1>3. QED
    BY <1>1, <1>2 DEF Inv, ListInv, LoopInv, OrderKept, Compacting

LEMMA Inductive == CompactSpec => []Inv
  <1>1. CompactInit => Inv
    BY DEF CompactInit, Inv, ListInv, IInv, LoopInv, OrderKept, Compacting
  <1>2. Inv /\ [CompactNext]_<<marked, data, distance, i, j, pc>> => Inv'
    BY InvStays, MarkKeeps, CompactKeeps DEF CompactNext
  <1>3. QED
    BY <1>1, <1>2, PTL DEF CompactSpec

LEMMA Placed ==
  Inv => Compact
  <1> SUFFICES ASSUME Inv, pc = "done" PROVE data = Compacted(marked)
    BY DEF Compact
  <1>1. TypeOK /\ Targets /\ i = n_bits(n) /\ Compacted(data) = Compacted(marked)
    BY DEF Inv, IInv, LoopInv, OrderKept, Compacting
  <1>2. PICK N \in Nat \ {0, 1} : data \in [0..N - 1 -> Cells]
    BY DEF Inv, ListInv
  <1>3. n = N
    BY <1>2, Sized DEF n
  <1>4. n_bits(N) \in Nat /\ N - 1 < 2^n_bits(N) /\ 2^n_bits(N) \in Nat
    BY Passes, PowerGrows
  <1>5. ASSUME NEW c \in 0..N - 1, data[c] # none PROVE Rank(data, c) = c
    <2> DEFINE x == distance[c]
               w == 2^n_bits(N)
    <2>1. x \in Nat /\ w \in Nat /\ c - x * w = Rank(data, c) /\ N - 1 < w
      BY <1>1, <1>3, <1>4, <1>5 DEF TypeOK, Targets
    <2>2. Rank(data, c) \in Nat
      <3>1. c \in 0..N /\ c \in c..N /\ DOMAIN data = 0..N - 1
        BY <1>2
      <3>2. QED
        BY <3>1, RankGrows
    <2> HIDE DEF x, w
    <2>3. x = 0
      <3> SUFFICES ASSUME x >= 1 PROVE FALSE
        BY <2>1
      <3>1. x * w >= w
        BY <2>1
      <3>2. x * w \in Int
        BY <2>1
      <3>3. QED
        BY <2>1, <2>2, <3>1, <3>2
    <2>4. QED
      BY <2>1, <2>3
  <1>6. data = [c \in 0..N - 1 |-> data[c]]
    BY <1>2
  <1>7. Compacted(data) = data
    BY <1>5, <1>6, AtRank
  <1>8. QED
    BY <1>1, <1>7

\* Through all passes the distance a kept cell still has, in steps of its pass,
\* leads to its rank, though the code only halves distances and moves them.
THEOREM InvariantAlways == CompactSpec => []IInv
  <1>1. Inv => IInv
    BY DEF Inv
  <1>2. QED
    BY Inductive, <1>1, PTL

\* No cell is moved onto another one, and none past another one.
THEOREM OrderKeptAlways == CompactSpec => []OrderKept
  <1>1. Inv => OrderKept
    BY DEF Inv
  <1>2. QED
    BY Inductive, <1>1, PTL

\* After floor(log2(size - 1)) + 1 passes the kept cells are in front, in their
\* order, and all others are none: n_bits passes are enough for every size.
THEOREM CompactAlways == CompactSpec => []Compact
  <1>1. Inv => Compact
    BY Placed
  <1>2. QED
    BY Inductive, <1>1, PTL

-----------------------------------------------------------------------------
(* How emp compares.                                                         *)

LEMMA Remainders ==
  ASSUME NEW M \in Nat \ {0}, NEW z \in Int
  PROVE  /\ z \in 0..M - 1 => z % M = z
         /\ z \in -M..-1 => z % M = z + M
         /\ z \in M..2 * M - 1 => z % M = z - M
  <1>1. z % M \in 0..M - 1 /\ z = (M * (z \div M)) + (z % M)
    OBVIOUS
  <1>2. QED
    BY <1>1

\* What geq is, without remainders.
LEMMA GeqIs ==
  ASSUME NEW x \in -Half..Half - 1, NEW y \in -Half..Half - 1
  PROVE  geq(x, y) <=> (0 <= x - y /\ x - y < Half) \/ x - y < -Half
  <1> DEFINE M == 2 * Half
             z == x - y + Half
  <1>1. Half \in Nat \ {0} /\ M \in Nat \ {0} /\ x \in Int /\ y \in Int /\ z \in Int
    BY HalfAssumption
  <1>2. geq(x, y) <=> (z % M) - Half >= 0
    BY DEF geq, Wrap
  <1>3. /\ z \in 0..M - 1 => z % M = z
        /\ z \in -M..-1 => z % M = z + M
        /\ z \in M..2 * M - 1 => z % M = z - M
    <2> HIDE DEF z, M
    <2>1. QED
      BY <1>1, Remainders
  <1>4. CASE z \in 0..M - 1
    <2>1. (z - Half >= 0) <=> (0 <= x - y /\ x - y < Half) \/ x - y < -Half
      BY <1>1, <1>4
    <2> HIDE DEF z, M
    <2>2. QED
      BY <1>2, <1>3, <1>4, <2>1
  <1>5. CASE z \in -M..-1
    <2>1. (z + M - Half >= 0) <=> (0 <= x - y /\ x - y < Half) \/ x - y < -Half
      BY <1>1, <1>5
    <2> HIDE DEF z, M
    <2>2. z % M = z + M
      BY <1>3, <1>5
    <2>3. (z % M) - Half = z + M - Half
      BY <1>1, <2>2
    <2>4. QED
      BY <1>1, <1>2, <2>1, <2>3
  <1>6. CASE z \in M..2 * M - 1
    <2>1. (z - M - Half >= 0) <=> (0 <= x - y /\ x - y < Half) \/ x - y < -Half
      BY <1>1, <1>6
    <2> HIDE DEF z, M
    <2>2. QED
      BY <1>2, <1>3, <1>6, <2>1
  <1>7. z \in -M..2 * M - 1
    BY <1>1
  <1>8. QED
    <2> HIDE DEF z
    <2>1. z \in -M..-1 \/ z \in 0..M - 1 \/ z \in M..2 * M - 1
      <3> HIDE DEF M
      <3>1. QED
        BY <1>1, <1>7
    <2>2. QED
      BY <1>4, <1>5, <1>6, <2>1

\* What emp compares as if none were the largest: none and positive fingerprints.
Comparable == {none} \cup 1..Half - 1
Ord(x) == IF x = none THEN Half ELSE x

LEMMA GeqOrders ==
  ASSUME NEW x \in Comparable, NEW y \in Comparable
  PROVE  geq(x, y) <=> Ord(x) >= Ord(y)
  <1>1. Half \in Nat \ {0} /\ x \in -Half..Half - 1 /\ y \in -Half..Half - 1
    BY HalfAssumption DEF Comparable, none
  <1>2. geq(x, y) <=> (0 <= x - y /\ x - y < Half) \/ x - y < -Half
    BY <1>1, GeqIs
  <1>3. QED
    BY <1>1, <1>2 DEF Comparable, none, Ord

LEMMA Antisymmetric ==
  ASSUME NEW x \in -Half..Half - 1, NEW y \in -Half..Half - 1, geq(x, y), geq(y, x)
  PROVE  x = y
  <1>1. (0 <= x - y /\ x - y < Half) \/ x - y < -Half
    BY GeqIs
  <1>2. (0 <= y - x /\ y - x < Half) \/ y - x < -Half
    BY GeqIs
  <1>3. QED
    BY <1>1, <1>2, HalfAssumption

\* None is the largest beside positive fingerprints only, and these are in order.
LEMMA PositiveSorts ==
  ASSUME NEW S, S \subseteq -Half..Half - 1, NoneLargest(S)
  PROVE  Sorts(S \cup {none})
  <1>1. S \cup {none} \subseteq Comparable
    <2> SUFFICES ASSUME NEW x \in S PROVE x \in Comparable
      BY DEF Comparable
    <2>1. x \in -Half..Half - 1 /\ none \in -Half..Half - 1 /\ geq(none, x)
      BY HalfAssumption DEF NoneLargest, none
    <2>2. (0 <= none - x /\ none - x < Half) \/ none - x < -Half
      BY <2>1, GeqIs
    <2>3. QED
      BY <2>1, <2>2, HalfAssumption DEF Comparable, none
  <1>2. \A x \in Comparable : Ord(x) \in Int
    BY HalfAssumption DEF Ord, Comparable
  <1>3. \A x, y \in Comparable : geq(x, y) <=> Ord(x) >= Ord(y)
    BY GeqOrders
  <1>4. QED
    BY <1>1, <1>2, <1>3 DEF Sorts

\* A positive and a negative fingerprint that are less than half the range apart are a
\* cycle with none: the case in which no order of the list descends, and that the
\* properties below leave out.
THEOREM MixedSigns ==
  ASSUME NEW x \in 1..Half - 1, NEW y \in -Half + 1..-1, x - y < Half
  PROVE  ~Sorts({x, y, none}) /\ ~NoneLargest({x, y})
  <1>1. x \in -Half..Half - 1 /\ y \in -Half..Half - 1 /\ none \in -Half..Half - 1
    BY HalfAssumption DEF none
  <1>2. geq(x, y)
    BY <1>1, GeqIs
  <1>3. geq(y, none) /\ ~geq(none, y)
    BY <1>1, GeqIs, HalfAssumption DEF none
  <1>4. ~geq(x, none)
    BY <1>1, GeqIs, HalfAssumption DEF none
  <1>5. QED
    BY <1>2, <1>3, <1>4 DEF Sorts, NoneLargest

\* Keys that emp's comparison orders, and how many of them are not above a key.
Sortable(key) == IsFiniteSet(DOMAIN key) /\ Sorts({key[d] : d \in DOMAIN key})
Height(key, c) == Cardinality({d \in DOMAIN key : geq(key[c], key[d])})

LEMMA HeightOrders ==
  ASSUME NEW key, Sortable(key), NEW a \in DOMAIN key, NEW b \in DOMAIN key
  PROVE  /\ Height(key, a) \in Int /\ Height(key, b) \in Int
         /\ geq(key[a], key[b]) <=> Height(key, a) >= Height(key, b)
  <1> DEFINE Below(c) == {d \in DOMAIN key : geq(key[c], key[d])}
  <1>1. \A c \in DOMAIN key : IsFiniteSet(Below(c)) /\ Cardinality(Below(c)) \in Nat
    <2>1. \A c : Below(c) \subseteq DOMAIN key
      OBVIOUS
    <2>2. QED
      BY <2>1, FS_Subset, FS_CardinalityType DEF Sortable
  <1>2. /\ \A c, d \in DOMAIN key : geq(key[c], key[d]) \/ geq(key[d], key[c])
        /\ \A c, d, e \in DOMAIN key : geq(key[c], key[d]) /\ geq(key[d], key[e]) => geq(key[c], key[e])
    BY DEF Sortable, Sorts
  <1>3. ASSUME NEW c \in DOMAIN key, NEW d \in DOMAIN key, geq(key[c], key[d])
        PROVE  Below(d) \subseteq Below(c)
    BY <1>2, <1>3
  <1>4. \A c : Height(key, c) = Cardinality(Below(c))
    BY DEF Height
  <1>5. CASE geq(key[a], key[b])
    <2>1. Below(b) \subseteq Below(a)
      BY <1>3, <1>5
    <2> HIDE DEF Below
    <2>2. Cardinality(Below(b)) <= Cardinality(Below(a))
      BY <1>1, <2>1, FS_Subset
    <2>3. QED
      BY <1>1, <1>4, <1>5, <2>2
  <1>6. CASE ~geq(key[a], key[b])
    <2>0. geq(key[b], key[a]) /\ geq(key[b], key[b])
      BY <1>2, <1>6
    <2>1. Below(a) \subseteq Below(b)
      BY <1>3, <2>0
    <2>2. b \in Below(b) /\ b \notin Below(a)
      BY <1>6, <2>0
    <2> HIDE DEF Below
    <2>3. Cardinality(Below(a)) <= Cardinality(Below(b)) /\ Cardinality(Below(a)) # Cardinality(Below(b))
      BY <1>1, <2>1, <2>2, FS_Subset
    <2>4. QED
      BY <1>1, <1>4, <1>6, <2>3
  <1>7. QED
    BY <1>5, <1>6

-----------------------------------------------------------------------------
(* One round of comparisons.                                                 *)

\* The k places from f, and what an order has there.
Window(f, k) == f..f + k - 1
Values(order, W) == {order[c] : c \in W}
Distinct(order) == \A c, d \in DOMAIN order : order[c] = order[d] => c = d

\* A list of cells at some places, and an order of them.
Listed(key, order) == DOMAIN key \subseteq Int /\ order \in Orders(key)

\* Order o2 has in a window what order o1 has there, and beside it the same.
Keeps(key, o1, o2, f, k) ==
    /\ o2 \in Orders(key)
    /\ \A c \in DOMAIN key \ Window(f, k) : o2[c] = o1[c]
    /\ Values(o2, Window(f, k)) = Values(o1, Window(f, k))
    /\ Distinct(o1) => Distinct(o2)

\* Of the places compared, those that go to the end, for a value v.
Later(key, x, acc, v) == IF acc THEN Height(key, x) >= v ELSE Height(key, x) < v
Late(key, order, acc, v) == {c \in DOMAIN key : Later(key, order[c], acc, v)}

LEMMA Swapping ==
  ASSUME NEW key, NEW order, Listed(key, order), Sortable(key), NEW acc \in BOOLEAN,
         NEW a \in DOMAIN key, NEW b \in DOMAIN key, NEW v \in Int
  PROVE  /\ cmp_swap(key, order, a, b, acc) =>
               /\ Later(key, order[b], acc, v) <=> Later(key, order[a], acc, v) /\ Later(key, order[b], acc, v)
               /\ Later(key, order[a], acc, v) <=> Later(key, order[a], acc, v) \/ Later(key, order[b], acc, v)
         /\ ~cmp_swap(key, order, a, b, acc) =>
               /\ Later(key, order[a], acc, v) <=> Later(key, order[a], acc, v) /\ Later(key, order[b], acc, v)
               /\ Later(key, order[b], acc, v) <=> Later(key, order[a], acc, v) \/ Later(key, order[b], acc, v)
  <1>1. order[a] \in DOMAIN key /\ order[b] \in DOMAIN key
    BY DEF Listed, Orders
  <1> DEFINE x == Height(key, order[a])
             y == Height(key, order[b])
  <1>3. x \in Int /\ y \in Int
    BY <1>1, HeightOrders
  <1>4. cmp_swap(key, order, a, b, acc) <=> (~(y >= x) <=> acc)
    <2>1. geq(key[order[b]], key[order[a]]) <=> y >= x
      BY <1>1, HeightOrders
    <2> HIDE DEF x, y
    <2>2. QED
      BY <2>1 DEF cmp_swap
  <1>5. CASE acc
    <2>0. cmp_swap(key, order, a, b, acc) <=> ~(y >= x)
      BY <1>4, <1>5, Zenon
    <2>1. cmp_swap(key, order, a, b, acc) <=> y < x
      BY <1>3, <2>0
    <2>2. /\ Later(key, order[a], acc, v) <=> x >= v
          /\ Later(key, order[b], acc, v) <=> y >= v
      BY <1>5 DEF Later
    <2> HIDE DEF x, y
    <2>3. QED
      BY <1>3, <2>1, <2>2
  <1>6. CASE ~acc
    <2>1. cmp_swap(key, order, a, b, acc) <=> y >= x
      BY <1>3, <1>4, <1>6
    <2>2. /\ Later(key, order[a], acc, v) <=> x < v
          /\ Later(key, order[b], acc, v) <=> y < v
      BY <1>6 DEF Later
    <2> HIDE DEF x, y
    <2>3. QED
      BY <1>3, <2>1, <2>2
  <1>7. QED
    BY <1>5, <1>6

\* A round of comparisons of the p places from f with those m further on, as the late
\* places see it.
Halved(S, S2, f, m, p) ==
    \A c \in Window(f, m) :
        /\ c < f + p => /\ c \in S2 <=> c \in S /\ c + m \in S
                        /\ c + m \in S2 <=> c \in S \/ c + m \in S
        /\ c >= f + p => (c \in S2 <=> c \in S)

\* The places from f compared with those m further on.
LEMMA Compares ==
  ASSUME NEW key, NEW order, Listed(key, order), NEW acc \in BOOLEAN,
         NEW f \in Int, NEW m \in Nat, NEW p \in 1..m,
         Window(f, m + p) \subseteq DOMAIN key,
         NEW o2, o2 = CompareAll(key, order, f, p, m, acc)
  PROVE  /\ Keeps(key, order, o2, f, m + p)
         /\ Sortable(key) => \A v \in Int : Halved(Late(key, order, acc, v), Late(key, o2, acc, v), f, m, p)
  <1> DEFINE D == DOMAIN key
             first == Window(f, p)
             swap(c) == cmp_swap(key, order, c, c + m, acc)
  <1>1. /\ D \subseteq Int /\ DOMAIN order = D /\ \A c \in D : order[c] \in D
        /\ p \in Nat /\ 0 < p /\ p <= m
    BY DEF Listed, Orders
  <1>2. \A c \in first : c \in D /\ c + m \in D /\ c + m \notin first /\ c \in Int
    BY <1>1 DEF Window
  <1>3. \A c \in D : (c - m) + m = c
    BY <1>1
  <1>4. o2 = [c \in D |-> IF c \in first /\ swap(c) THEN order[c + m]
                          ELSE IF c - m \in first /\ swap(c - m) THEN order[c - m]
                          ELSE order[c]]
    BY <1>1, <1>3 DEF CompareAll, Window
  <1> HIDE DEF swap
  <1>5. \A c \in first : /\ swap(c) => o2[c] = order[c + m] /\ o2[c + m] = order[c]
                         /\ ~swap(c) => o2[c] = order[c] /\ o2[c + m] = order[c + m]
    <2> TAKE c \in first
    <2>1. c \in D /\ c + m \in D /\ c + m \notin first /\ (c + m) - m = c /\ c - m \notin first
      BY <1>1, <1>2 DEF Window
    <2> HIDE DEF first
    <2>2. QED
      BY <1>4, <2>1
  <1>6. \A c \in D : c \notin first /\ c - m \notin first => o2[c] = order[c]
    BY <1>4
  <1>7. DOMAIN o2 = D /\ o2 = [c \in D |-> o2[c]]
    BY <1>4
  <1> HIDE DEF D, first
  <1>8. \A c \in D : c \in first \/ (c - m \in first /\ (c - m) + m = c) \/ (c \notin first /\ c - m \notin first)
    BY <1>3
  <1>9. \A c \in D : o2[c] \in D
    BY <1>1, <1>2, <1>5, <1>6, <1>8
  <1>10. o2 \in Orders(key)
    BY <1>7, <1>9 DEF Orders, D
  <1>11. \A c \in D \ Window(f, m + p) : o2[c] = order[c]
    BY <1>1, <1>6 DEF Window, first
  <1>12. Values(o2, Window(f, m + p)) = Values(order, Window(f, m + p))
    <2> DEFINE W == Window(f, m + p)
    <2>1. \A c \in first : c \in W /\ c + m \in W
      BY <1>1 DEF Window, first
    <2>2. W \subseteq D
      BY DEF D
    <2> HIDE DEF W
    <2>3. ASSUME NEW c \in W PROVE \E d \in W : o2[c] = order[d]
      <3>1. CASE c \in first
        BY <1>5, <2>1, <3>1
      <3>2. CASE c - m \in first /\ (c - m) + m = c
        BY <1>5, <2>1, <3>2
      <3>3. CASE c \notin first /\ c - m \notin first
        BY <1>6, <2>2, <3>3
      <3>4. QED
        BY <1>8, <2>2, <3>1, <3>2, <3>3
    <2>4. ASSUME NEW c \in W PROVE \E d \in W : order[c] = o2[d]
      <3>1. CASE c \in first
        BY <1>5, <2>1, <3>1
      <3>2. CASE c - m \in first /\ (c - m) + m = c
        BY <1>5, <2>1, <3>2
      <3>3. CASE c \notin first /\ c - m \notin first
        BY <1>6, <2>2, <3>3
      <3>4. QED
        BY <1>8, <2>2, <3>1, <3>2, <3>3
    <2>5. QED
      BY <2>3, <2>4 DEF Values, W
  <1>13. Distinct(order) => Distinct(o2)
    <2> SUFFICES ASSUME Distinct(order), NEW c \in D, NEW d \in D, o2[c] = o2[d] PROVE c = d
      BY <1>7 DEF Distinct
    <2> DEFINE pre(e) == IF e \in first THEN (IF swap(e) THEN e + m ELSE e)
                         ELSE IF e - m \in first THEN (IF swap(e - m) THEN e - m ELSE e) ELSE e
    <2>1. ASSUME NEW e \in D PROVE pre(e) \in D /\ o2[e] = order[pre(e)]
      BY <1>2, <1>5, <1>6, <1>8
    <2>2. pre(c) = pre(d)
      <3> HIDE DEF pre
      <3>1. QED
        BY <1>1, <2>1 DEF Distinct
    <2>3. \A e \in first : e \in Int /\ e + m \notin first /\ e - m \notin first /\ (e + m) - m = e
      BY <1>1 DEF Window, first
    <2>4. c \in Int /\ d \in Int
      BY <1>1
    <2>5. QED
      BY <1>1, <2>2, <2>3, <2>4
  <1>14. Keeps(key, order, o2, f, m + p)
    BY <1>10, <1>11, <1>12, <1>13 DEF Keeps, D
  <1>15. ASSUME Sortable(key), NEW v \in Int, NEW c \in Window(f, m)
         PROVE  /\ c < f + p => /\ c \in Late(key, o2, acc, v) <=>
                                     c \in Late(key, order, acc, v) /\ c + m \in Late(key, order, acc, v)
                                /\ c + m \in Late(key, o2, acc, v) <=>
                                     c \in Late(key, order, acc, v) \/ c + m \in Late(key, order, acc, v)
                /\ c >= f + p => (c \in Late(key, o2, acc, v) <=> c \in Late(key, order, acc, v))
    <2>1. CASE c < f + p
      <3>1. c \in first /\ c \in D /\ c + m \in D /\ ~(c >= f + p)
        BY <1>1, <1>2, <2>1 DEF Window, first
      <3>2. /\ swap(c) =>
                 /\ Later(key, order[c + m], acc, v) <=> Later(key, order[c], acc, v) /\ Later(key, order[c + m], acc, v)
                 /\ Later(key, order[c], acc, v) <=> Later(key, order[c], acc, v) \/ Later(key, order[c + m], acc, v)
            /\ ~swap(c) =>
                 /\ Later(key, order[c], acc, v) <=> Later(key, order[c], acc, v) /\ Later(key, order[c + m], acc, v)
                 /\ Later(key, order[c + m], acc, v) <=> Later(key, order[c], acc, v) \/ Later(key, order[c + m], acc, v)
        BY <1>15, <3>1, Swapping DEF swap, D
      <3>3. /\ swap(c) => o2[c] = order[c + m] /\ o2[c + m] = order[c]
            /\ ~swap(c) => o2[c] = order[c] /\ o2[c + m] = order[c + m]
        BY <1>5, <3>1
      <3>4. /\ c \in Late(key, o2, acc, v) <=> Later(key, o2[c], acc, v)
            /\ c + m \in Late(key, o2, acc, v) <=> Later(key, o2[c + m], acc, v)
            /\ c \in Late(key, order, acc, v) <=> Later(key, order[c], acc, v)
            /\ c + m \in Late(key, order, acc, v) <=> Later(key, order[c + m], acc, v)
        BY <3>1 DEF Late, D
      <3>5. CASE swap(c)
        BY <3>1, <3>2, <3>3, <3>4, <3>5
      <3>6. CASE ~swap(c)
        BY <3>1, <3>2, <3>3, <3>4, <3>6
      <3>7. QED
        BY <3>5, <3>6
    <2>2. CASE c >= f + p
      <3>1. c \notin first /\ c - m \notin first /\ c \in D /\ ~(c < f + p)
        BY <1>1, <2>2 DEF Window, first, D
      <3>2. o2[c] = order[c]
        BY <1>6, <3>1
      <3>3. QED
        BY <3>1, <3>2 DEF Late
    <2>3. QED
      BY <1>1, <2>1, <2>2 DEF Window
  <1>16. QED
    <2>1. ASSUME Sortable(key), NEW v \in Int
          PROVE  Halved(Late(key, order, acc, v), Late(key, o2, acc, v), f, m, p)
      BY <1>15, <2>1, Zenon DEF Halved
    <2>2. QED
      BY <1>14, <2>1

-----------------------------------------------------------------------------
(* What one round makes of the late places: between the early ones, or, if   *)
(* there are 2^e places, anywhere but in one run.                            *)

\* Of the k places from f, those in a..b-1 are the early ones, or the late ones (S).
EarlyBetween(S, f, k, a, b) == a \in f..f + k /\ b \in a..f + k /\ \A c \in Window(f, k) : c \in S <=> ~(a <= c /\ c < b)
LateBetween(S, f, k, a, b) == a \in f..f + k /\ b \in a..f + k /\ \A c \in Window(f, k) : c \in S <=> a <= c /\ c < b

PowerOf2(k) == \E e \in Nat : k = 2^e

\* Late places that a merge of the k places from f brings to the end.
Mergeable(S, f, k) ==
    \/ \E a, b \in Int : EarlyBetween(S, f, k, a, b)
    \/ PowerOf2(k) /\ \E a, b \in Int : LateBetween(S, f, k, a, b)

LEMMA HalfClean ==
  ASSUME NEW S, NEW S2, NEW f \in Int, NEW m \in Nat, NEW p \in 1..m, Halved(S, S2, f, m, p),
         Mergeable(S, f, m + p), PowerOf2(m), PowerOf2(m + p) => p = m
  PROVE  /\ Mergeable(S2, f, m) /\ Mergeable(S2, f + m, p)
         /\ (\A c \in Window(f, m) : c \notin S2) \/ (\A c \in Window(f + m, p) : c \in S2)
  <1>1. p \in Nat /\ 0 < p /\ p <= m /\ m \in Nat
    OBVIOUS
  <1>2. \A c \in Window(f, m) : c \in Window(f, m + p) /\ (c < f + p => c + m \in Window(f, m + p)) /\ c \in Int
    BY <1>1 DEF Window
  <1>3. \A d \in Window(f + m, p) : d - m \in Window(f, m) /\ d - m < f + p /\ (d - m) + m = d /\ d \in Int
    BY <1>1 DEF Window
  <1>4. CASE \E a, b \in Int : EarlyBetween(S, f, m + p, a, b)
    <2>1. PICK a \in Int, b \in Int : EarlyBetween(S, f, m + p, a, b)
      BY <1>4
    <2>2. /\ f <= a /\ a <= b /\ b <= f + m + p
          /\ \A c \in Window(f, m + p) : c \in S <=> ~(a <= c /\ c < b)
      BY <1>1, <2>1 DEF EarlyBetween
    <2>3. ASSUME NEW c \in Window(f, m), c < f + p
          PROVE  /\ c \in S2 <=> ~(a <= c /\ c < b) /\ ~(a <= c + m /\ c + m < b)
                 /\ c + m \in S2 <=> ~(a <= c /\ c < b) \/ ~(a <= c + m /\ c + m < b)
      BY <1>2, <2>2, <2>3 DEF Halved
    <2>4. ASSUME NEW c \in Window(f, m), c >= f + p
          PROVE  c \in S2 <=> ~(a <= c /\ c < b)
      BY <1>2, <2>2, <2>4 DEF Halved
    <2>5. ASSUME NEW d \in Window(f + m, p)
          PROVE  d \in S2 <=> ~(a <= d - m /\ d - m < b) \/ ~(a <= d /\ d < b)
      BY <1>3, <2>3
    <2>6. CASE b <= f + m
      <3>1. \A c \in Window(f, m) : c \in S2 <=> ~(a <= c /\ c < b)
        BY <1>1, <1>2, <2>2, <2>3, <2>4, <2>6 DEF Window
      <3>2. EarlyBetween(S2, f, m, a, b)
        BY <1>1, <2>2, <2>6, <3>1 DEF EarlyBetween
      <3>3. \A d \in Window(f + m, p) : d \in S2
        BY <1>1, <2>2, <2>5, <2>6 DEF Window
      <3>4. EarlyBetween(S2, f + m, p, f + m, f + m)
        BY <1>1, <3>3 DEF EarlyBetween, Window
      <3>5. QED
        BY <3>2, <3>3, <3>4 DEF Mergeable
    <2>7. CASE a >= f + m
      <3>1. \A c \in Window(f, m) : c \in S2 <=> ~(a - m <= c /\ c < b - m)
        BY <1>1, <1>2, <2>2, <2>3, <2>4, <2>7 DEF Window
      <3>2. EarlyBetween(S2, f, m, a - m, b - m)
        BY <1>1, <2>2, <2>7, <3>1 DEF EarlyBetween
      <3>3. \A d \in Window(f + m, p) : d \in S2
        BY <1>1, <2>2, <2>5, <2>7 DEF Window
      <3>4. EarlyBetween(S2, f + m, p, f + m, f + m)
        BY <1>1, <3>3 DEF EarlyBetween, Window
      <3>5. a - m \in Int /\ b - m \in Int /\ f + m \in Int
        BY <1>1
      <3>6. QED
        BY <3>2, <3>3, <3>4, <3>5 DEF Mergeable
    <2>8. CASE a < f + m /\ f + m < b /\ b - m >= a
      <3>1. \A c \in Window(f, m) : c \notin S2
        BY <1>1, <1>2, <2>2, <2>3, <2>4, <2>8 DEF Window
      <3>2. EarlyBetween(S2, f, m, f, f + m)
        BY <1>1, <3>1 DEF EarlyBetween, Window
      <3>3. \A d \in Window(f + m, p) : d \in S2 <=> ~(a + m <= d /\ d < b)
        BY <1>1, <2>2, <2>5, <2>8 DEF Window
      <3>4. EarlyBetween(S2, f + m, p, a + m, b)
        BY <1>1, <2>2, <2>8, <3>3 DEF EarlyBetween
      <3>5. a + m \in Int /\ f + m \in Int
        BY <1>1
      <3>6. QED
        BY <3>1, <3>2, <3>4, <3>5 DEF Mergeable
    <2>9. CASE a < f + m /\ f + m < b /\ b - m < a
      <3>1. \A c \in Window(f, m) : c \in S2 <=> b - m <= c /\ c < a
        BY <1>1, <1>2, <2>2, <2>3, <2>4, <2>9 DEF Window
      <3>2. LateBetween(S2, f, m, b - m, a)
        BY <1>1, <2>2, <2>9, <3>1 DEF LateBetween
      <3>3. \A d \in Window(f + m, p) : d \in S2
        BY <1>1, <2>2, <2>5, <2>9 DEF Window
      <3>4. EarlyBetween(S2, f + m, p, f + m, f + m)
        BY <1>1, <3>3 DEF EarlyBetween, Window
      <3>5. b - m \in Int /\ f + m \in Int
        BY <1>1
      <3>6. QED
        BY <3>2, <3>3, <3>4, <3>5 DEF Mergeable
    <2>10. QED
      BY <1>1, <2>2, <2>6, <2>7, <2>8, <2>9
  <1>5. CASE PowerOf2(m + p) /\ \E a, b \in Int : LateBetween(S, f, m + p, a, b)
    <2>1. PICK a \in Int, b \in Int : LateBetween(S, f, m + p, a, b)
      BY <1>5
    <2>2. /\ f <= a /\ a <= b /\ b <= f + m + p /\ p = m
          /\ \A c \in Window(f, m + p) : c \in S <=> a <= c /\ c < b
      BY <1>1, <1>5, <2>1 DEF LateBetween
    <2>3. ASSUME NEW c \in Window(f, m)
          PROVE  c \in S2 <=> a <= c /\ c < b /\ a <= c + m /\ c + m < b
      <3>1. c < f + p
        BY <1>1, <2>2 DEF Window
      <3>2. QED
        BY <1>2, <2>2, <3>1 DEF Halved
    <2>5. ASSUME NEW d \in Window(f + m, p)
          PROVE  d \in S2 <=> (a <= d - m /\ d - m < b) \/ (a <= d /\ d < b)
      BY <1>2, <1>3, <2>2 DEF Halved
    <2>6. CASE b <= f + m
      <3>1. \A c \in Window(f, m) : c \notin S2
        BY <1>1, <2>2, <2>3, <2>6 DEF Window
      <3>2. EarlyBetween(S2, f, m, f, f + m)
        BY <1>1, <3>1 DEF EarlyBetween, Window
      <3>3. \A d \in Window(f + m, p) : d \in S2 <=> a + m <= d /\ d < b + m
        BY <1>1, <2>2, <2>5, <2>6 DEF Window
      <3>4. LateBetween(S2, f + m, p, a + m, b + m)
        BY <1>1, <2>2, <2>6, <3>3 DEF LateBetween
      <3>5. a + m \in Int /\ b + m \in Int /\ f + m \in Int
        BY <1>1
      <3>6. QED
        BY <2>2, <3>1, <3>2, <3>4, <3>5 DEF Mergeable
    <2>7. CASE a >= f + m
      <3>1. \A c \in Window(f, m) : c \notin S2
        BY <1>1, <2>2, <2>3, <2>7 DEF Window
      <3>2. EarlyBetween(S2, f, m, f, f + m)
        BY <1>1, <3>1 DEF EarlyBetween, Window
      <3>3. \A d \in Window(f + m, p) : d \in S2 <=> a <= d /\ d < b
        BY <1>1, <2>2, <2>5, <2>7 DEF Window
      <3>4. LateBetween(S2, f + m, p, a, b)
        BY <1>1, <2>2, <2>7, <3>3 DEF LateBetween
      <3>5. f + m \in Int
        BY <1>1
      <3>6. QED
        BY <2>2, <3>1, <3>2, <3>4, <3>5 DEF Mergeable
    <2>8. CASE a < f + m /\ f + m < b /\ b - m >= a
      <3>1. \A c \in Window(f, m) : c \in S2 <=> a <= c /\ c < b - m
        BY <1>1, <2>2, <2>3, <2>8 DEF Window
      <3>2. LateBetween(S2, f, m, a, b - m)
        BY <1>1, <2>2, <2>8, <3>1 DEF LateBetween
      <3>3. \A d \in Window(f + m, p) : d \in S2
        BY <1>1, <2>2, <2>5, <2>8 DEF Window
      <3>4. EarlyBetween(S2, f + m, p, f + m, f + m)
        BY <1>1, <3>3 DEF EarlyBetween, Window
      <3>5. b - m \in Int /\ f + m \in Int
        BY <1>1
      <3>6. QED
        BY <3>2, <3>3, <3>4, <3>5 DEF Mergeable
    <2>9. CASE a < f + m /\ f + m < b /\ b - m < a
      <3>1. \A c \in Window(f, m) : c \notin S2
        BY <1>1, <2>2, <2>3, <2>9 DEF Window
      <3>2. EarlyBetween(S2, f, m, f, f + m)
        BY <1>1, <3>1 DEF EarlyBetween, Window
      <3>3. \A d \in Window(f + m, p) : d \in S2 <=> ~(b <= d /\ d < a + m)
        BY <1>1, <2>2, <2>5, <2>9 DEF Window
      <3>4. EarlyBetween(S2, f + m, p, b, a + m)
        BY <1>1, <2>2, <2>9, <3>3 DEF EarlyBetween
      <3>5. a + m \in Int /\ f + m \in Int
        BY <1>1
      <3>6. QED
        BY <3>1, <3>2, <3>4, <3>5 DEF Mergeable
    <2>10. QED
      BY <1>1, <2>2, <2>6, <2>7, <2>8, <2>9
  <1>6. QED
    BY <1>4, <1>5 DEF Mergeable

-----------------------------------------------------------------------------
(* The network of emp::bitonic_merge.                                        *)

LEMMA GreatestPower ==
  ASSUME NEW k \in Nat \ {0, 1}
  PROVE  /\ greatestPowerOfTwoLessThan(k) \in 1..k - 1
         /\ 2 * greatestPowerOfTwoLessThan(k) >= k
         /\ PowerOf2(greatestPowerOfTwoLessThan(k))
         /\ PowerOf2(k) => k = 2 * greatestPowerOfTwoLessThan(k)
  <1> DEFINE T == {e \in Nat : 2^e >= k}
             g == greatestPowerOfTwoLessThan(k)
  <1>0. \A e \in Nat : 2^e \in Nat \ {0} /\ 2^(e + 1) = 2 * 2^e
    BY PowerGrows, PowerDoubles
  <1>1. k \in T
    <2>1. k < 2^k /\ 2^k \in Nat
      BY PowerGrows
    <2>2. QED
      BY <2>1
  <1>2. PICK e \in T : \A y \in T : e <= y
    BY <1>1, Least
  <1>3. e # 0
    <2> SUFFICES ASSUME e = 0 PROVE FALSE
      OBVIOUS
    <2>1. 2^e >= k /\ 2^e = 1
      OBVIOUS
    <2>2. QED
      BY <2>1
  <1>4. e - 1 \in Nat /\ e - 1 \notin T /\ (e - 1) + 1 = e /\ e <= k
    BY <1>1, <1>2, <1>3
  <1> DEFINE h == 2^(e - 1)
  <1>5. h \in Nat /\ h < k /\ 2 * h >= k
    <2>1. 2^(e - 1) \in Nat /\ 2^((e - 1) + 1) = 2 * 2^(e - 1)
      BY <1>0, <1>4
    <2>2. 2^e >= k /\ ~(2^(e - 1) >= k)
      BY <1>4
    <2>3. 2^e = 2 * 2^(e - 1)
      BY <2>1, <1>4
    <2> DEFINE x == 2^e
    <2>4. x = 2 * h /\ x >= k /\ ~(h >= k) /\ h \in Nat
      BY <2>1, <2>2, <2>3
    <2> HIDE DEF h, x
    <2>5. QED
      BY <2>4
  <1>6. h \in {2^d : d \in 0..k}
    <2>1. e - 1 \in 0..k
      BY <1>4
    <2>2. QED
      BY <2>1
  <1>7. g \in {2^d : d \in 0..k} /\ g < k /\ 2 * g >= k
    <2>1. \E m \in {2^d : d \in 0..k} : m < k /\ 2 * m >= k
      BY <1>5, <1>6
    <2>2. QED
      BY <2>1 DEF greatestPowerOfTwoLessThan
  <1>8. PICK d \in 0..k : g = 2^d
    BY <1>7
  <1>9. d \in Nat /\ g \in Nat \ {0} /\ PowerOf2(g)
    BY <1>0, <1>8 DEF PowerOf2
  <1>10. ASSUME PowerOf2(k) PROVE k = 2 * g
    <2>1. PICK a \in Nat : k = 2^a
      BY <1>10 DEF PowerOf2
    <2>2. ~(a <= d)
      <3> SUFFICES ASSUME a <= d PROVE FALSE
        OBVIOUS
      <3>1. 2^a <= 2^d
        BY <1>9, PowerGrows
      <3>2. QED
        BY <1>7, <1>8, <1>9, <2>1, <3>1
    <2>3. d + 1 \in Nat /\ d + 1 <= a
      BY <1>9, <2>1, <2>2
    <2>4. 2^(d + 1) <= 2^a
      BY <2>3, PowerGrows
    <2>5. 2^(d + 1) = 2 * 2^d
      BY <1>0, <1>9
    <2>6. 2 * g <= k
      BY <1>8, <2>1, <2>4, <2>5
    <2> HIDE DEF g
    <2>7. QED
      BY <1>7, <1>9, <2>6
  <1>11. QED
    <2> HIDE DEF g
    <2>1. g \in 1..k - 1
      BY <1>7, <1>9
    <2>2. QED
      BY <1>7, <1>9, <1>10, <2>1 DEF g

\* Merging k places, given how fewer are merged: the step of the recursion in MergeOrder.
Merging(key, acc, merge, k) ==
    [x \in Int \X Orders(key) |->
        IF k <= 1 THEN x[2]
        ELSE LET m == greatestPowerOfTwoLessThan(k)
                 compared == CompareAll(key, x[2], x[1], k - m, m, acc)
             IN  merge[k - m][<<x[1] + m, merge[m][<<x[1], compared>>]>>]]

IsMerge(key, acc, N, merge) == merge = [k \in 0..N |-> Merging(key, acc, merge, k)]

LEMMA MergeExists ==
  ASSUME NEW key, NEW acc, NEW N \in Nat
  PROVE  \E merge : IsMerge(key, acc, N, merge)
  <1> DEFINE Short(merge, h) ==
                 /\ merge = [k \in 0..N |-> merge[k]]
                 /\ \A k \in 0..N : k <= h => merge[k] = Merging(key, acc, merge, k)
             Bad == {h \in Nat : ~\E merge : Short(merge, h)}
  <1>0. ASSUME NEW merge, NEW longer, NEW k \in 0..N, \A l \in 0..N : l < k => longer[l] = merge[l]
        PROVE  Merging(key, acc, longer, k) = Merging(key, acc, merge, k)
    <2>1. CASE k <= 1
      BY <2>1 DEF Merging
    <2>2. CASE ~(k <= 1)
      <3> DEFINE m == greatestPowerOfTwoLessThan(k)
      <3>1. m \in 1..k - 1
        BY <2>2, GreatestPower
      <3>2. m \in 0..N /\ m < k /\ k - m \in 0..N /\ k - m < k
        <4> HIDE DEF m
        <4>1. QED
          BY <3>1
      <3>3. longer[m] = merge[m] /\ longer[k - m] = merge[k - m]
        BY <1>0, <3>2
      <3>4. QED
        BY <3>3 DEF Merging
    <2>3. QED
      BY <2>1, <2>2
  <1>1. ASSUME Bad # {} PROVE FALSE
    <2>1. PICK h \in Bad : \A y \in Bad : h <= y
      BY <1>1, Least
    <2>2. CASE h = 0
      <3> DEFINE merge == [k \in 0..N |-> Merging(key, acc, <<>>, k)]
      <3>1. merge[0] = Merging(key, acc, merge, 0)
        <4>1. merge[0] = Merging(key, acc, <<>>, 0)
          OBVIOUS
        <4>2. \A g : Merging(key, acc, g, 0) = [x \in Int \X Orders(key) |-> x[2]]
          BY DEF Merging
        <4> HIDE DEF merge
        <4>3. QED
          BY <4>1, <4>2
      <3>2. Short(merge, h)
        BY <2>2, <3>1
      <3>3. QED
        BY <2>1, <3>2
    <2>3. CASE h # 0
      <3>1. h - 1 \in Nat /\ h - 1 \notin Bad
        BY <2>1, <2>3
      <3>2. PICK merge : Short(merge, h - 1)
        BY <3>1
      <3> DEFINE longer == [k \in 0..N |-> Merging(key, acc, merge, k)]
      <3>3. \A l \in 0..N : l <= h - 1 => longer[l] = merge[l]
        BY <3>2
      <3>4. ASSUME NEW k \in 0..N, k <= h PROVE longer[k] = Merging(key, acc, longer, k)
        <4>1. longer[k] = Merging(key, acc, merge, k)
          OBVIOUS
        <4>2. \A l \in 0..N : l < k => longer[l] = merge[l]
          <5> HIDE DEF longer
          <5>1. QED
            BY <2>1, <3>3, <3>4
        <4> HIDE DEF longer
        <4>3. QED
          BY <1>0, <4>1, <4>2
      <3>5. Short(longer, h)
        BY <3>4
      <3>6. QED
        BY <2>1, <3>5
    <2>4. QED
      BY <2>2, <2>3
  <1>2. PICK merge : Short(merge, N)
    BY <1>1
  <1>3. QED
    BY <1>2 DEF IsMerge

LEMMA MergeIs ==
  ASSUME NEW key, NEW order, NEW lo, NEW N \in Nat, NEW acc
  PROVE  \E merge : IsMerge(key, acc, N, merge) /\ MergeOrder(key, order, lo, N, acc) = merge[N][<<lo, order>>]
  <1> DEFINE merge == CHOOSE g : IsMerge(key, acc, N, g)
  <1>1. IsMerge(key, acc, N, merge)
    BY MergeExists
  <1>2. MergeOrder(key, order, lo, N, acc) = merge[N][<<lo, order>>]
    BY DEF MergeOrder, IsMerge, Merging
  <1>3. QED
    BY <1>1, <1>2

LEMMA KeepsAll ==
  ASSUME NEW key, NEW o1, Listed(key, o1), NEW f, NEW k
  PROVE  Keeps(key, o1, o1, f, k)
  BY DEF Keeps, Listed

LEMMA KeepsBoth ==
  ASSUME NEW key, NEW o1, NEW o2, NEW o3, NEW f, NEW k,
         Keeps(key, o1, o2, f, k), Keeps(key, o2, o3, f, k)
  PROVE  Keeps(key, o1, o3, f, k)
  BY DEF Keeps

LEMMA KeepsWider ==
  ASSUME NEW key, NEW o1, NEW o2, NEW f, NEW k, NEW g, NEW h, Listed(key, o1),
         Keeps(key, o1, o2, g, h), Window(g, h) \subseteq Window(f, k), Window(f, k) \subseteq DOMAIN key
  PROVE  Keeps(key, o1, o2, f, k)
  <1>1. \A c \in Window(f, k) \ Window(g, h) : o2[c] = o1[c]
    BY DEF Keeps
  <1>2. Values(o2, Window(f, k)) = Values(o1, Window(f, k))
    <2>1. ASSUME NEW c \in Window(f, k) PROVE \E d \in Window(f, k) : o2[c] = o1[d]
      <3>1. CASE c \in Window(g, h)
        BY <3>1 DEF Keeps, Values
      <3>2. CASE c \notin Window(g, h)
        BY <1>1, <3>2
      <3>3. QED
        BY <3>1, <3>2
    <2>2. ASSUME NEW c \in Window(f, k) PROVE \E d \in Window(f, k) : o1[c] = o2[d]
      <3>1. CASE c \in Window(g, h)
        BY <3>1 DEF Keeps, Values
      <3>2. CASE c \notin Window(g, h)
        BY <1>1, <3>2
      <3>3. QED
        BY <3>1, <3>2
    <2>3. QED
      BY <2>1, <2>2 DEF Values
  <1>3. QED
    BY <1>2 DEF Keeps

LEMMA KeepsLate ==
  ASSUME NEW key, NEW o1, NEW o2, NEW f, NEW k, NEW acc, NEW v, Listed(key, o1),
         Keeps(key, o1, o2, f, k), Window(f, k) \subseteq DOMAIN key
  PROVE  /\ Listed(key, o2)
         /\ \A c \in DOMAIN key \ Window(f, k) : c \in Late(key, o2, acc, v) <=> c \in Late(key, o1, acc, v)
         /\ (\A c \in Window(f, k) : c \in Late(key, o1, acc, v)) => \A c \in Window(f, k) : c \in Late(key, o2, acc, v)
         /\ (\A c \in Window(f, k) : c \notin Late(key, o1, acc, v)) => \A c \in Window(f, k) : c \notin Late(key, o2, acc, v)
  <1>1. Listed(key, o2)
    BY DEF Keeps, Listed
  <1>2. \A c \in DOMAIN key : /\ c \in Late(key, o1, acc, v) <=> Later(key, o1[c], acc, v)
                              /\ c \in Late(key, o2, acc, v) <=> Later(key, o2[c], acc, v)
    BY DEF Late
  <1>3. \A c \in DOMAIN key \ Window(f, k) : o2[c] = o1[c]
    BY DEF Keeps
  <1>4. \A c \in Window(f, k) : \E d \in Window(f, k) : o2[c] = o1[d]
    BY DEF Keeps, Values
  <1>5. \A c \in DOMAIN key \ Window(f, k) : c \in Late(key, o2, acc, v) <=> c \in Late(key, o1, acc, v)
    BY <1>2, <1>3
  <1>6. QED
    BY <1>1, <1>2, <1>4, <1>5

LEMMA SameMergeable ==
  ASSUME NEW S, NEW S2, NEW f, NEW k, \A c \in Window(f, k) : c \in S2 <=> c \in S,
         Mergeable(S, f, k)
  PROVE  Mergeable(S2, f, k)
  BY DEF Mergeable, EarlyBetween, LateBetween

\* The late places are the last ones, or the first ones.
Up(S, f, k) == \A c, d \in Window(f, k) : c < d /\ c \in S => d \in S

LEMMA MergeSorts ==
  ASSUME NEW key, NEW acc \in BOOLEAN, NEW N \in Nat, NEW merge, IsMerge(key, acc, N, merge),
         NEW k0 \in 0..N, NEW f0 \in Int, NEW o0, Listed(key, o0), Window(f0, k0) \subseteq DOMAIN key
  PROVE  /\ Keeps(key, o0, merge[k0][<<f0, o0>>], f0, k0)
         /\ Sortable(key) /\ (\A v \in Int : Mergeable(Late(key, o0, acc, v), f0, k0)) =>
               \A v \in Int : Up(Late(key, merge[k0][<<f0, o0>>], acc, v), f0, k0)
  <1> DEFINE Right(k, f, o) ==
                /\ Keeps(key, o, merge[k][<<f, o>>], f, k)
                /\ Sortable(key) /\ (\A v \in Int : Mergeable(Late(key, o, acc, v), f, k)) =>
                      \A v \in Int : Up(Late(key, merge[k][<<f, o>>], acc, v), f, k)
             Fits(k, f, o) == Listed(key, o) /\ Window(f, k) \subseteq DOMAIN key
             Bad == {k \in 0..N : ~\A f \in Int : \A o \in Orders(key) : Fits(k, f, o) => Right(k, f, o)}
  <1>1. ASSUME Bad # {} PROVE FALSE
    <2>1. PICK k \in Bad : \A y \in Bad : k <= y
      <3>1. Bad \subseteq Nat
        OBVIOUS
      <3> HIDE DEF Bad
      <3>2. QED
        BY <1>1, <3>1, Least
    <2>2. PICK f \in Int, o \in Orders(key) : Fits(k, f, o) /\ ~Right(k, f, o)
      BY <2>1
    <2>3. k \in 0..N /\ merge[k] = Merging(key, acc, merge, k) /\ <<f, o>> \in Int \X Orders(key)
      BY <2>1 DEF IsMerge
    <2>4. \A l \in 0..N : l < k => \A g \in Int : \A p \in Orders(key) : Fits(l, g, p) => Right(l, g, p)
      <3> HIDE DEF Right, Fits
      <3>1. QED
        BY <2>1
    <2>5. CASE k <= 1
      <3>1. merge[k][<<f, o>>] = o
        BY <2>3, <2>5 DEF Merging
      <3>2. \A S : Up(S, f, k)
        BY <2>3, <2>5 DEF Up, Window
      <3>3. QED
        BY <2>2, <3>1, <3>2, KeepsAll
    <2>6. CASE ~(k <= 1)
      <3> DEFINE m == greatestPowerOfTwoLessThan(k)
                 p == k - m
                 compared == CompareAll(key, o, f, p, m, acc)
                 low == merge[m][<<f, compared>>]
                 all == merge[p][<<f + m, low>>]
      <3>1. /\ m \in 1..k - 1 /\ 2 * m >= k /\ PowerOf2(m) /\ (PowerOf2(k) => k = 2 * m)
            /\ k \in Nat \ {0, 1}
        <4>1. k \in Nat \ {0, 1}
          BY <2>3, <2>6
        <4>2. QED
          BY <4>1, GreatestPower
      <3>2. merge[k][<<f, o>>] = all
        BY <2>3, <2>6 DEF Merging
      <3> HIDE DEF m
      <3>3. /\ m \in Nat /\ p \in 1..m /\ m + p = k /\ p \in Nat /\ f + m \in Int
            /\ p < k /\ m < k /\ m \in 0..N /\ p \in 0..N /\ (PowerOf2(k) => p = m)
        BY <2>3, <3>1
      <3> HIDE DEF p
      <3>4. Window(f, k) \subseteq DOMAIN key /\ Listed(key, o)
        BY <2>2
      <3>5. /\ Keeps(key, o, compared, f, k)
            /\ Sortable(key) =>
                  \A v \in Int : Halved(Late(key, o, acc, v), Late(key, compared, acc, v), f, m, p)
        <4>1. Window(f, m + p) \subseteq DOMAIN key /\ m + p = k
          BY <3>3, <3>4
        <4>2. compared = CompareAll(key, o, f, p, m, acc)
          OBVIOUS
        <4> HIDE DEF compared
        <4>3. Keeps(key, o, compared, f, m + p)
          BY <3>3, <3>4, <4>1, <4>2, Compares
        <4>4. Sortable(key) =>
                 \A v \in Int : Halved(Late(key, o, acc, v), Late(key, compared, acc, v), f, m, p)
          BY <3>3, <3>4, <4>1, <4>2, Compares
        <4>5. QED
          BY <4>1, <4>3, <4>4
      <3> HIDE DEF compared
      <3>6. Listed(key, compared) /\ compared \in Orders(key)
        BY <3>4, <3>5 DEF Keeps, Listed
      <3>7. /\ Window(f, m) \subseteq Window(f, k)
            /\ Window(f + m, p) \subseteq Window(f, k)
            /\ \A c \in Window(f, k) : (c \in Window(f, m) \/ c \in Window(f + m, p))
            /\ \A c \in Window(f, m) : \A d \in Window(f + m, p) : c < d /\ ~(d < c) /\ c # d
        BY <2>3, <3>3 DEF Window
      <3>8. Right(m, f, compared)
        <4>1. Fits(m, f, compared)
          BY <3>4, <3>6, <3>7
        <4>2. QED
          BY <2>4, <3>3, <3>6, <4>1
      <3>9. Keeps(key, compared, low, f, m)
        BY <3>8
      <3>10. Listed(key, low) /\ low \in Orders(key) /\ Keeps(key, compared, low, f, k)
        <4> HIDE DEF low
        <4>1. Keeps(key, compared, low, f, k)
          BY <3>4, <3>6, <3>7, <3>9, KeepsWider
        <4>2. QED
          BY <3>6, <4>1 DEF Keeps, Listed
      <3>11. Sortable(key) /\ (\A v \in Int : Mergeable(Late(key, compared, acc, v), f, m)) =>
                \A v \in Int : Up(Late(key, low, acc, v), f, m)
        BY <3>8
      <3> HIDE DEF low
      <3>12. Right(p, f + m, low)
        <4>1. Fits(p, f + m, low)
          BY <3>4, <3>7, <3>10
        <4>2. QED
          BY <2>4, <3>3, <3>10, <4>1
      <3>13. /\ Keeps(key, low, all, f + m, p)
             /\ Sortable(key) /\ (\A v \in Int : Mergeable(Late(key, low, acc, v), f + m, p)) =>
                  \A v \in Int : Up(Late(key, all, acc, v), f + m, p)
        BY <3>12
      <3> HIDE DEF all
      <3>14. Keeps(key, low, all, f, k)
        BY <3>4, <3>7, <3>10, <3>13, KeepsWider
      <3>15. Keeps(key, o, all, f, k)
        BY <3>5, <3>10, <3>14, KeepsBoth
      <3>16. ASSUME Sortable(key), \A v \in Int : Mergeable(Late(key, o, acc, v), f, k), NEW v \in Int
             PROVE  Up(Late(key, all, acc, v), f, k)
        <4>1. \A w \in Int : /\ Mergeable(Late(key, compared, acc, w), f, m)
                             /\ Mergeable(Late(key, compared, acc, w), f + m, p)
                             /\ \/ \A c \in Window(f, m) : c \notin Late(key, compared, acc, w)
                                \/ \A c \in Window(f + m, p) : c \in Late(key, compared, acc, w)
          BY <3>1, <3>3, <3>5, <3>16, HalfClean
        <4>2. Up(Late(key, low, acc, v), f, m)
          BY <3>11, <3>16, <4>1
        <4>3. \A c \in Window(f + m, p) : c \in DOMAIN key \ Window(f, m)
          BY <3>4, <3>7
        <4>4. \A c \in Window(f, m) : c \in DOMAIN key \ Window(f + m, p)
          BY <3>4, <3>7
        <4>5. Window(f, m) \subseteq DOMAIN key /\ Window(f + m, p) \subseteq DOMAIN key
          BY <3>4, <3>7
        <4>6. \A w \in Int : \A c \in Window(f + m, p) :
                c \in Late(key, low, acc, w) <=> c \in Late(key, compared, acc, w)
          BY <3>6, <3>9, <4>3, <4>5, KeepsLate
        <4>7. \A w \in Int : Mergeable(Late(key, low, acc, w), f + m, p)
          BY <4>1, <4>6, SameMergeable
        <4>8. Up(Late(key, all, acc, v), f + m, p)
          BY <3>13, <3>16, <4>7
        <4>9. \A c \in Window(f, m) : c \in Late(key, all, acc, v) <=> c \in Late(key, low, acc, v)
          BY <3>10, <3>13, <4>4, <4>5, KeepsLate
        <4>10. CASE \A c \in Window(f, m) : c \notin Late(key, compared, acc, v)
          <5>1. \A c \in Window(f, m) : c \notin Late(key, low, acc, v)
            BY <3>6, <3>9, <4>5, <4>10, KeepsLate
          <5>2. QED
            BY <3>7, <4>8, <4>9, <5>1 DEF Up
        <4>11. CASE \A c \in Window(f + m, p) : c \in Late(key, compared, acc, v)
          <5>1. \A c \in Window(f + m, p) : c \in Late(key, low, acc, v)
            BY <4>6, <4>11
          <5>2. \A c \in Window(f + m, p) : c \in Late(key, all, acc, v)
            BY <3>10, <3>13, <4>5, <5>1, KeepsLate
          <5>3. QED
            BY <3>7, <4>2, <4>9, <5>2 DEF Up
        <4>12. QED
          BY <4>1, <4>10, <4>11
      <3>17. QED
        BY <2>2, <3>2, <3>15, <3>16
    <2>7. QED
      BY <2>5, <2>6
  <1>2. Fits(k0, f0, o0) /\ o0 \in Orders(key)
    BY DEF Listed
  <1>3. Right(k0, f0, o0)
    <2> HIDE DEF Right, Fits
    <2>1. QED
      BY <1>1, <1>2
  <1>4. QED
    BY <1>3

LEMMA MergeOrderSorts ==
  ASSUME NEW key, NEW order, Listed(key, order), NEW acc \in BOOLEAN,
         NEW f \in Int, NEW k \in Nat, Window(f, k) \subseteq DOMAIN key
  PROVE  /\ Keeps(key, order, MergeOrder(key, order, f, k, acc), f, k)
         /\ Sortable(key) /\ (\A v \in Int : Mergeable(Late(key, order, acc, v), f, k)) =>
               \A v \in Int : Up(Late(key, MergeOrder(key, order, f, k, acc), acc, v), f, k)
  <1>1. PICK merge : /\ IsMerge(key, acc, k, merge)
                     /\ MergeOrder(key, order, f, k, acc) = merge[k][<<f, order>>]
    BY MergeIs
  <1>2. k \in 0..k
    OBVIOUS
  <1>3. /\ Keeps(key, order, merge[k][<<f, order>>], f, k)
        /\ Sortable(key) /\ (\A v \in Int : Mergeable(Late(key, order, acc, v), f, k)) =>
               \A v \in Int : Up(Late(key, merge[k][<<f, order>>], acc, v), f, k)
    BY <1>1, <1>2, MergeSorts
  <1>4. QED
    BY <1>1, <1>3

Down(S, f, k) == \A c, d \in Window(f, k) : c < d /\ d \in S => c \in S

\* Places that are late first and last, and not between.
LEMMA Valley ==
  ASSUME NEW S, NEW f \in Int, NEW m \in Nat, NEW p \in Nat, Down(S, f, m), Up(S, f + m, p)
  PROVE  Mergeable(S, f, m + p)
  <1> DEFINE A == {x \in 0..m : \A c \in Window(f, m) : c >= f + x => c \notin S}
             B == {x \in 0..p : \A c \in Window(f + m, p) : c >= f + m + x => c \in S}
  <1>1. m \in A /\ p \in B
    BY DEF Window
  <1>2. PICK a \in A : \A y \in A : a <= y
    <2>1. A \subseteq Nat
      OBVIOUS
    <2> HIDE DEF A
    <2>2. QED
      BY <1>1, <2>1, Least
  <1>3. PICK b \in B : \A y \in B : b <= y
    <2>1. B \subseteq Nat
      OBVIOUS
    <2> HIDE DEF B
    <2>2. QED
      BY <1>1, <2>1, Least
  <1>4. a \in 0..m /\ b \in 0..p
    OBVIOUS
  <1>5. ASSUME NEW c \in Window(f, m) PROVE c \in S <=> c < f + a
    <2>1. c \in Int /\ f <= c /\ c < f + m
      BY DEF Window
    <2>2. CASE c >= f + a
      BY <1>4, <2>1, <2>2
    <2>3. CASE c < f + a
      <3> SUFFICES ASSUME c \notin S PROVE FALSE
        BY <2>3
      <3>1. \A d \in Window(f, m) : d >= c => d \notin S
        BY <2>1 DEF Down, Window
      <3>2. c - f \in 0..m /\ f + (c - f) = c
        BY <2>1
      <3>3. c - f \in A
        BY <3>1, <3>2
      <3> HIDE DEF A
      <3>4. QED
        BY <1>2, <1>4, <2>1, <2>3, <3>3
    <2>4. QED
      BY <1>4, <2>1, <2>2, <2>3
  <1>6. ASSUME NEW c \in Window(f + m, p) PROVE c \in S <=> c >= f + m + b
    <2>1. c \in Int /\ f + m <= c /\ c < f + m + p
      BY DEF Window
    <2>2. CASE c >= f + m + b
      BY <1>4, <2>1, <2>2
    <2>3. CASE c < f + m + b
      <3> SUFFICES ASSUME c \in S PROVE FALSE
        BY <1>4, <2>1, <2>3
      <3>1. \A d \in Window(f + m, p) : d >= c => d \in S
        BY <2>1 DEF Up, Window
      <3>2. c - (f + m) \in 0..p /\ f + m + (c - (f + m)) = c
        BY <2>1
      <3>3. c - (f + m) \in B
        BY <3>1, <3>2
      <3> HIDE DEF B
      <3>4. QED
        BY <1>3, <1>4, <2>1, <2>3, <3>3
    <2>4. QED
      BY <1>4, <2>1, <2>2, <2>3
  <1> HIDE DEF A, B
  <1>7. ASSUME NEW c \in Window(f, m + p) PROVE c \in S <=> ~(f + a <= c /\ c < f + m + b)
    <2>1. c \in Int
      BY DEF Window
    <2>2. CASE c < f + m
      <3>1. c \in Window(f, m)
        BY <2>1, <2>2 DEF Window
      <3>2. QED
        BY <1>4, <1>5, <2>1, <2>2, <3>1
    <2>3. CASE c >= f + m
      <3>1. c \in Window(f + m, p)
        BY <2>1, <2>3 DEF Window
      <3>2. QED
        BY <1>4, <1>6, <2>1, <2>3, <3>1
    <2>4. QED
      BY <2>1, <2>2, <2>3
  <1>8. EarlyBetween(S, f, m + p, f + a, f + m + b)
    BY <1>4, <1>7 DEF EarlyBetween
  <1>9. f + a \in Int /\ f + m + b \in Int
    BY <1>4
  <1>10. QED
    BY <1>8, <1>9 DEF Mergeable

\* What is late in one direction is early in the other.
LEMMA OtherWay ==
  ASSUME NEW key, NEW order, Listed(key, order), Sortable(key), NEW acc \in BOOLEAN, NEW v \in Int
  PROVE  \A c \in DOMAIN key : c \in Late(key, order, ~acc, v) <=> c \notin Late(key, order, acc, v)
  <1> SUFFICES ASSUME NEW c \in DOMAIN key
               PROVE  Later(key, order[c], ~acc, v) <=> ~Later(key, order[c], acc, v)
    BY DEF Late
  <1>1. Height(key, order[c]) \in Int
    BY HeightOrders DEF Listed, Orders
  <1>2. CASE acc
    BY <1>1, <1>2 DEF Later
  <1>3. CASE ~acc
    BY <1>1, <1>3 DEF Later
  <1>4. QED
    BY <1>2, <1>3

-----------------------------------------------------------------------------
(* The network of emp::sort.                                                 *)

\* Sorting k keys, given how fewer are sorted: the step of the recursion in SortOrder.
Sorting(key, sorted, k) ==
    [x \in Int \X Orders(key) \X BOOLEAN |->
        IF k <= 1 THEN x[2]
        ELSE LET m == k \div 2
                 first == sorted[m][<<x[1], x[2], ~x[3]>>]
                 both  == sorted[k - m][<<x[1] + m, first, x[3]>>]
             IN  MergeOrder(key, both, x[1], k, x[3])]

IsSort(key, N, sorted) == sorted = [k \in 0..N |-> Sorting(key, sorted, k)]

LEMMA Halves ==
  ASSUME NEW k \in Nat, ~(k <= 1)
  PROVE  k \div 2 \in 1..k - 1 /\ k - (k \div 2) \in 1..k - 1 /\ k \div 2 <= k - (k \div 2)
  OBVIOUS

LEMMA SortExists ==
  ASSUME NEW key, NEW N \in Nat
  PROVE  \E sorted : IsSort(key, N, sorted)
  <1> DEFINE Short(sorted, h) ==
                 /\ sorted = [k \in 0..N |-> sorted[k]]
                 /\ \A k \in 0..N : k <= h => sorted[k] = Sorting(key, sorted, k)
             Bad == {h \in Nat : ~\E sorted : Short(sorted, h)}
  <1>0. ASSUME NEW sorted, NEW longer, NEW k \in 0..N, \A l \in 0..N : l < k => longer[l] = sorted[l]
        PROVE  Sorting(key, longer, k) = Sorting(key, sorted, k)
    <2>1. CASE k <= 1
      BY <2>1 DEF Sorting
    <2>2. CASE ~(k <= 1)
      <3> DEFINE m == k \div 2
      <3>1. m \in 1..k - 1 /\ k - m \in 1..k - 1
        BY <2>2, Halves
      <3> HIDE DEF m
      <3>2. m \in 0..N /\ m < k /\ k - m \in 0..N /\ k - m < k
        BY <3>1
      <3>3. longer[m] = sorted[m] /\ longer[k - m] = sorted[k - m]
        BY <1>0, <3>2
      <3>4. QED
        BY <3>3, Zenon DEF Sorting, m
    <2>3. QED
      BY <2>1, <2>2
  <1>1. ASSUME Bad # {} PROVE FALSE
    <2>1. PICK h \in Bad : \A y \in Bad : h <= y
      BY <1>1, Least
    <2>2. CASE h = 0
      <3> DEFINE sorted == [k \in 0..N |-> Sorting(key, <<>>, k)]
      <3>1. sorted[0] = Sorting(key, sorted, 0)
        <4>1. sorted[0] = Sorting(key, <<>>, 0)
          OBVIOUS
        <4>2. \A g : Sorting(key, g, 0) = [x \in Int \X Orders(key) \X BOOLEAN |-> x[2]]
          BY DEF Sorting
        <4> HIDE DEF sorted
        <4>3. QED
          BY <4>1, <4>2
      <3>2. Short(sorted, h)
        BY <2>2, <3>1
      <3>3. QED
        BY <2>1, <3>2
    <2>3. CASE h # 0
      <3>1. h - 1 \in Nat /\ h - 1 \notin Bad
        BY <2>1, <2>3
      <3>2. PICK sorted : Short(sorted, h - 1)
        BY <3>1
      <3> DEFINE longer == [k \in 0..N |-> Sorting(key, sorted, k)]
      <3>3. \A l \in 0..N : l <= h - 1 => longer[l] = sorted[l]
        BY <3>2
      <3>4. ASSUME NEW k \in 0..N, k <= h PROVE longer[k] = Sorting(key, longer, k)
        <4>1. longer[k] = Sorting(key, sorted, k)
          OBVIOUS
        <4>2. \A l \in 0..N : l < k => longer[l] = sorted[l]
          <5> HIDE DEF longer
          <5>1. QED
            BY <2>1, <3>3, <3>4
        <4> HIDE DEF longer
        <4>3. QED
          BY <1>0, <4>1, <4>2
      <3>5. Short(longer, h)
        BY <3>4
      <3>6. QED
        BY <2>1, <3>5
    <2>4. QED
      BY <2>2, <2>3
  <1>2. PICK sorted : Short(sorted, N)
    BY <1>1
  <1>3. QED
    BY <1>2 DEF IsSort

LEMMA SortIs ==
  ASSUME NEW key, NEW order, NEW lo, NEW N \in Nat, NEW acc
  PROVE  \E sorted : IsSort(key, N, sorted) /\ SortOrder(key, order, lo, N, acc) = sorted[N][<<lo, order, acc>>]
  <1> DEFINE sorted == CHOOSE g : IsSort(key, N, g)
  <1>1. IsSort(key, N, sorted)
    BY SortExists
  <1>2. SortOrder(key, order, lo, N, acc) = sorted[N][<<lo, order, acc>>]
    BY DEF SortOrder, IsSort, Sorting
  <1>3. QED
    BY <1>1, <1>2

LEMMA SortSorts ==
  ASSUME NEW key, NEW N \in Nat, NEW sorted, IsSort(key, N, sorted),
         NEW k0 \in 0..N, NEW f0 \in Int, NEW o0, Listed(key, o0), Window(f0, k0) \subseteq DOMAIN key,
         NEW acc0 \in BOOLEAN
  PROVE  /\ Keeps(key, o0, sorted[k0][<<f0, o0, acc0>>], f0, k0)
         /\ Sortable(key) => \A v \in Int : Up(Late(key, sorted[k0][<<f0, o0, acc0>>], acc0, v), f0, k0)
  <1> DEFINE Right(k, f, o, acc) ==
                /\ Keeps(key, o, sorted[k][<<f, o, acc>>], f, k)
                /\ Sortable(key) => \A v \in Int : Up(Late(key, sorted[k][<<f, o, acc>>], acc, v), f, k)
             Fits(k, f, o) == Listed(key, o) /\ Window(f, k) \subseteq DOMAIN key
             Bad == {k \in 0..N : ~\A f \in Int : \A o \in Orders(key) : \A acc \in BOOLEAN :
                                      Fits(k, f, o) => Right(k, f, o, acc)}
  <1>1. ASSUME Bad # {} PROVE FALSE
    <2>1. PICK k \in Bad : \A y \in Bad : k <= y
      <3>1. Bad \subseteq Nat
        OBVIOUS
      <3> HIDE DEF Bad
      <3>2. QED
        BY <1>1, <3>1, Least
    <2>2. PICK f \in Int, o \in Orders(key), acc \in BOOLEAN : Fits(k, f, o) /\ ~Right(k, f, o, acc)
      BY <2>1
    <2>3. k \in 0..N /\ sorted[k] = Sorting(key, sorted, k) /\ <<f, o, acc>> \in Int \X Orders(key) \X BOOLEAN
      BY <2>1 DEF IsSort
    <2>4. \A l \in 0..N : l < k => \A g \in Int : \A p \in Orders(key) : \A b \in BOOLEAN :
             Fits(l, g, p) => Right(l, g, p, b)
      <3> HIDE DEF Right, Fits
      <3>1. QED
        BY <2>1
    <2>5. CASE k <= 1
      <3>1. sorted[k][<<f, o, acc>>] = o
        BY <2>3, <2>5 DEF Sorting
      <3>2. \A S : Up(S, f, k)
        BY <2>3, <2>5 DEF Up, Window
      <3>3. QED
        BY <2>2, <3>1, <3>2, KeepsAll
    <2>6. CASE ~(k <= 1)
      <3> DEFINE m == k \div 2
                 p == k - m
                 first == sorted[m][<<f, o, ~acc>>]
                 both == sorted[p][<<f + m, first, acc>>]
                 all == MergeOrder(key, both, f, k, acc)
      <3>1. m \in 1..k - 1 /\ p \in 1..k - 1
        BY <2>3, <2>6, Halves
      <3>2. sorted[k][<<f, o, acc>>] = all
        BY <2>3, <2>6 DEF Sorting
      <3> HIDE DEF m
      <3>3. /\ m \in Nat /\ m + p = k /\ p \in Nat /\ f + m \in Int /\ k \in Nat
            /\ p < k /\ m < k /\ m \in 0..N /\ p \in 0..N /\ (~acc) \in BOOLEAN
        BY <2>3, <3>1
      <3> HIDE DEF p
      <3>4. Window(f, k) \subseteq DOMAIN key /\ Listed(key, o)
        BY <2>2
      <3>7. /\ Window(f, m) \subseteq Window(f, k)
            /\ Window(f + m, p) \subseteq Window(f, k)
            /\ \A c \in Window(f, m) : \A d \in Window(f + m, p) : c # d
        BY <2>3, <3>3 DEF Window
      <3>8. Right(m, f, o, ~acc)
        <4>1. Fits(m, f, o)
          BY <3>4, <3>7
        <4>2. QED
          BY <2>4, <3>3, <4>1
      <3>9. /\ Keeps(key, o, first, f, m)
            /\ Sortable(key) => \A v \in Int : Up(Late(key, first, ~acc, v), f, m)
        BY <3>8
      <3>10. Listed(key, first) /\ first \in Orders(key) /\ Keeps(key, o, first, f, k)
        <4> HIDE DEF first
        <4>1. Keeps(key, o, first, f, k)
          BY <3>4, <3>7, <3>9, KeepsWider
        <4>2. QED
          BY <3>4, <4>1 DEF Keeps, Listed
      <3> HIDE DEF first
      <3>11. Right(p, f + m, first, acc)
        <4>1. Fits(p, f + m, first)
          BY <3>4, <3>7, <3>10
        <4>2. QED
          BY <2>4, <3>3, <3>10, <4>1
      <3>12. /\ Keeps(key, first, both, f + m, p)
             /\ Sortable(key) => \A v \in Int : Up(Late(key, both, acc, v), f + m, p)
        BY <3>11
      <3> HIDE DEF both
      <3>13. Listed(key, both) /\ Keeps(key, first, both, f, k)
        <4>1. Keeps(key, first, both, f, k)
          BY <3>4, <3>7, <3>10, <3>12, KeepsWider
        <4>2. QED
          BY <3>10, <4>1 DEF Keeps, Listed
      <3>14. ASSUME Sortable(key), NEW v \in Int PROVE Mergeable(Late(key, both, acc, v), f, k)
        <4>1. Window(f, m) \subseteq DOMAIN key /\ Window(f + m, p) \subseteq DOMAIN key
          BY <3>4, <3>7
        <4>2. \A c \in Window(f, m) : c \in Late(key, first, ~acc, v) <=> c \notin Late(key, first, acc, v)
          BY <3>10, <3>14, <4>1, OtherWay
        <4>3. \A c \in Window(f, m) : c \in Late(key, both, acc, v) <=> c \in Late(key, first, acc, v)
          BY <3>7, <3>10, <3>12, <4>1, KeepsLate
        <4>4. Down(Late(key, both, acc, v), f, m)
          BY <3>9, <3>14, <4>2, <4>3 DEF Down, Up
        <4>5. QED
          BY <3>3, <3>12, <3>14, <4>4, Valley
      <3>15. /\ Keeps(key, both, all, f, k)
             /\ Sortable(key) => \A v \in Int : Up(Late(key, all, acc, v), f, k)
        BY <3>3, <3>4, <3>13, <3>14, MergeOrderSorts
      <3>16. Keeps(key, o, all, f, k)
        <4> HIDE DEF all
        <4>1. Keeps(key, o, both, f, k)
          BY <3>10, <3>13, KeepsBoth
        <4>2. QED
          BY <3>15, <4>1, KeepsBoth
      <3>17. QED
        BY <2>2, <3>2, <3>15, <3>16
    <2>7. QED
      BY <2>5, <2>6
  <1>2. Fits(k0, f0, o0) /\ o0 \in Orders(key)
    BY DEF Listed
  <1>3. Right(k0, f0, o0, acc0)
    <2> HIDE DEF Right, Fits
    <2>1. QED
      BY <1>1, <1>2
  <1>4. QED
    BY <1>3

LEMMA SortOrderSorts ==
  ASSUME NEW key, NEW order, Listed(key, order), NEW acc \in BOOLEAN,
         NEW f \in Int, NEW k \in Nat, Window(f, k) \subseteq DOMAIN key
  PROVE  /\ Keeps(key, order, SortOrder(key, order, f, k, acc), f, k)
         /\ Sortable(key) => \A v \in Int : Up(Late(key, SortOrder(key, order, f, k, acc), acc, v), f, k)
  <1>1. PICK sorted : /\ IsSort(key, k, sorted)
                      /\ SortOrder(key, order, f, k, acc) = sorted[k][<<f, order, acc>>]
    BY SortIs
  <1>2. k \in 0..k
    OBVIOUS
  <1>3. /\ Keeps(key, order, sorted[k][<<f, order, acc>>], f, k)
        /\ Sortable(key) => \A v \in Int : Up(Late(key, sorted[k][<<f, order, acc>>], acc, v), f, k)
    BY <1>1, <1>2, SortSorts
  <1>4. QED
    BY <1>1, <1>3

-----------------------------------------------------------------------------
(* sort() and bitonic_merge() of a list.                                     *)

\* The k cells from f ascend, or descend, as emp compares.
InDirection(list, f, k, acc) ==
    \A c, d \in Window(f, k) : c < d =>
        IF acc THEN geq(list[d], list[c]) ELSE geq(list[c], list[d])

\* List l2 has the cells of list l1 at other places of a window.
Rearranged(l1, l2, f, k) ==
    /\ l2 = [c \in DOMAIN l1 |-> l2[c]] /\ Window(f, k) \subseteq DOMAIN l1
    /\ \E from \in [DOMAIN l1 -> DOMAIN l1] :
          /\ Distinct(from)
          /\ \A c \in DOMAIN l1 : l2[c] = l1[from[c]]
          /\ \A c \in DOMAIN l1 \ Window(f, k) : from[c] = c
          /\ Values(from, Window(f, k)) = Window(f, k)

LEMMA Start ==
  ASSUME NEW list, DOMAIN list \subseteq Int
  PROVE  Listed(list, Unsorted(list)) /\ Distinct(Unsorted(list)) /\ \A W \in SUBSET DOMAIN list : Values(Unsorted(list), W) = W
  <1>1. Unsorted(list) = [c \in DOMAIN list |-> c]
    BY DEF Unsorted
  <1>2. Unsorted(list) \in Orders(list)
    BY <1>1 DEF Orders
  <1>3. Distinct(Unsorted(list))
    BY <1>1 DEF Distinct
  <1>4. \A W \in SUBSET DOMAIN list : Values(Unsorted(list), W) = W
    BY <1>1 DEF Values
  <1>5. QED
    BY <1>2, <1>3, <1>4 DEF Listed

LEMMA OrderRearranges ==
  ASSUME NEW list, DOMAIN list \subseteq Int, NEW o2, NEW f, NEW k, Window(f, k) \subseteq DOMAIN list,
         Keeps(list, Unsorted(list), o2, f, k)
  PROVE  Rearranged(list, InOrder(list, o2), f, k)
  <1>1. /\ InOrder(list, o2) = [c \in DOMAIN list |-> InOrder(list, o2)[c]]
        /\ \A c \in DOMAIN list : InOrder(list, o2)[c] = list[o2[c]]
    BY DEF InOrder
  <1>2. o2 \in [DOMAIN list -> DOMAIN list] /\ Distinct(o2) /\ Values(o2, Window(f, k)) = Window(f, k)
    BY Start DEF Keeps, Orders
  <1>3. \A c \in DOMAIN list \ Window(f, k) : o2[c] = c
    BY DEF Keeps, Unsorted
  <1>4. QED
    BY <1>1, <1>2, <1>3 DEF Rearranged

LEMMA UpIsOrdered ==
  ASSUME NEW list, Sortable(list), NEW o2 \in Orders(list), NEW f, NEW k, NEW acc \in BOOLEAN,
         Window(f, k) \subseteq DOMAIN list,
         \A v \in Int : Up(Late(list, o2, acc, v), f, k)
  PROVE  InDirection(InOrder(list, o2), f, k, acc)
  <1> SUFFICES ASSUME NEW c \in Window(f, k), NEW d \in Window(f, k), c < d
               PROVE  IF acc THEN geq(list[o2[d]], list[o2[c]])
                      ELSE geq(list[o2[c]], list[o2[d]])
    BY DEF InDirection, InOrder
  <1> DEFINE x == Height(list, o2[c])
             y == Height(list, o2[d])
  <1>0. c \in DOMAIN list /\ d \in DOMAIN list /\ o2[c] \in DOMAIN list /\ o2[d] \in DOMAIN list
    BY DEF Orders
  <1>1. /\ x \in Int /\ y \in Int
        /\ geq(list[o2[d]], list[o2[c]]) <=> y >= x
        /\ geq(list[o2[c]], list[o2[d]]) <=> x >= y
    BY <1>0, HeightOrders
  <1>2. \A v \in Int : c \in Late(list, o2, acc, v) => d \in Late(list, o2, acc, v)
    BY DEF Up
  <1>3. \A v \in Int : /\ c \in Late(list, o2, acc, v) <=> IF acc THEN x >= v ELSE x < v
                       /\ d \in Late(list, o2, acc, v) <=> IF acc THEN y >= v ELSE y < v
    BY <1>0 DEF Late, Later
  <1> HIDE DEF x, y
  <1>4. CASE acc
    <2>1. \A v \in Int : x >= v => y >= v
      BY <1>2, <1>3, <1>4
    <2>2. y >= x
      BY <1>1, <2>1
    <2>3. QED
      BY <1>1, <1>4, <2>2
  <1>5. CASE ~acc
    <2>1. \A v \in Int : x < v => y < v
      BY <1>2, <1>3, <1>5
    <2>2. x >= y
      <3> SUFFICES ASSUME x < y PROVE FALSE
        BY <1>1
      <3>1. y < y
        BY <1>1, <2>1
      <3>2. QED
        BY <1>1, <3>1
    <2>3. QED
      BY <1>1, <1>5, <2>2
  <1>6. QED
    BY <1>4, <1>5

\* emp::sort() loses none of any number of cells, whatever they are, and sorts them in
\* the direction asked for if emp's comparison is an order of them.
THEOREM SortAlways ==
  ASSUME NEW list, DOMAIN list \subseteq Int, NEW acc \in BOOLEAN, NEW f \in Int, NEW k \in Nat,
         Window(f, k) \subseteq DOMAIN list
  PROVE  /\ Rearranged(list, sort(list, f, k, acc), f, k)
         /\ Sortable(list) => InDirection(sort(list, f, k, acc), f, k, acc)
  <1> DEFINE o2 == SortOrder(list, Unsorted(list), f, k, acc)
  <1>1. /\ Keeps(list, Unsorted(list), o2, f, k)
        /\ Sortable(list) => \A v \in Int : Up(Late(list, o2, acc, v), f, k)
    BY Start, SortOrderSorts
  <1>2. sort(list, f, k, acc) = InOrder(list, o2)
    BY DEF sort
  <1> HIDE DEF o2
  <1>3. o2 \in Orders(list)
    BY <1>1 DEF Keeps
  <1>4. QED
    BY <1>1, <1>2, <1>3, OrderRearranges, UpIsOrdered

\* emp::bitonic_merge() loses none of any number of cells, whatever they are, and sorts
\* two runs, of any lengths, of which the first is in the other direction, if emp's
\* comparison is an order of them.
THEOREM MergeAlways ==
  ASSUME NEW list, DOMAIN list \subseteq Int, NEW acc \in BOOLEAN, NEW f \in Int, NEW m \in Nat, NEW p \in Nat,
         Window(f, m + p) \subseteq DOMAIN list
  PROVE  /\ Rearranged(list, bitonic_merge(list, f, m + p, acc), f, m + p)
         /\ Sortable(list) /\ InDirection(list, f, m, ~acc) /\ InDirection(list, f + m, p, acc) =>
               InDirection(bitonic_merge(list, f, m + p, acc), f, m + p, acc)
  <1> DEFINE o1 == Unsorted(list)
             o2 == MergeOrder(list, o1, f, m + p, acc)
             Runs == Sortable(list) /\ InDirection(list, f, m, ~acc) /\ InDirection(list, f + m, p, acc)
  <1>1. Window(f, m) \subseteq DOMAIN list /\ Window(f + m, p) \subseteq DOMAIN list
    BY DEF Window
  <1>3. ASSUME Runs, NEW v \in Int PROVE Mergeable(Late(list, o1, acc, v), f, m + p)
    <2>1. \A c \in DOMAIN list : c \in Late(list, o1, acc, v) <=>
                                    IF acc THEN Height(list, c) >= v ELSE Height(list, c) < v
      BY DEF Late, Later, Unsorted
    <2>2. Down(Late(list, o1, acc, v), f, m)
      <3> SUFFICES ASSUME NEW c \in Window(f, m), NEW d \in Window(f, m), c < d, d \in Late(list, o1, acc, v)
                   PROVE  c \in Late(list, o1, acc, v)
        BY DEF Down
      <3>1. /\ c \in DOMAIN list /\ d \in DOMAIN list
            /\ IF ~acc THEN geq(list[d], list[c]) ELSE geq(list[c], list[d])
        BY <1>1, <1>3 DEF InDirection
      <3>2. /\ Height(list, c) \in Int /\ Height(list, d) \in Int
            /\ geq(list[c], list[d]) <=> Height(list, c) >= Height(list, d)
            /\ geq(list[d], list[c]) <=> Height(list, d) >= Height(list, c)
        BY <1>3, <3>1, HeightOrders
      <3>3. CASE acc
        <4>1. geq(list[c], list[d])
          BY <3>1, <3>3, Zenon
        <4>2. /\ c \in Late(list, o1, acc, v) <=> Height(list, c) >= v
              /\ d \in Late(list, o1, acc, v) <=> Height(list, d) >= v
          BY <2>1, <3>1, <3>3, Zenon
        <4>3. QED
          BY <3>2, <4>1, <4>2
      <3>4. CASE ~acc
        <4>1. geq(list[d], list[c])
          BY <3>1, <3>4, Zenon
        <4>2. /\ c \in Late(list, o1, acc, v) <=> Height(list, c) < v
              /\ d \in Late(list, o1, acc, v) <=> Height(list, d) < v
          BY <2>1, <3>1, <3>4, Zenon
        <4>3. QED
          BY <3>2, <4>1, <4>2
      <3>5. QED
        BY <3>3, <3>4
    <2>3. Up(Late(list, o1, acc, v), f + m, p)
      <3> SUFFICES ASSUME NEW c \in Window(f + m, p), NEW d \in Window(f + m, p), c < d, c \in Late(list, o1, acc, v)
                   PROVE  d \in Late(list, o1, acc, v)
        BY DEF Up
      <3>1. /\ c \in DOMAIN list /\ d \in DOMAIN list
            /\ IF acc THEN geq(list[d], list[c]) ELSE geq(list[c], list[d])
        BY <1>1, <1>3 DEF InDirection
      <3>2. /\ Height(list, c) \in Int /\ Height(list, d) \in Int
            /\ geq(list[c], list[d]) <=> Height(list, c) >= Height(list, d)
            /\ geq(list[d], list[c]) <=> Height(list, d) >= Height(list, c)
        BY <1>3, <3>1, HeightOrders
      <3>3. CASE acc
        <4>1. geq(list[d], list[c])
          BY <3>1, <3>3, Zenon
        <4>2. /\ c \in Late(list, o1, acc, v) <=> Height(list, c) >= v
              /\ d \in Late(list, o1, acc, v) <=> Height(list, d) >= v
          BY <2>1, <3>1, <3>3, Zenon
        <4>3. QED
          BY <3>2, <4>1, <4>2
      <3>4. CASE ~acc
        <4>1. geq(list[c], list[d])
          BY <3>1, <3>4, Zenon
        <4>2. /\ c \in Late(list, o1, acc, v) <=> Height(list, c) < v
              /\ d \in Late(list, o1, acc, v) <=> Height(list, d) < v
          BY <2>1, <3>1, <3>4, Zenon
        <4>3. QED
          BY <3>2, <4>1, <4>2
      <3>5. QED
        BY <3>3, <3>4
    <2>4. QED
      BY <2>2, <2>3, Valley
  <1>4. m + p \in Nat
    OBVIOUS
  <1>5. /\ Keeps(list, o1, o2, f, m + p)
        /\ Runs => \A v \in Int : Up(Late(list, o2, acc, v), f, m + p)
    BY <1>3, <1>4, Start, MergeOrderSorts
  <1>6. bitonic_merge(list, f, m + p, acc) = InOrder(list, o2)
    BY DEF bitonic_merge
  <1> HIDE DEF o2
  <1>7. o2 \in Orders(list)
    BY <1>5 DEF Keeps
  <1>8. QED
    BY <1>5, <1>6, <1>7, OrderRearranges, UpIsOrdered

-----------------------------------------------------------------------------
(* The cells of rearranged lists.                                            *)

LEMMA RearrangedCells ==
  ASSUME NEW l1, NEW l2, NEW f, NEW k, Rearranged(l1, l2, f, k), IsFiniteSet(DOMAIN l1)
  PROVE  /\ IsFiniteSet(Kept(l1)) /\ IsFiniteSet(Kept(l2))
         /\ Cardinality(Kept(l2)) <= Cardinality(Kept(l1))
         /\ CellsOf(l2) = CellsOf(l1)
         /\ \A c \in DOMAIN l1 : \E d \in DOMAIN l1 : l2[c] = l1[d]
         /\ \A c \in DOMAIN l1 \ Window(f, k) : l2[c] = l1[c]
  <1> DEFINE D == DOMAIN l1
  <1>1. PICK from \in [D -> D] :
          /\ Distinct(from)
          /\ \A c \in D : l2[c] = l1[from[c]]
          /\ \A c \in D \ Window(f, k) : from[c] = c
          /\ Values(from, Window(f, k)) = Window(f, k)
    BY DEF Rearranged
  <1>2. DOMAIN l2 = D
    BY DEF Rearranged
  <1>3. Kept(l1) \subseteq D /\ Kept(l2) \subseteq D
    BY <1>2 DEF Kept
  <1>4. IsFiniteSet(Kept(l1)) /\ IsFiniteSet(Kept(l2))
    BY <1>3, FS_Subset
  <1>5. \A c \in Kept(l2) : from[c] \in Kept(l1)
    BY <1>1, <1>2 DEF Kept
  <1>6. Cardinality(Kept(l2)) <= Cardinality(Kept(l1))
    <2> DEFINE g == [c \in Kept(l2) |-> from[c]]
    <2>1. g \in [Kept(l2) -> Kept(l1)]
      BY <1>5
    <2>2. \A a, b \in Kept(l2) : g[a] = g[b] => a = b
      BY <1>1, <1>3 DEF Distinct
    <2> HIDE DEF g
    <2>3. g \in Injection(Kept(l2), Kept(l1))
      BY <2>1, <2>2 DEF Injection, IsInjective
    <2>4. QED
      BY <1>4, <2>3, FS_Injection
  <1>7. \A d \in D : \E c \in D : from[c] = d
    <2> TAKE d \in D
    <2>1. CASE d \in Window(f, k)
      <3>1. PICK c \in Window(f, k) : from[c] = d
        BY <1>1, <2>1 DEF Values
      <3>2. Window(f, k) \subseteq D
        BY DEF Rearranged
      <3>3. QED
        BY <3>1, <3>2
    <2>2. CASE d \notin Window(f, k)
      BY <1>1, <2>2
    <2>3. QED
      BY <2>1, <2>2
  <1>8. CellsOf(l2) = CellsOf(l1)
    <2>1. ASSUME NEW c \in Kept(l2) PROVE \E d \in Kept(l1) : l2[c] = l1[d]
      BY <1>1, <1>3, <1>5
    <2>2. ASSUME NEW d \in Kept(l1) PROVE \E c \in Kept(l2) : l2[c] = l1[d]
      <3>1. PICK c \in D : from[c] = d
        BY <1>3, <1>7
      <3>2. l2[c] = l1[d] /\ c \in Kept(l2)
        BY <1>1, <1>2, <3>1 DEF Kept
      <3>3. QED
        BY <3>2
    <2>3. QED
      BY <2>1, <2>2 DEF CellsOf
  <1>9. QED
    BY <1>1, <1>4, <1>6, <1>8

\* In a list in descending order, beside which none is the largest, all that comes after
\* a kept cell is kept.
LEMMA KeptLast ==
  ASSUME NEW N \in Nat, NEW list, list \in [0..2 * N - 1 -> Cells], InDirection(list, 0, 2 * N, FALSE),
         \A c \in 0..2 * N - 1 : geq(none, list[c]),
         Cardinality(Kept(list)) <= N
  PROVE  Kept(list) \subseteq N..2 * N - 1
  <1> SUFFICES ASSUME NEW c \in Kept(list), c < N PROVE FALSE
    BY DEF Kept
  <1>1. c \in 0..2 * N - 1 /\ list[c] # none
    BY DEF Kept
  <1>2. ASSUME NEW d \in N..2 * N - 1 PROVE d \in Kept(list)
    <2>1. d \in 0..2 * N - 1 /\ c < d
      BY <1>1
    <2>2. geq(list[c], list[d]) /\ geq(none, list[c])
      BY <1>1, <2>1 DEF InDirection, Window
    <2>3. list[c] \in -Half..Half - 1 /\ none \in -Half..Half - 1
      BY <1>1, CompactionAssumption
    <2>4. list[d] # none
      <3> SUFFICES ASSUME list[d] = none PROVE FALSE
        OBVIOUS
      <3>1. geq(list[c], none)
        BY <2>2
      <3>2. QED
        BY <1>1, <2>2, <2>3, <3>1, Antisymmetric
    <2>5. QED
      BY <2>1, <2>4 DEF Kept
  <1>3. IsFiniteSet(N..2 * N - 1) /\ Cardinality(N..2 * N - 1) = N
    <2>1. N \in Int /\ 2 * N - 1 \in Int
      OBVIOUS
    <2>2. /\ IsFiniteSet(N..2 * N - 1)
          /\ Cardinality(N..2 * N - 1) = IF N > 2 * N - 1 THEN 0 ELSE (2 * N - 1) - N + 1
      BY <2>1, FS_Interval
    <2>3. QED
      BY <2>2
  <1>4. c \notin N..2 * N - 1
    OBVIOUS
  <1>5. /\ IsFiniteSet((N..2 * N - 1) \cup {c})
        /\ Cardinality((N..2 * N - 1) \cup {c}) = N + 1
    BY <1>3, <1>4, FS_AddElement
  <1>6. IsFiniteSet(Kept(list)) /\ Cardinality(Kept(list)) \in Nat
    <2>1. IsFiniteSet(0..2 * N - 1)
      BY FS_Interval
    <2>2. Kept(list) \subseteq 0..2 * N - 1
      BY DEF Kept
    <2>3. QED
      BY <2>1, <2>2, FS_Subset, FS_CardinalityType
  <1>7. Cardinality((N..2 * N - 1) \cup {c}) <= Cardinality(Kept(list))
    <2>1. ((N..2 * N - 1) \cup {c}) \subseteq Kept(list)
      BY <1>2
    <2>2. QED
      BY <1>6, <2>1, FS_Subset
  <1>8. QED
    BY <1>5, <1>6, <1>7

\* Neighbours in descending order are enough.
LEMMA NeighboursDescend ==
  ASSUME NEW N \in Nat, NEW list, DOMAIN list = 0..N - 1, Sortable(list), Descending(list, 0, N - 1)
  PROVE  InDirection(list, 0, N, FALSE)
  <1>1. \A c, d, e \in 0..N - 1 : geq(list[c], list[d]) /\ geq(list[d], list[e]) => geq(list[c], list[e])
    BY DEF Sortable, Sorts
  <1>2. \A c \in 0..N - 2 : geq(list[c], list[c + 1])
    BY DEF Descending
  <1> SUFFICES ASSUME NEW c \in 0..N - 1 PROVE \A d \in 0..N - 1 : c < d => geq(list[c], list[d])
    BY DEF InDirection, Window
  <1> DEFINE Bad == {d \in 0..N - 1 : c < d /\ ~geq(list[c], list[d])}
  <1>3. ASSUME Bad # {} PROVE FALSE
    <2>1. PICK d \in Bad : \A y \in Bad : d <= y
      <3>1. Bad \subseteq Nat
        OBVIOUS
      <3> HIDE DEF Bad
      <3>2. QED
        BY <1>3, <3>1, Least
    <2>2. d \in 0..N - 1 /\ c < d /\ d - 1 \in 0..N - 2 /\ (d - 1) + 1 = d /\ d - 1 \in 0..N - 1
      BY <2>1
    <2>3. geq(list[d - 1], list[d])
      BY <1>2, <2>2
    <2>4. d - 1 \notin Bad
      <3> HIDE DEF Bad
      <3>1. QED
        BY <2>1, <2>2
    <2>5. geq(list[c], list[d])
      <3>1. CASE c = d - 1
        BY <2>3, <3>1
      <3>2. CASE c # d - 1
        <4>1. geq(list[c], list[d - 1])
          BY <2>2, <2>4, <3>2
        <4>2. QED
          BY <1>1, <2>2, <2>3, <4>1
      <3>3. QED
        BY <3>1, <3>2
    <2>6. QED
      BY <2>1, <2>5
  <1>4. QED
    BY <1>3

-----------------------------------------------------------------------------
(* A list is marked.                                                         *)

LEMMA MarkedOnce ==
  ASSUME NEW N \in Nat \ {0, 1}, NEW list, list \in [0..N - 1 -> Cells]
  PROVE  /\ CellsOf(Marked(list)) = CellsOf(list)
         /\ InDirection(list, 0, N, FALSE) => Once(Marked(list))
  <1> DEFINE m == [c \in 0..N - 1 |-> IF c < N - 1 /\ list[c] = list[c + 1] THEN none ELSE list[c]]
  <1>1. Size(list) = N
    BY Sized
  <1>2. /\ N - 1 \in 0..N - 1 /\ N - 2 \in 0..N - 1 /\ N - 2 < N - 1 /\ (N - 2) + 1 = N - 1
        /\ ~(N - 1 < N - 1)
    OBVIOUS
  <1>3. /\ m[N - 1] = list[N - 1]
        /\ m[N - 2] = IF list[N - 2] = list[N - 1] THEN none ELSE list[N - 2]
    BY <1>2
  <1>4. DOMAIN m = 0..N - 1 /\ m = [c \in 0..N - 1 |-> m[c]]
    OBVIOUS
  <1>5. Marked(list) = [m EXCEPT ![N - 1] = IF m[N - 1] = m[N - 2] THEN none ELSE m[N - 1]]
    BY <1>1, <1>2, <1>4 DEF Marked
  <1>6. \A c \in 0..N - 1 : m[c] = IF c < N - 1 /\ list[c] = list[c + 1] THEN none ELSE list[c]
    OBVIOUS
  <1> HIDE DEF m
  <1>7. Marked(list) = m
    <2>1. (IF m[N - 1] = m[N - 2] THEN none ELSE m[N - 1]) = m[N - 1]
      BY <1>3
    <2>2. QED
      BY <1>4, <1>5, <2>1
  <1>8. Kept(m) = {c \in 0..N - 1 : list[c] # none /\ ~(c < N - 1 /\ list[c] = list[c + 1])}
    BY <1>4, <1>6 DEF Kept
  <1>9. \A c \in Kept(m) : m[c] = list[c]
    BY <1>6, <1>8
  <1>10. ASSUME InDirection(list, 0, N, FALSE) PROVE Once(m)
    <2>1. ASSUME NEW c \in Kept(m), NEW d \in Kept(m), list[c] = list[d], c < d PROVE FALSE
      <3>1. c \in 0..N - 1 /\ d \in 0..N - 1 /\ c + 1 \in 0..N - 1 /\ c < N - 1 /\ c < c + 1
        BY <1>8, <2>1
      <3>2. list[c] \in -Half..Half - 1 /\ list[c + 1] \in -Half..Half - 1
        BY <3>1, CompactionAssumption
      <3>3. geq(list[c], list[c + 1])
        BY <1>10, <3>1 DEF InDirection, Window
      <3>4. list[c] = list[c + 1]
        <4>1. CASE c + 1 = d
          BY <2>1, <4>1
        <4>2. CASE c + 1 # d
          <5>1. c + 1 < d
            BY <2>1, <3>1, <4>2
          <5>2. geq(list[c + 1], list[d])
            BY <1>10, <3>1, <5>1 DEF InDirection, Window
          <5>3. geq(list[c + 1], list[c])
            BY <2>1, <5>2
          <5>4. QED
            BY <3>2, <3>3, <5>3, Antisymmetric
        <4>3. QED
          BY <4>1, <4>2
      <3>5. QED
        BY <1>8, <3>1, <3>4
    <2>2. \A c \in Kept(m) : c \in Int
      BY <1>8
    <2>3. QED
      BY <1>9, <2>1, <2>2 DEF Once
  <1>11. CellsOf(m) = CellsOf(list)
    <2>1. ASSUME NEW c \in Kept(m) PROVE m[c] \in CellsOf(list)
      <3>1. c \in Kept(list)
        BY <1>8 DEF Kept
      <3>2. QED
        BY <1>9, <3>1 DEF CellsOf
    <2>2. ASSUME NEW d \in Kept(list) PROVE list[d] \in CellsOf(m)
      <3> DEFINE T == {x \in 0..N - 1 : list[N - 1 - x] = list[d]}
      <3>1. d \in 0..N - 1 /\ list[d] # none
        BY DEF Kept
      <3>2. N - 1 - d \in T
        <4>1. N - 1 - d \in 0..N - 1 /\ N - 1 - (N - 1 - d) = d
          BY <3>1
        <4>2. QED
          BY <4>1
      <3>3. PICK x \in T : \A y \in T : x <= y
        <4>1. T \subseteq Nat
          OBVIOUS
        <4> HIDE DEF T
        <4>2. QED
          BY <3>2, <4>1, Least
      <3> DEFINE c == N - 1 - x
      <3>4. c \in 0..N - 1 /\ list[c] = list[d] /\ x \in 0..N - 1
        BY <3>3
      <3>5. ~(c < N - 1 /\ list[c] = list[c + 1])
        <4> SUFFICES ASSUME c < N - 1, list[c] = list[c + 1] PROVE FALSE
          OBVIOUS
        <4>1. x - 1 \in 0..N - 1 /\ N - 1 - (x - 1) = c + 1 /\ ~(x <= x - 1)
          BY <3>4
        <4>2. x - 1 \in T
          BY <3>4, <4>1
        <4> HIDE DEF T
        <4>3. QED
          BY <3>3, <4>1, <4>2
      <3> HIDE DEF T, c
      <3>6. c \in Kept(m)
        BY <1>8, <3>1, <3>4, <3>5
      <3>7. QED
        BY <1>9, <3>4, <3>6 DEF CellsOf
    <2>3. QED
      BY <2>1, <2>2 DEF CellsOf
  <1>12. QED
    BY <1>7, <1>10, <1>11

-----------------------------------------------------------------------------
(* A tile comes.                                                             *)

LEMMA KeptFinite ==
  ASSUME NEW N \in Nat, NEW list, DOMAIN list = 0..N - 1
  PROVE  IsFiniteSet(Kept(list)) /\ Cardinality(Kept(list)) \in Nat
  <1>1. IsFiniteSet(0..N - 1)
    BY FS_Interval
  <1>2. Kept(list) \subseteq 0..N - 1
    BY DEF Kept
  <1>3. QED
    BY <1>1, <1>2, FS_Subset, FS_CardinalityType

\* The list of two tiles with one of them overwritten from place base.
Overwritten(N, list, tile, base) ==
    [c \in 0..2 * N - 1 |-> IF c - base \in 0..N - 1 THEN tile[c - base] ELSE list[c]]

\* What list l2 of cells has of lists l1 and tile; all of both unless a cell of l1 is lost.
Joined(l1, tile, l2, lost) ==
    /\ Cardinality(Kept(l2)) <= Cardinality(Kept(tile)) + Cardinality(Kept(l1))
    /\ CellsOf(l2) \subseteq CellsOf(tile) \cup CellsOf(l1)
    /\ ~lost => CellsOf(l2) = CellsOf(tile) \cup CellsOf(l1)

LEMMA TileArrives ==
  ASSUME NEW N \in Nat \ {0}, NEW list \in [0..2 * N - 1 -> Cells], NEW tile \in [0..N - 1 -> Cells],
         NEW base \in {0, N}
  PROVE  /\ Overwritten(N, list, tile, base) \in [0..2 * N - 1 -> Cells]
         /\ Joined(list, tile, Overwritten(N, list, tile, base), \E c \in Kept(list) : c \in base..base + N - 1)
  <1> DEFINE rec == Overwritten(N, list, tile, base)
             moved == {base + c : c \in Kept(tile)}
             g == [c \in Kept(tile) |-> base + c]
  <1>0. base \in Nat /\ base + N <= 2 * N
    OBVIOUS
  <1>a. rec = [c \in 0..2 * N - 1 |-> IF c - base \in 0..N - 1 THEN tile[c - base] ELSE list[c]]
    BY DEF Overwritten
  <1> HIDE DEF rec
  <1>1. rec \in [0..2 * N - 1 -> Cells]
    BY <1>a
  <1>2. /\ \A c \in Kept(tile) : c \in 0..N - 1 /\ tile[c] # none
        /\ \A c \in Kept(list) : c \in 0..2 * N - 1 /\ list[c] # none
        /\ \A c \in Kept(rec) : c \in 0..2 * N - 1 /\ rec[c] # none
    BY <1>1 DEF Kept
  <1>3. \A c \in Kept(tile) : base + c \in Kept(rec) /\ rec[base + c] = tile[c]
    <2> TAKE c \in Kept(tile)
    <2>1. base + c \in 0..2 * N - 1 /\ (base + c) - base = c /\ c \in 0..N - 1 /\ tile[c] # none
      BY <1>0, <1>2
    <2>2. rec[base + c] = tile[c]
      BY <1>a, <2>1
    <2>3. QED
      BY <1>1, <2>1, <2>2 DEF Kept
  <1>4. \A c \in Kept(rec) : \/ c - base \in Kept(tile) /\ rec[c] = tile[c - base] /\ c = base + (c - base)
                             \/ c \in Kept(list) /\ rec[c] = list[c]
    <2> TAKE c \in Kept(rec)
    <2>1. CASE c - base \in 0..N - 1
      BY <1>a, <1>0, <1>2, <2>1 DEF Kept
    <2>2. CASE c - base \notin 0..N - 1
      BY <1>a, <1>2, <2>2 DEF Kept
    <2>3. QED
      BY <2>1, <2>2
  <1>5. IsFiniteSet(moved) /\ Cardinality(moved) = Cardinality(Kept(tile))
    <2>1. g \in [Kept(tile) -> moved] /\ \A x \in moved : \E c \in Kept(tile) : g[c] = x
      OBVIOUS
    <2>2. \A a, b \in Kept(tile) : g[a] = g[b] => a = b
      <3> SUFFICES ASSUME NEW a \in Kept(tile), NEW b \in Kept(tile), g[a] = g[b] PROVE a = b
        OBVIOUS
      <3>1. a \in Int /\ b \in Int /\ base + a = base + b
        BY <1>2
      <3>2. QED
        BY <1>0, <3>1
    <2> HIDE DEF g, moved
    <2>3. g \in Bijection(Kept(tile), moved)
      BY <2>1, <2>2 DEF Bijection, Injection, Surjection, IsInjective
    <2>4. IsFiniteSet(Kept(tile))
      BY KeptFinite
    <2>5. QED
      BY <2>3, <2>4, FS_Bijection DEF ExistsBijection
  <1>6. Kept(rec) \subseteq moved \cup Kept(list)
    BY <1>4
  <1> HIDE DEF moved, g
  <1>7. IsFiniteSet(Kept(list)) /\ Cardinality(Kept(list)) \in Nat
    BY KeptFinite
  <1>8. /\ IsFiniteSet(moved \cup Kept(list))
        /\ Cardinality(moved \cup Kept(list)) <= Cardinality(moved) + Cardinality(Kept(list))
    <2>1. /\ IsFiniteSet(moved \cup Kept(list))
          /\ Cardinality(moved \cup Kept(list)) =
                Cardinality(moved) + Cardinality(Kept(list)) - Cardinality(moved \cap Kept(list))
      BY <1>5, <1>7, FS_Union
    <2>2. Cardinality(moved \cap Kept(list)) \in Nat /\ Cardinality(moved) \in Nat
      BY <1>5, <1>7, FS_Intersection, FS_CardinalityType
    <2>3. QED
      BY <1>7, <2>1, <2>2
  <1>9. Cardinality(Kept(rec)) <= Cardinality(Kept(tile)) + Cardinality(Kept(list))
    <2>1. Cardinality(Kept(rec)) <= Cardinality(moved \cup Kept(list))
      BY <1>6, <1>8, FS_Subset
    <2>2. /\ Cardinality(Kept(rec)) \in Nat /\ Cardinality(moved) \in Nat
          /\ Cardinality(moved \cup Kept(list)) \in Nat
      <3>1. IsFiniteSet(Kept(rec))
        BY <1>6, <1>8, FS_Subset
      <3>2. QED
        BY <1>5, <1>8, <3>1, FS_CardinalityType
    <2>3. QED
      BY <1>5, <1>7, <1>8, <2>1, <2>2
  <1>b. CellsOf(rec) \subseteq CellsOf(tile) \cup CellsOf(list)
    BY <1>4 DEF CellsOf
  <1>10. ASSUME \A c \in Kept(list) : c - base \notin 0..N - 1
         PROVE  CellsOf(rec) = CellsOf(tile) \cup CellsOf(list)
    <2>1. ASSUME NEW c \in Kept(list) PROVE c \in Kept(rec) /\ rec[c] = list[c]
      BY <1>a, <1>2, <1>10 DEF Kept
    <2>2. \A c \in Kept(tile) : tile[c] \in CellsOf(rec)
      BY <1>3 DEF CellsOf
    <2>3. \A c \in Kept(list) : list[c] \in CellsOf(rec)
      BY <2>1 DEF CellsOf
    <2>5. CellsOf(tile) \cup CellsOf(list) \subseteq CellsOf(rec)
      BY <2>2, <2>3 DEF CellsOf
    <2>6. QED
      BY <1>b, <2>5
  <1>11. (\A c \in Kept(list) : c - base \notin 0..N - 1) <=> ~\E c \in Kept(list) : c \in base..base + N - 1
    <2>1. \A c \in Kept(list) : c \in Int
      BY <1>2
    <2>2. \A c \in Int : c - base \in 0..N - 1 <=> c \in base..base + N - 1
      BY <1>0
    <2>3. QED
      BY <2>1, <2>2
  <1>12. QED
    BY <1>1, <1>9, <1>b, <1>10, <1>11 DEF Joined, rec

\* What comes.
Came == SentCells(n_tiles) \cup {none}

\* The tiles that come: two or more, since the first half of the list is not initialised.
\* Those of L2 are sorted, as far as emp can sort them.
Tiles(N) ==
    /\ N \in Nat \ {0}
    /\ tiles \in Seq([0..N - 1 -> Cells]) /\ Len(tiles) > 1
    /\ level = "L2" /\ Sorts(Came) => \A k \in 1..n_tiles : Descending(tiles[k], 0, N - 1)

LEMMA TileFacts ==
  ASSUME NEW N, Tiles(N)
  PROVE  /\ tile_size = N /\ n_tiles \in Nat \ {0} /\ Index = 0..2 * N - 1
         /\ \A k \in 1..n_tiles : tiles[k] \in [0..N - 1 -> Cells]
  <1>1. n_tiles \in Nat \ {0} /\ \A k \in 1..n_tiles : tiles[k] \in [0..N - 1 -> Cells]
    BY DEF Tiles, n_tiles
  <1>2. tiles[1] \in [0..N - 1 -> Cells]
    BY <1>1
  <1>3. tile_size = N
    BY <1>2, Sized DEF Tiles, tile_size
  <1>4. QED
    BY <1>1, <1>3 DEF Index

LEMMA SentGrows ==
  ASSUME NEW N, Tiles(N), NEW r \in 0..n_tiles - 1
  PROVE  /\ Sent(0) = {} /\ SentCells(0) = {}
         /\ Cardinality(Sent(r)) \in Nat /\ Cardinality(Sent(r + 1)) \in Nat
         /\ Cardinality(Sent(r + 1)) = Cardinality(Sent(r)) + Cardinality(Kept(tiles[r + 1]))
         /\ SentCells(r + 1) = SentCells(r) \cup CellsOf(tiles[r + 1])
         /\ Cardinality(Sent(r + 1)) <= Cardinality(Sent(n_tiles)) /\ Cardinality(Sent(n_tiles)) \in Nat
         /\ Cardinality(Sent(r)) <= Cardinality(Sent(n_tiles))
         /\ SentCells(r) \subseteq Came /\ CellsOf(tiles[r + 1]) \subseteq Came
  <1> DEFINE K == Kept(tiles[r + 1])
             new == {<<r + 1, c>> : c \in K}
             g == [c \in K |-> <<r + 1, c>>]
  <1>1. /\ tile_size = N /\ n_tiles \in Nat /\ r \in Nat /\ r + 1 \in 1..n_tiles /\ N \in Nat
        /\ tiles[r + 1] \in [0..N - 1 -> Cells]
    <2> HIDE DEF K, new, g
    <2>1. /\ tile_size = N /\ n_tiles \in Nat /\ N \in Nat
          /\ \A k \in 1..n_tiles : tiles[k] \in [0..N - 1 -> Cells]
      BY TileFacts DEF Tiles
    <2>2. r \in Nat /\ r + 1 \in 1..n_tiles
      BY <2>1
    <2>3. QED
      BY <2>1, <2>2
  <1>2. K = {c \in 0..N - 1 : tiles[r + 1][c] # none}
    BY <1>1 DEF Kept
  <1>3. IsFiniteSet(K)
    BY <1>1, KeptFinite
  <1>4. \A q \in Nat : IsFiniteSet(Sent(q))
    <2> TAKE q \in Nat
    <2>1. IsFiniteSet(1..q) /\ IsFiniteSet(0..N - 1)
      BY <1>1, FS_Interval
    <2>2. IsFiniteSet((1..q) \X (0..N - 1))
      BY <2>1, FS_Product
    <2>3. Sent(q) \subseteq (1..q) \X (0..N - 1)
      BY <1>1 DEF Sent
    <2>4. QED
      BY <2>2, <2>3, FS_Subset
  <1>5. Sent(r + 1) = Sent(r) \cup new /\ Sent(r) \cap new = {}
    <2>1. ASSUME NEW x \in Sent(r + 1), x \notin Sent(r) PROVE x \in new
      <3>1. x \in (1..r + 1) \X (0..N - 1) /\ tiles[x[1]][x[2]] # none /\ x = <<x[1], x[2]>>
        BY <1>1 DEF Sent
      <3>2. x[1] = r + 1
        BY <1>1, <2>1, <3>1 DEF Sent
      <3>3. x[2] \in K
        BY <1>2, <3>1, <3>2
      <3>4. QED
        BY <3>1, <3>2, <3>3
    <2>2. Sent(r) \subseteq Sent(r + 1)
      BY <1>1 DEF Sent
    <2>3. ASSUME NEW c \in K PROVE <<r + 1, c>> \in Sent(r + 1) /\ <<r + 1, c>> \notin Sent(r)
      BY <1>1, <1>2 DEF Sent
    <2>4. QED
      BY <2>1, <2>2, <2>3
  <1>6. IsFiniteSet(new) /\ Cardinality(new) = Cardinality(K)
    <2>1. g \in [K -> new] /\ \A x \in new : \E c \in K : g[c] = x
      OBVIOUS
    <2>2. \A a, b \in K : g[a] = g[b] => a = b
      OBVIOUS
    <2> HIDE DEF g, new, K
    <2>3. g \in Bijection(K, new)
      BY <2>1, <2>2 DEF Bijection, Injection, Surjection, IsInjective
    <2>4. QED
      BY <1>3, <2>3, FS_Bijection DEF ExistsBijection
  <1>7. SentCells(r + 1) = SentCells(r) \cup CellsOf(tiles[r + 1])
    <2>1. \A c \in K : tiles[<<r + 1, c>>[1]][<<r + 1, c>>[2]] = tiles[r + 1][c]
      OBVIOUS
    <2>2. \A x \in new : \E c \in K : x = <<r + 1, c>>
      OBVIOUS
    <2>3. \A c \in K : <<r + 1, c>> \in new
      OBVIOUS
    <2> HIDE DEF new
    <2>4. CellsOf(tiles[r + 1]) = {tiles[r + 1][c] : c \in K}
      BY DEF CellsOf
    <2> HIDE DEF K
    <2>5. {tiles[x[1]][x[2]] : x \in new} = CellsOf(tiles[r + 1])
      <3>1. \A x \in new : \E c \in K : tiles[x[1]][x[2]] = tiles[r + 1][c]
        BY <2>1, <2>2
      <3>2. \A c \in K : \E x \in new : tiles[x[1]][x[2]] = tiles[r + 1][c]
        BY <2>1, <2>3
      <3>3. QED
        BY <2>4, <3>1, <3>2
    <2>6. QED
      BY <1>5, <2>5 DEF SentCells
  <1> HIDE DEF new, g
  <1>8. Cardinality(Sent(r + 1)) = Cardinality(Sent(r)) + Cardinality(K)
    <2>1. IsFiniteSet(Sent(r))
      BY <1>1, <1>4
    <2>2. Cardinality(Sent(r) \cup new) = Cardinality(Sent(r)) + Cardinality(new) - Cardinality(Sent(r) \cap new)
      BY <1>6, <2>1, FS_Union
    <2>3. Cardinality(Sent(r) \cap new) = 0
      BY <1>5, FS_EmptySet
    <2>4. Cardinality(Sent(r)) \in Nat /\ Cardinality(new) \in Nat
      BY <1>6, <2>1, FS_CardinalityType
    <2> HIDE DEF K
    <2>5. Cardinality(Sent(r + 1)) = Cardinality(Sent(r) \cup new)
      BY <1>5
    <2>6. Cardinality(new) = Cardinality(K)
      BY <1>6
    <2>7. QED
      BY <2>2, <2>3, <2>4, <2>5, <2>6
  <1>9. /\ Cardinality(Sent(r + 1)) <= Cardinality(Sent(n_tiles))
        /\ Cardinality(Sent(r)) <= Cardinality(Sent(n_tiles))
    <2>1. Sent(r + 1) \subseteq Sent(n_tiles) /\ Sent(r) \subseteq Sent(n_tiles)
      BY <1>1 DEF Sent
    <2>2. QED
      BY <1>1, <1>4, <2>1, FS_Subset
  <1>10. /\ Cardinality(Sent(r)) \in Nat /\ Cardinality(Sent(r + 1)) \in Nat
         /\ Cardinality(Sent(n_tiles)) \in Nat
    BY <1>1, <1>4, FS_CardinalityType
  <1>11. Sent(0) = {} /\ SentCells(0) = {}
    BY DEF Sent, SentCells
  <1>12. SentCells(r + 1) \subseteq Came
    BY <1>1 DEF Came, SentCells, Sent
  <1> HIDE DEF K
  <1>13. SentCells(r) \subseteq Came /\ CellsOf(tiles[r + 1]) \subseteq Came
    BY <1>7, <1>12
  <1>14. QED
    BY <1>7, <1>8, <1>9, <1>10, <1>11, <1>13 DEF K

-----------------------------------------------------------------------------
(* What a reducer has after the first tile, and after another one.           *)

\* A list of what emp orders.
LEMMA ListSortable ==
  ASSUME NEW S, Sorts(S), none \in S,
         NEW N \in Nat, NEW list, DOMAIN list = 0..N - 1, CellsOf(list) \subseteq S
  PROVE  Sortable(list)
  <1>1. \A c \in DOMAIN list : list[c] \in S
    BY DEF CellsOf, Kept
  <1>2. {list[c] : c \in DOMAIN list} \subseteq S
    BY <1>1
  <1>3. Sorts({list[c] : c \in DOMAIN list})
    BY <1>2 DEF Sorts
  <1>4. IsFiniteSet(DOMAIN list)
    BY FS_Interval
  <1>5. QED
    BY <1>3, <1>4 DEF Sortable

\* If none is the largest of what comes, emp orders it.
LEMMA LargestSorts ==
  ASSUME NEW N, Tiles(N), NoneLargest(SentCells(n_tiles))
  PROVE  Sorts(Came) /\ NoneLargest(Came)
  <1>1. SentCells(n_tiles) \subseteq -Half..Half - 1
    <2>1. \A x \in Sent(n_tiles) : tiles[x[1]][x[2]] \in Cells
      BY TileFacts DEF Sent
    <2>2. QED
      BY <2>1, CompactionAssumption DEF SentCells
  <1>2. Sorts(Came)
    BY <1>1, PositiveSorts DEF Came
  <1>3. geq(none, none)
    BY <1>2 DEF Sorts, Came
  <1>4. QED
    BY <1>2, <1>3 DEF NoneLargest, Came

LEMMA SameCells ==
  ASSUME NEW D, NEW l1, l1 \in [D -> Cells], NEW l2, NEW f, NEW k, Rearranged(l1, l2, f, k)
  PROVE  l2 \in [D -> Cells]
  <1>1. \A c \in D : \E d \in D : l2[c] = l1[d]
    BY DEF Rearranged
  <1>2. \A c \in D : l2[c] \in Cells
    BY <1>1
  <1>3. l2 = [c \in D |-> l2[c]]
    BY DEF Rearranged
  <1>4. QED
    BY <1>2, <1>3

LEMMA Flips ==
  ASSUME NEW N \in Nat \ {0}, tile_size = N, Index = 0..2 * N - 1, NEW list, list \in [0..2 * N - 1 -> Cells]
  PROVE  /\ Rearranged(list, Flipped(list), 0, N)
         /\ Flipped(list) \in [0..2 * N - 1 -> Cells]
         /\ \A c \in 0..N - 1 : Flipped(list)[c] = list[N - 1 - c]
         /\ \A c \in N..2 * N - 1 : Flipped(list)[c] = list[c]
  <1> DEFINE D == 0..2 * N - 1
             from == [c \in D |-> IF c < N THEN N - 1 - c ELSE c]
  <1>1. /\ \A c \in D : from[c] \in D /\ (c < N => from[c] = N - 1 - c) /\ (c >= N => from[c] = c)
        /\ from \in [D -> D]
    OBVIOUS
  <1>2. Flipped(list) = [c \in D |-> list[from[c]]]
    BY DEF Flipped
  <1> HIDE DEF from
  <1>3. Window(0, N) = 0..N - 1
    BY DEF Window
  <1>4. Distinct(from)
    <2> SUFFICES ASSUME NEW c \in D, NEW d \in D, from[c] = from[d] PROVE c = d
      BY <1>1 DEF Distinct
    <2>1. CASE c < N /\ d < N
      BY <1>1, <2>1
    <2>2. CASE c >= N /\ d >= N
      BY <1>1, <2>2
    <2>3. CASE c < N /\ d >= N
      BY <1>1, <2>3
    <2>4. CASE c >= N /\ d < N
      BY <1>1, <2>4
    <2>5. QED
      BY <2>1, <2>2, <2>3, <2>4
  <1>5. Values(from, 0..N - 1) = 0..N - 1
    <2>1. \A c \in 0..N - 1 : c \in D /\ c < N /\ N - 1 - c \in 0..N - 1 /\ N - 1 - (N - 1 - c) = c
      OBVIOUS
    <2>2. \A c \in 0..N - 1 : from[c] = N - 1 - c
      BY <1>1, <2>1
    <2>3. \A c \in 0..N - 1 : from[c] \in 0..N - 1 /\ from[N - 1 - c] = c
      BY <2>1, <2>2
    <2>4. QED
      BY <2>1, <2>3 DEF Values
  <1>6. \A c \in D \ (0..N - 1) : from[c] = c
    BY <1>1
  <1>7. 0..N - 1 \subseteq D /\ DOMAIN list = D
    OBVIOUS
  <1>8. Rearranged(list, Flipped(list), 0, N)
    BY <1>1, <1>2, <1>3, <1>4, <1>5, <1>6, <1>7 DEF Rearranged
  <1>9. Flipped(list) \in [D -> Cells]
    BY <1>1, <1>2
  <1>10. \A c \in D : Flipped(list)[c] = list[from[c]]
    BY <1>2
  <1>11. QED
    BY <1>1, <1>8, <1>9, <1>10

LEMMA FirstTile ==
  ASSUME NEW N \in Nat \ {0}, tile_size = N, Index = 0..2 * N - 1, level \in {"L1", "L2"},
         NEW S, none \in S, NEW tile, tile \in [0..N - 1 -> Cells], CellsOf(tile) \subseteq S,
         level = "L2" /\ Sorts(S) => Descending(tile, 0, N - 1),
         data = [c \in Index |-> none], base_idx = N,
         NEW list, list = Ordered(Received(tile))
  PROVE  /\ list \in [0..2 * N - 1 -> Cells]
         /\ Sorts(S) => InDirection(list, N, N, FALSE)
         /\ Sorts(S) /\ NoneLargest(S) => InDirection(list, 0, 2 * N, FALSE)
         /\ Cardinality(Kept(list)) <= Cardinality(Kept(tile))
         /\ CellsOf(list) = CellsOf(tile)
  <1> DEFINE D == 0..2 * N - 1
             rec == Received(tile)
  <1>1. rec = [c \in D |-> IF c - N \in 0..N - 1 THEN tile[c - N] ELSE data[c]]
    BY DEF Received
  <1> HIDE DEF rec
  <1>2. data \in [D -> Cells] /\ Kept(data) = {}
    BY CompactionAssumption DEF Kept
  <1>3. rec \in [D -> Cells] /\ Joined(data, tile, rec, FALSE)
    <2>1. data \in [0..2 * N - 1 -> Cells] /\ rec = Overwritten(N, data, tile, N)
      BY <1>1, <1>2 DEF Overwritten
    <2>2. N \in {0, N}
      OBVIOUS
    <2>3. /\ Overwritten(N, data, tile, N) \in [0..2 * N - 1 -> Cells]
          /\ Joined(data, tile, Overwritten(N, data, tile, N), \E c \in Kept(data) : c \in N..N + N - 1)
      BY <2>1, <2>2, TileArrives
    <2>4. QED
      BY <1>2, <2>1, <2>3 DEF Joined
  <1>4. Cardinality(Kept(rec)) <= Cardinality(Kept(tile)) /\ CellsOf(rec) = CellsOf(tile)
    <2>1. Cardinality(Kept(data)) = 0 /\ CellsOf(data) = {}
      BY <1>2, FS_EmptySet DEF CellsOf
    <2>2. Cardinality(Kept(tile)) \in Nat
      BY KeptFinite
    <2>3. CellsOf(rec) = CellsOf(tile) \cup CellsOf(data)
      BY <1>3 DEF Joined
    <2>4. Cardinality(Kept(rec)) <= Cardinality(Kept(tile)) + Cardinality(Kept(data))
      BY <1>3 DEF Joined
    <2>5. QED
      BY <2>1, <2>2, <2>3, <2>4
  <1>5. /\ \A c \in 0..N - 1 : rec[c] = none
        /\ \A c \in N..2 * N - 1 : rec[c] = tile[c - N]
    BY <1>1
  <1>6. DOMAIN rec = D /\ D \subseteq Int /\ IsFiniteSet(DOMAIN rec) /\ (Sorts(S) => Sortable(rec))
    <2>1. 2 * N \in Nat /\ DOMAIN rec = 0..2 * N - 1
      BY <1>3
    <2>2. Sorts(S) => Sortable(rec)
      BY <1>4, <2>1, ListSortable
    <2>3. IsFiniteSet(0..2 * N - 1)
      BY FS_Interval
    <2>4. QED
      BY <2>1, <2>2, <2>3
  <1>7. /\ list \in [D -> Cells]
        /\ \A c \in 0..N - 1 : list[c] = none
        /\ Sorts(S) => InDirection(list, N, N, FALSE)
        /\ Cardinality(Kept(list)) <= Cardinality(Kept(rec)) /\ CellsOf(list) = CellsOf(rec)
    <2>1. CASE level = "L1"
      <3>1. list = sort(rec, N, N, FALSE)
        <4>1. (base_idx = 0) = FALSE
          OBVIOUS
        <4>2. QED
          BY <2>1, <4>1 DEF Ordered, rec
      <3>2. Window(N, N) \subseteq DOMAIN rec
        BY <1>6 DEF Window
      <3>3. /\ Sorts(S) => InDirection(sort(rec, N, N, FALSE), N, N, FALSE)
            /\ Rearranged(rec, sort(rec, N, N, FALSE), N, N)
        <4>1. N \in Int /\ N \in Nat /\ FALSE \in BOOLEAN
          OBVIOUS
        <4>2. QED
          BY <1>6, <3>2, <4>1, SortAlways
      <3>4. list \in [D -> Cells]
        <4>1. Rearranged(rec, list, N, N)
          BY <3>1, <3>3
        <4> HIDE DEF D
        <4>2. QED
          BY <1>3, <4>1, SameCells
      <3>5. \A c \in 0..N - 1 : c \in DOMAIN rec \ Window(N, N)
        BY <1>6 DEF Window
      <3>6. Rearranged(rec, list, N, N) /\ (Sorts(S) => InDirection(list, N, N, FALSE))
        BY <3>1, <3>3
      <3>7. /\ Cardinality(Kept(list)) <= Cardinality(Kept(rec)) /\ CellsOf(list) = CellsOf(rec)
            /\ \A c \in DOMAIN rec \ Window(N, N) : list[c] = rec[c]
        BY <1>6, <3>6, RearrangedCells
      <3>8. QED
        BY <1>5, <3>4, <3>5, <3>6, <3>7
    <2>2. CASE level = "L2"
      <3>1. list = Flipped(rec)
        BY <2>2 DEF Ordered, rec
      <3>2. /\ Rearranged(rec, list, 0, N)
            /\ list \in [D -> Cells]
            /\ \A c \in 0..N - 1 : list[c] = rec[N - 1 - c]
            /\ \A c \in N..2 * N - 1 : list[c] = rec[c]
        BY <1>3, <3>1, Flips
      <3>3. \A c \in 0..N - 1 : list[c] = none
        <4>1. \A c \in 0..N - 1 : N - 1 - c \in 0..N - 1
          OBVIOUS
        <4>2. QED
          BY <1>5, <3>2, <4>1
      <3>4. ASSUME Sorts(S) PROVE InDirection(tile, 0, N, FALSE)
        <4>1. DOMAIN tile = 0..N - 1 /\ N \in Nat
          OBVIOUS
        <4>2. Sortable(tile) /\ Descending(tile, 0, N - 1)
          BY <2>2, <3>4, <4>1, ListSortable
        <4>3. QED
          BY <4>1, <4>2, NeighboursDescend
      <3>5. ASSUME Sorts(S) PROVE InDirection(list, N, N, FALSE)
        <4> SUFFICES ASSUME NEW c \in N..2 * N - 1, NEW d \in N..2 * N - 1, c < d
                     PROVE  geq(list[c], list[d])
          BY DEF InDirection, Window
        <4>1. list[c] = tile[c - N] /\ list[d] = tile[d - N]
          BY <1>5, <3>2
        <4>2. c - N \in 0..N - 1 /\ d - N \in 0..N - 1 /\ c - N < d - N
          OBVIOUS
        <4>3. geq(tile[c - N], tile[d - N])
          BY <3>4, <3>5, <4>2 DEF InDirection, Window
        <4>4. QED
          BY <4>1, <4>3
      <3>6. QED
        BY <1>6, <3>2, <3>3, <3>5, RearrangedCells
    <2>3. QED
      BY <2>1, <2>2
  <1>8. ASSUME Sorts(S), NoneLargest(S) PROVE InDirection(list, 0, 2 * N, FALSE)
    <2> SUFFICES ASSUME NEW c \in D, NEW d \in D, c < d PROVE geq(list[c], list[d])
      BY DEF InDirection, Window
    <2>1. CASE c < N
      <3>1. list[c] = none /\ list[d] \in S
        <4>1. d \in Kept(list) \/ list[d] = none
          BY <1>7 DEF Kept
        <4>2. CellsOf(list) \subseteq S
          BY <1>4, <1>7
        <4>3. QED
          BY <1>7, <2>1, <4>1, <4>2 DEF CellsOf
      <3>2. QED
        BY <1>8, <3>1 DEF NoneLargest
    <2>2. CASE c >= N
      <3>1. c \in N..N + N - 1 /\ d \in N..N + N - 1
        BY <2>2
      <3>2. QED
        BY <1>7, <1>8, <3>1 DEF InDirection, Window
    <2>3. QED
      BY <2>1, <2>2
  <1>9. Cardinality(Kept(list)) <= Cardinality(Kept(tile))
    <2>1. Cardinality(Kept(list)) \in Nat /\ Cardinality(Kept(rec)) \in Nat /\ Cardinality(Kept(tile)) \in Nat
      <3>1. DOMAIN list = 0..2 * N - 1 /\ DOMAIN rec = 0..2 * N - 1 /\ DOMAIN tile = 0..N - 1 /\ 2 * N \in Nat
        BY <1>3, <1>7
      <3>2. QED
        BY <3>1, KeptFinite
    <2>2. QED
      BY <1>4, <1>7, <2>1
  <1>10. QED
    BY <1>4, <1>7, <1>8, <1>9

LEMMA LaterTile ==
  ASSUME NEW N \in Nat \ {0}, tile_size = N, Index = 0..2 * N - 1, level \in {"L1", "L2"},
         NEW S, none \in S, NEW tile, tile \in [0..N - 1 -> Cells], CellsOf(tile) \subseteq S,
         level = "L2" /\ Sorts(S) => Descending(tile, 0, N - 1),
         data \in [0..2 * N - 1 -> Cells], CellsOf(data) \subseteq S, base_idx = 0,
         Sorts(S) => InDirection(data, N, N, FALSE),
         NEW list, list = bitonic_merge(Ordered(Received(tile)), 0, 2 * tile_size, FALSE)
  PROVE  /\ list \in [0..2 * N - 1 -> Cells]
         /\ Sorts(S) => InDirection(list, 0, 2 * N, FALSE)
         /\ Joined(data, tile, list, ~(Kept(data) \subseteq N..2 * N - 1))
  <1> DEFINE D == 0..2 * N - 1
             rec == Received(tile)
             both == Ordered(rec)
  <1>1. rec = [c \in D |-> IF c - 0 \in 0..N - 1 THEN tile[c - 0] ELSE data[c]]
    BY DEF Received
  <1> HIDE DEF rec
  <1>2. rec \in [D -> Cells] /\ Joined(data, tile, rec, \E c \in Kept(data) : c \in 0..0 + N - 1)
    <2>1. data \in [0..2 * N - 1 -> Cells] /\ rec = Overwritten(N, data, tile, 0)
      BY <1>1 DEF Overwritten
    <2>2. 0 \in {0, N}
      OBVIOUS
    <2>3. /\ Overwritten(N, data, tile, 0) \in [0..2 * N - 1 -> Cells]
          /\ Joined(data, tile, Overwritten(N, data, tile, 0), \E c \in Kept(data) : c \in 0..0 + N - 1)
      BY <2>1, <2>2, TileArrives
    <2>4. QED
      BY <2>1, <2>3
  <1>3. Joined(data, tile, rec, ~(Kept(data) \subseteq N..2 * N - 1))
    BY <1>2 DEF Joined
  <1>4. /\ \A c \in 0..N - 1 : rec[c] = tile[c]
        /\ \A c \in N..2 * N - 1 : rec[c] = data[c]
    BY <1>1
  <1>5. DOMAIN rec = D /\ D \subseteq Int /\ IsFiniteSet(DOMAIN rec) /\ (Sorts(S) => Sortable(rec))
    <2>1. 2 * N \in Nat /\ DOMAIN rec = 0..2 * N - 1
      BY <1>2
    <2>2. CellsOf(rec) \subseteq S
      BY <1>2 DEF Joined
    <2>3. Sorts(S) => Sortable(rec)
      BY <2>1, <2>2, ListSortable
    <2>4. IsFiniteSet(0..2 * N - 1)
      BY FS_Interval
    <2>5. QED
      BY <2>1, <2>3, <2>4
  <1>a. both = Ordered(rec)
    OBVIOUS
  <1> HIDE DEF both
  <1>6. Rearranged(rec, both, 0, N) /\ (Sorts(S) => InDirection(both, 0, N, TRUE))
    <2>1. CASE level = "L1"
      <3>1. both = sort(rec, 0, N, TRUE)
        <4>1. (base_idx = 0) = TRUE
          OBVIOUS
        <4>2. QED
          BY <1>a, <2>1, <4>1 DEF Ordered
      <3>2. Window(0, N) \subseteq DOMAIN rec
        BY <1>5 DEF Window
      <3>3. /\ Sorts(S) => InDirection(sort(rec, 0, N, TRUE), 0, N, TRUE)
            /\ Rearranged(rec, sort(rec, 0, N, TRUE), 0, N)
        <4>1. 0 \in Int /\ N \in Nat /\ TRUE \in BOOLEAN
          OBVIOUS
        <4>2. QED
          BY <1>5, <3>2, <4>1, SortAlways
      <3>4. QED
        BY <3>1, <3>3
    <2>2. CASE level = "L2"
      <3>1. both = Flipped(rec)
        BY <1>a, <2>2 DEF Ordered
      <3>2. Rearranged(rec, both, 0, N) /\ \A c \in 0..N - 1 : both[c] = rec[N - 1 - c]
        BY <1>2, <3>1, Flips
      <3>3. ASSUME Sorts(S) PROVE InDirection(tile, 0, N, FALSE)
        <4>1. DOMAIN tile = 0..N - 1 /\ N \in Nat
          OBVIOUS
        <4>2. Sortable(tile) /\ Descending(tile, 0, N - 1)
          BY <2>2, <3>3, <4>1, ListSortable
        <4>3. QED
          BY <4>1, <4>2, NeighboursDescend
      <3>4. ASSUME Sorts(S) PROVE InDirection(both, 0, N, TRUE)
        <4> SUFFICES ASSUME NEW c \in 0..N - 1, NEW d \in 0..N - 1, c < d PROVE geq(both[d], both[c])
          BY DEF InDirection, Window
        <4>1. N - 1 - c \in 0..N - 1 /\ N - 1 - d \in 0..N - 1 /\ N - 1 - d < N - 1 - c
          OBVIOUS
        <4>2. both[c] = tile[N - 1 - c] /\ both[d] = tile[N - 1 - d]
          BY <1>4, <3>2, <4>1
        <4>3. geq(tile[N - 1 - d], tile[N - 1 - c])
          BY <3>3, <3>4, <4>1 DEF InDirection, Window
        <4>4. QED
          BY <4>2, <4>3
      <3>5. QED
        BY <3>2, <3>4
    <2>3. QED
      BY <2>1, <2>2
  <1>7. both \in [D -> Cells]
    <2> HIDE DEF D
    <2>1. QED
      BY <1>2, <1>6, SameCells
  <1>9. /\ \A c \in N..2 * N - 1 : both[c] = data[c]
        /\ Cardinality(Kept(both)) <= Cardinality(Kept(rec)) /\ CellsOf(both) = CellsOf(rec)
    <2>1. /\ Cardinality(Kept(both)) <= Cardinality(Kept(rec)) /\ CellsOf(both) = CellsOf(rec)
          /\ \A c \in DOMAIN rec \ Window(0, N) : both[c] = rec[c]
      BY <1>5, <1>6, RearrangedCells
    <2>2. \A c \in N..2 * N - 1 : c \in DOMAIN rec \ Window(0, N)
      BY <1>5 DEF Window
    <2>3. QED
      BY <1>4, <2>1, <2>2
  <1>8. DOMAIN both = D /\ IsFiniteSet(DOMAIN both) /\ (Sorts(S) => Sortable(both))
    <2>1. 2 * N \in Nat /\ DOMAIN both = 0..2 * N - 1
      BY <1>7
    <2>2. CellsOf(both) \subseteq S
      BY <1>2, <1>9 DEF Joined
    <2>3. Sorts(S) => Sortable(both)
      BY <2>1, <2>2, ListSortable
    <2>4. QED
      BY <1>5, <2>1, <2>3
  <1>10. ASSUME Sorts(S) PROVE InDirection(both, N, N, FALSE)
    <2> SUFFICES ASSUME NEW c \in N..2 * N - 1, NEW d \in N..2 * N - 1, c < d PROVE geq(both[c], both[d])
      BY DEF InDirection, Window
    <2>1. geq(data[c], data[d])
      BY <1>10 DEF InDirection, Window
    <2>2. QED
      BY <1>9, <2>1
  <1>11. Rearranged(both, list, 0, 2 * N) /\ (Sorts(S) => InDirection(list, 0, 2 * N, FALSE))
    <2>1. N + N = 2 * N /\ 0 + N = N /\ 0 \in Int /\ N \in Nat /\ FALSE \in BOOLEAN /\ (~FALSE) = TRUE
      OBVIOUS
    <2>2. Window(0, N + N) \subseteq DOMAIN both
      BY <1>8 DEF Window
    <2>3. Sorts(S) => /\ Sortable(both)
                      /\ InDirection(both, 0, N, ~FALSE) /\ InDirection(both, 0 + N, N, FALSE)
      BY <1>6, <1>8, <1>10, <2>1
    <2>4. /\ Sorts(S) => InDirection(bitonic_merge(both, 0, N + N, FALSE), 0, N + N, FALSE)
          /\ Rearranged(both, bitonic_merge(both, 0, N + N, FALSE), 0, N + N)
      BY <1>5, <1>8, <2>1, <2>2, <2>3, MergeAlways
    <2>5. list = bitonic_merge(both, 0, 2 * N, FALSE)
      BY DEF both, rec
    <2>6. QED
      BY <2>1, <2>4, <2>5
  <1>12. list \in [D -> Cells]
    <2> HIDE DEF D
    <2>1. QED
      BY <1>7, <1>11, SameCells
  <1>13. Cardinality(Kept(list)) <= Cardinality(Kept(both)) /\ CellsOf(list) = CellsOf(both)
    BY <1>8, <1>11, RearrangedCells
  <1>14. /\ Cardinality(Kept(list)) \in Nat /\ Cardinality(Kept(both)) \in Nat
         /\ Cardinality(Kept(rec)) \in Nat /\ Cardinality(Kept(tile)) \in Nat /\ Cardinality(Kept(data)) \in Nat
    <2>1. DOMAIN data = 0..2 * N - 1 /\ DOMAIN tile = 0..N - 1 /\ 2 * N \in Nat
      OBVIOUS
    <2>2. DOMAIN rec = 0..2 * N - 1 /\ DOMAIN both = 0..2 * N - 1
      BY <1>5, <1>8
    <2>3. DOMAIN list = 0..2 * N - 1
      BY <1>12, Zenon
    <2>4. QED
      BY <2>1, <2>2, <2>3, KeptFinite
  <1>15. Joined(data, tile, list, ~(Kept(data) \subseteq N..2 * N - 1))
    <2>1. Cardinality(Kept(rec)) <= Cardinality(Kept(tile)) + Cardinality(Kept(data))
      BY <1>3 DEF Joined
    <2>2. Cardinality(Kept(list)) <= Cardinality(Kept(tile)) + Cardinality(Kept(data))
      <3> DEFINE a == Cardinality(Kept(list))
                 b == Cardinality(Kept(both))
                 x == Cardinality(Kept(rec))
                 y == Cardinality(Kept(tile))
                 z == Cardinality(Kept(data))
      <3>1. a \in Nat /\ b \in Nat /\ x \in Nat /\ y \in Nat /\ z \in Nat
        BY <1>14, Zenon
      <3>2. a <= b /\ b <= x /\ x <= y + z
        BY <1>9, <1>13, <2>1, Zenon
      <3> HIDE DEF a, b, x, y, z
      <3>3. a <= y + z
        BY <3>1, <3>2
      <3>4. QED
        BY <3>3, Zenon DEF a, y, z
    <2>3. CellsOf(list) = CellsOf(rec)
      BY <1>9, <1>13
    <2>4. QED
      BY <1>3, <2>2, <2>3 DEF Joined
  <1>16. QED
    BY <1>11, <1>12, <1>15

\* What is compacted, also after every cell is kept once.
LEMMA CompactedOnce ==
  ASSUME NEW N \in Nat, NEW d, DOMAIN d = 0..N - 1
  PROVE  /\ CellsOf(Compacted(d)) = CellsOf(d)
         /\ Once(d) => Once(Compacted(d)) /\ \A c \in Kept(Compacted(d)) : c < Cardinality(CellsOf(d))
  <1> DEFINE K == Kept(d)
             g == [c \in K |-> d[c]]
  <1>1. DOMAIN Compacted(d) = 0..N - 1 /\ \A c \in K : c \in 0..N - 1 /\ d[c] # none
    BY DEF Compacted, Kept
  <1>2. ASSUME NEW c \in K
        PROVE  Rank(d, c) \in Kept(Compacted(d)) /\ Compacted(d)[Rank(d, c)] = d[c]
    BY <1>1, CompactedCell DEF Kept
  <1>3. ASSUME NEW r \in Kept(Compacted(d))
        PROVE  \E c \in K : Rank(d, c) = r /\ Compacted(d)[r] = d[c]
    <2>1. r \in DOMAIN d /\ Compacted(d)[r] # none
      BY <1>1 DEF Kept
    <2>2. PICK c \in K : Rank(d, c) = r
      BY <2>1, CompactedRest
    <2>3. QED
      BY <1>2, <2>2
  <1>4. CellsOf(Compacted(d)) = CellsOf(d)
    <2>1. \A c \in K : \E r \in Kept(Compacted(d)) : Compacted(d)[r] = d[c]
      BY <1>2
    <2>2. \A r \in Kept(Compacted(d)) : \E c \in K : Compacted(d)[r] = d[c]
      BY <1>3
    <2>3. QED
      BY <2>1, <2>2 DEF CellsOf
  <1>5. IsFiniteSet(K) /\ Cardinality(K) \in Nat
    BY KeptFinite
  <1>6. ASSUME Once(d) PROVE Cardinality(CellsOf(d)) = Cardinality(K)
    <2>1. g \in [K -> CellsOf(d)] /\ \A x \in CellsOf(d) : \E c \in K : g[c] = x
      BY DEF CellsOf
    <2>2. \A a, b \in K : g[a] = g[b] => a = b
      BY <1>6 DEF Once
    <2> HIDE DEF g, K
    <2>3. g \in Bijection(K, CellsOf(d))
      BY <2>1, <2>2 DEF Bijection, Injection, Surjection, IsInjective
    <2>4. QED
      BY <1>5, <2>3, FS_Bijection DEF ExistsBijection
  <1>7. ASSUME NEW c \in K PROVE Rank(d, c) < Cardinality(K)
    <2>1. c \in 0..N /\ N \in c..N /\ c < N /\ d[c] # none
      BY <1>1
    <2>2. Rank(d, c) < Rank(d, N)
      BY <2>1, RankGrows
    <2>3. {e \in Kept(d) : e < N} = K
      BY <1>1
    <2>4. Rank(d, N) = Cardinality(K)
      BY <2>3 DEF Rank
    <2>5. QED
      BY <2>2, <2>4
  <1>8. ASSUME Once(d), NEW r \in Kept(Compacted(d)) PROVE r < Cardinality(CellsOf(d))
    <2>1. PICK c \in K : Rank(d, c) = r
      BY <1>3
    <2>2. QED
      BY <1>6, <1>7, <1>8, <2>1
  <1>9. ASSUME Once(d) PROVE Once(Compacted(d))
    <2> SUFFICES ASSUME NEW r \in Kept(Compacted(d)), NEW q \in Kept(Compacted(d)),
                        Compacted(d)[r] = Compacted(d)[q]
                 PROVE  r = q
      BY DEF Once
    <2>1. PICK c \in K : Rank(d, c) = r /\ Compacted(d)[r] = d[c]
      BY <1>3
    <2>2. PICK e \in K : Rank(d, e) = q /\ Compacted(d)[q] = d[e]
      BY <1>3
    <2>3. c = e
      BY <1>9, <2>1, <2>2 DEF Once
    <2>4. QED
      BY <2>1, <2>2, <2>3
  <1>10. QED
    BY <1>4, <1>8, <1>9

-----------------------------------------------------------------------------
(* The reducers, of which a program sends any tiles.                         *)

ReducerInit == pc = "listen" /\ level \in {"L1", "L2"} /\ \E N \in Nat : Tiles(N)
ReducerNext == Listen \/ Receive \/ Reduce
rvars == <<marked, data, distance, i, j, pc, level, tiles, base_idx, t>>
ReducerSpec == ReducerInit /\ [][ReducerNext]_rvars

\* The tiles have no more devices than one of them has cells.
Fit(N) == Cardinality(Sent(n_tiles)) <= N

\* None is the largest of what comes.
Largest == NoneLargest(SentCells(n_tiles))

\* A list that the first r tiles have been merged into: after the first one its second
\* half is in order, and then all of it.
Merged(N, list, r) ==
    /\ list \in [0..2 * N - 1 -> Cells]
    /\ CellsOf(list) \subseteq SentCells(r)
    /\ Cardinality(Kept(list)) <= Cardinality(Sent(r))
    /\ Sorts(Came) => InDirection(list, N, N, FALSE)
    /\ Sorts(Came) /\ (r > 1 \/ Largest) => InDirection(list, 0, 2 * N, FALSE)
    /\ Largest /\ Fit(N) => CellsOf(list) = SentCells(r)

\* What a reducer of tiles of N cells has at each of its steps.
Filled(N) ==
    /\ pc \in {"listen", "receive", "reduce", "loop", "done"}
    /\ pc = "receive" =>
          /\ t \in 0..n_tiles - 1
          /\ t = 0 => base_idx = N /\ data = [c \in 0..2 * N - 1 |-> none]
          /\ t > 0 => base_idx = 0 /\ Merged(N, data, t)
    /\ pc = "reduce" => Merged(N, data, n_tiles)
    /\ pc \in {"reduce", "loop", "done"} => t = n_tiles /\ Inv
    /\ pc \in {"loop", "done"} =>
          /\ DOMAIN marked = 0..2 * N - 1 /\ CellsOf(marked) \subseteq SentCells(n_tiles)
          /\ Sorts(Came) => Once(marked)
          /\ Largest /\ Fit(N) => CellsOf(marked) = SentCells(n_tiles)

\* Inductive: between two tiles the list has nothing but cells of the tiles that came,
\* descends if emp orders them, and has every one of them if none is the largest and they
\* fit; so the next tile overwrites nothing but none.
ReducerInv == level \in {"L1", "L2"} /\ \E N \in Nat : Tiles(N) /\ Filled(N)

LEMMA TilesStay ==
  ASSUME UNCHANGED <<level, tiles>>
  PROVE  /\ \A N : (Tiles(N)' <=> Tiles(N)) /\ (Fit(N)' <=> Fit(N))
         /\ n_tiles' = n_tiles /\ tile_size' = tile_size
         /\ \A r : Sent(r)' = Sent(r) /\ SentCells(r)' = SentCells(r)
         /\ Came' = Came /\ (Largest' <=> Largest)
  <1>1. n_tiles' = n_tiles /\ tile_size' = tile_size
    BY DEF n_tiles, tile_size
  <1>2. \A r : Sent(r)' = Sent(r)
    BY <1>1 DEF Sent
  <1>3. \A r : SentCells(r)' = SentCells(r)
    BY <1>2 DEF SentCells
  <1>4. Came' = Came
    BY <1>1, <1>2 DEF Came, SentCells
  <1>5. Largest' <=> Largest
    BY <1>1, <1>2 DEF Largest, NoneLargest, SentCells
  <1>6. \A N : (Tiles(N)' <=> Tiles(N)) /\ (Fit(N)' <=> Fit(N))
    BY <1>1, <1>2, <1>4 DEF Tiles, Fit, Descending, Sorts
  <1>7. QED
    BY <1>1, <1>2, <1>3, <1>4, <1>5, <1>6

\* What Receive makes of the list.
LEMMA TileMerged ==
  ASSUME NEW N \in Nat, level \in {"L1", "L2"}, Tiles(N), Filled(N), Receive
  PROVE  t \in 0..n_tiles - 1 /\ Merged(N, data', t + 1)
  <1>1. /\ tile_size = N /\ n_tiles \in Nat \ {0} /\ Index = 0..2 * N - 1 /\ N \in Nat \ {0}
        /\ \A k \in 1..n_tiles : tiles[k] \in [0..N - 1 -> Cells]
    BY TileFacts DEF Tiles
  <1>2. /\ pc = "receive" /\ t \in 0..n_tiles - 1
        /\ t = 0 => base_idx = N /\ data = [c \in 0..2 * N - 1 |-> none]
        /\ t > 0 => base_idx = 0 /\ Merged(N, data, t)
    BY DEF Receive, Filled
  <1> DEFINE tile == tiles[t + 1]
             list == Ordered(Received(tile))
  <1>3. t + 1 \in 1..n_tiles /\ tile \in [0..N - 1 -> Cells]
    BY <1>1, <1>2
  <1>4. level = "L2" /\ Sorts(Came) => Descending(tile, 0, N - 1)
    BY <1>3 DEF Tiles
  <1>5. /\ Cardinality(Sent(t)) \in Nat /\ Cardinality(Sent(t + 1)) \in Nat
        /\ Cardinality(Sent(t + 1)) = Cardinality(Sent(t)) + Cardinality(Kept(tile))
        /\ SentCells(t + 1) = SentCells(t) \cup CellsOf(tile)
        /\ Cardinality(Sent(t)) <= Cardinality(Sent(n_tiles)) /\ Cardinality(Sent(n_tiles)) \in Nat
        /\ SentCells(t) \subseteq Came /\ CellsOf(tile) \subseteq Came
    BY <1>2, SentGrows
  <1>a. none \in Came /\ (Largest => Sorts(Came) /\ NoneLargest(Came))
    BY LargestSorts DEF Came, Largest
  <1>6. data' = IF t > 0 THEN bitonic_merge(list, 0, 2 * tile_size, FALSE) ELSE list
    BY DEF Receive
  <1> HIDE DEF tile
  <1>7. CASE t = 0
    <2>1. data' = list /\ base_idx = N /\ data = [c \in Index |-> none]
      BY <1>1, <1>2, <1>6, <1>7
    <2> HIDE DEF list
    <2>2. list = Ordered(Received(tile))
      BY DEF list
    <2>3. /\ list \in [0..2 * N - 1 -> Cells]
          /\ Sorts(Came) => InDirection(list, N, N, FALSE)
          /\ Sorts(Came) /\ NoneLargest(Came) => InDirection(list, 0, 2 * N, FALSE)
          /\ Cardinality(Kept(list)) <= Cardinality(Kept(tile))
          /\ CellsOf(list) = CellsOf(tile)
      BY <1>1, <1>3, <1>4, <1>5, <1>a, <2>1, <2>2, FirstTile
    <2>4. Cardinality(Sent(0)) = 0 /\ SentCells(0) = {}
      BY <1>2, <1>7, SentGrows, FS_EmptySet
    <2>5. DOMAIN tile = 0..N - 1 /\ Cardinality(Kept(tile)) \in Nat
      BY <1>3, KeptFinite
    <2>6. Cardinality(Sent(t + 1)) = Cardinality(Kept(tile)) /\ SentCells(t + 1) = CellsOf(tile)
      <3>1. Cardinality(Sent(t)) = 0 /\ SentCells(t) = {}
        BY <1>7, <2>4, Zenon
      <3>2. QED
        BY <1>5, <2>5, <3>1
    <2>7. ~(t + 1 > 1)
      BY <1>7
    <2>8. Merged(N, list, t + 1)
      BY <1>a, <2>3, <2>6, <2>7 DEF Merged
    <2>9. QED
      BY <1>2, <2>1, <2>8
  <1>8. CASE t > 0
    <2> DEFINE merged == bitonic_merge(list, 0, 2 * tile_size, FALSE)
    <2>1. data' = merged /\ base_idx = 0 /\ Merged(N, data, t)
      BY <1>2, <1>6, <1>8
    <2>2. merged = bitonic_merge(Ordered(Received(tile)), 0, 2 * tile_size, FALSE)
      BY DEF list
    <2> HIDE DEF list, merged
    <2>3. /\ data \in [0..2 * N - 1 -> Cells] /\ CellsOf(data) \subseteq SentCells(t)
          /\ CellsOf(data) \subseteq Came
          /\ Sorts(Came) => InDirection(data, N, N, FALSE)
          /\ Sorts(Came) /\ Largest => InDirection(data, 0, 2 * N, FALSE)
          /\ Cardinality(Kept(data)) <= Cardinality(Sent(t))
          /\ Largest /\ Fit(N) => CellsOf(data) = SentCells(t)
      BY <1>5, <2>1 DEF Merged
    <2>4. /\ merged \in [0..2 * N - 1 -> Cells]
          /\ Sorts(Came) => InDirection(merged, 0, 2 * N, FALSE)
          /\ Joined(data, tile, merged, ~(Kept(data) \subseteq N..2 * N - 1))
      BY <1>1, <1>3, <1>4, <1>5, <1>a, <2>1, <2>2, <2>3, LaterTile
    <2>5. /\ Cardinality(Kept(data)) \in Nat /\ Cardinality(Kept(tile)) \in Nat
          /\ Cardinality(Kept(merged)) \in Nat
      <3>1. DOMAIN data = 0..2 * N - 1 /\ DOMAIN tile = 0..N - 1 /\ DOMAIN merged = 0..2 * N - 1 /\ 2 * N \in Nat
        BY <1>1, <1>3, <2>3, <2>4
      <3>2. QED
        BY <1>1, <3>1, KeptFinite
    <2>6. Cardinality(Kept(merged)) <= Cardinality(Sent(t + 1))
      <3>1. Cardinality(Kept(merged)) <= Cardinality(Kept(tile)) + Cardinality(Kept(data))
        BY <2>4 DEF Joined
      <3>2. QED
        BY <1>5, <2>3, <2>5, <3>1
    <2>7. ASSUME Largest, Fit(N) PROVE CellsOf(merged) = SentCells(t + 1)
      <3>1. Cardinality(Kept(data)) <= N
        BY <1>1, <1>5, <2>3, <2>5, <2>7 DEF Fit
      <3>2. \A c \in 0..2 * N - 1 : geq(none, data[c])
        <4>1. \A c \in 0..2 * N - 1 : data[c] \in Came
          BY <1>a, <2>3 DEF CellsOf, Kept
        <4>2. QED
          BY <1>a, <2>7, <4>1 DEF NoneLargest
      <3>3. Kept(data) \subseteq N..2 * N - 1
        BY <1>a, <2>3, <2>7, <3>1, <3>2, KeptLast
      <3>4. CellsOf(merged) = CellsOf(tile) \cup CellsOf(data)
        BY <2>4, <3>3 DEF Joined
      <3>5. QED
        BY <1>5, <2>3, <2>7, <3>4
    <2>8. CellsOf(merged) \subseteq SentCells(t + 1)
      BY <1>5, <2>3, <2>4 DEF Joined
    <2>9. Sorts(Came) => InDirection(merged, N, N, FALSE)
      BY <1>1, <2>4 DEF InDirection, Window
    <2>10. Merged(N, merged, t + 1)
      BY <2>4, <2>6, <2>7, <2>8, <2>9 DEF Merged
    <2>11. QED
      BY <1>2, <2>1, <2>10
  <1>9. QED
    BY <1>2, <1>7, <1>8

LEMMA ReceiveKeeps ==
  ASSUME ReducerInv, Receive
  PROVE  ReducerInv'
  <1>1. PICK N \in Nat : Tiles(N) /\ Filled(N)
    BY DEF ReducerInv
  <1>2. level \in {"L1", "L2"} /\ UNCHANGED <<level, tiles>> /\ t' = t + 1 /\ base_idx' = 0
    BY DEF ReducerInv, Receive, NextBase
  <1>3. t \in 0..n_tiles - 1 /\ Merged(N, data', t + 1)
    BY <1>1, <1>2, TileMerged
  <1>4. /\ n_tiles' = n_tiles /\ n_tiles \in Nat \ {0} /\ (Fit(N)' <=> Fit(N)) /\ N \in Nat \ {0}
        /\ Sent(t)' = Sent(t + 1) /\ SentCells(t)' = SentCells(t + 1) /\ Tiles(N)'
        /\ Came' = Came /\ (Largest' <=> Largest)
    <2>1. Sent(t)' = Sent(t + 1)
      BY <1>2, TilesStay DEF Sent
    <2>2. SentCells(t)' = SentCells(t + 1)
      BY <1>2, <2>1 DEF SentCells
    <2>3. QED
      BY <1>1, <1>2, <2>1, <2>2, TileFacts, TilesStay DEF Tiles
  <1>5. Merged(N, data, t)'
    BY <1>2, <1>3, <1>4 DEF Merged, CellsOf, Kept, Sorts, InDirection
  <1>6. pc' = IF t + 1 < n_tiles THEN "receive" ELSE "reduce"
    BY <1>2 DEF Receive
  <1>7. CASE t + 1 < n_tiles
    <2>1. pc' = "receive" /\ t' \in 0..n_tiles - 1 /\ t' > 0
      BY <1>2, <1>3, <1>4, <1>6, <1>7
    <2>2. Filled(N)'
      BY <1>2, <1>4, <1>5, <2>1 DEF Filled
    <2>3. QED
      BY <1>2, <1>4, <2>2 DEF ReducerInv
  <1>8. CASE ~(t + 1 < n_tiles)
    <2>1. pc' = "reduce" /\ t' = n_tiles
      BY <1>2, <1>3, <1>4, <1>6, <1>8
    <2>2. Merged(N, data, n_tiles)'
      BY <1>4, <1>5, <2>1 DEF Merged, Sent, SentCells
    <2>3. Inv'
      <3>1. 2 * N \in Nat \ {0, 1}
        BY <1>4
      <3>2. ListInv'
        BY <1>3, <3>1 DEF ListInv, Merged
      <3>3. QED
        BY <2>1, <3>2 DEF Inv, IInv, LoopInv, OrderKept, Compacting
    <2>4. Filled(N)'
      BY <1>4, <2>1, <2>2, <2>3 DEF Filled
    <2>5. QED
      BY <1>2, <1>4, <2>4 DEF ReducerInv
  <1>9. QED
    BY <1>7, <1>8

LEMMA ListenKeeps ==
  ASSUME ReducerInv, Listen
  PROVE  ReducerInv'
  <1>1. PICK N \in Nat : Tiles(N) /\ Filled(N)
    BY DEF ReducerInv
  <1>2. /\ level \in {"L1", "L2"} /\ UNCHANGED <<level, tiles>> /\ pc' = "receive"
        /\ t' = 0 /\ base_idx' = N /\ data' = [c \in 0..2 * N - 1 |-> none]
    BY <1>1, TileFacts DEF ReducerInv, Listen
  <1>3. Tiles(N)' /\ n_tiles' \in Nat \ {0}
    BY <1>1, <1>2, TileFacts, TilesStay
  <1>4. Filled(N)'
    <2>1. t' \in 0..n_tiles' - 1 /\ ~(t' > 0)
      <3>1. \A x, y : x = 0 /\ y \in Nat \ {0} => x \in 0..y - 1 /\ ~(x > 0)
        OBVIOUS
      <3>2. QED
        BY <1>2, <1>3, <3>1, Zenon
    <2>2. QED
      BY <1>2, <2>1 DEF Filled
  <1>5. QED
    BY <1>2, <1>3, <1>4 DEF ReducerInv

LEMMA ReduceKeeps ==
  ASSUME ReducerInv, Reduce
  PROVE  ReducerInv'
  <1>1. PICK N \in Nat : Tiles(N) /\ Filled(N)
    BY DEF ReducerInv
  <1>2. level \in {"L1", "L2"} /\ UNCHANGED <<level, tiles, t>> /\ N \in Nat \ {0}
    BY <1>1 DEF ReducerInv, Reduce, Tiles
  <1>3. /\ Tiles(N)' /\ n_tiles' = n_tiles /\ (Fit(N)' <=> Fit(N))
        /\ SentCells(n_tiles)' = SentCells(n_tiles)
        /\ (Sorts(Came)' <=> Sorts(Came)) /\ (Largest' <=> Largest)
    <2>1. n_tiles' = n_tiles /\ Sent(n_tiles)' = Sent(n_tiles)
      BY <1>2, TilesStay DEF Sent
    <2>2. SentCells(n_tiles)' = SentCells(n_tiles)
      BY <1>2, <2>1 DEF SentCells
    <2>3. Sorts(Came)' <=> Sorts(Came)
      BY <1>2, TilesStay DEF Sorts
    <2>4. QED
      BY <1>1, <1>2, <2>1, <2>2, <2>3, TilesStay
  <1>4. CASE MarkDuplicates
    <2>1. /\ pc = "reduce" /\ pc' = "loop" /\ marked' = Marked(data) /\ t = n_tiles /\ Inv
          /\ Merged(N, data, n_tiles)
      BY <1>1, <1>4 DEF MarkDuplicates, Filled
    <2>2. Inv'
      BY <1>4, <2>1, MarkKeeps
    <2>3. data \in [0..2 * N - 1 -> Cells] /\ 2 * N \in Nat \ {0, 1} /\ n_tiles > 1
      BY <1>1, <1>2, <2>1 DEF Merged, Tiles, n_tiles
    <2>4. (Sorts(Came) => Once(marked')) /\ CellsOf(marked') = CellsOf(data)
      BY <2>1, <2>3, MarkedOnce DEF Merged
    <2>5. DOMAIN marked' = 0..2 * N - 1
      <3>1. Size(data) = 2 * N
        BY <2>3, Sized
      <3>2. QED
        BY <2>1, <3>1 DEF Marked
    <2>6. Filled(N)'
      BY <1>2, <1>3, <2>1, <2>2, <2>4, <2>5 DEF Filled, Merged, Once, CellsOf, Kept
    <2>7. QED
      BY <1>2, <1>3, <2>6 DEF ReducerInv
  <1>5. CASE CompactStep
    <2>1. /\ pc = "loop" /\ pc' \in {"loop", "done"} /\ UNCHANGED marked /\ t = n_tiles /\ Inv
          /\ DOMAIN marked = 0..2 * N - 1 /\ CellsOf(marked) \subseteq SentCells(n_tiles)
          /\ Sorts(Came) => Once(marked)
          /\ Largest /\ Fit(N) => CellsOf(marked) = SentCells(n_tiles)
      BY <1>1, <1>5 DEF CompactStep, NextCell, Filled
    <2>2. Inv'
      BY <1>5, <2>1, CompactKeeps
    <2>3. (Once(marked)' <=> Once(marked)) /\ CellsOf(marked)' = CellsOf(marked)
      BY <2>1 DEF Once, CellsOf, Kept
    <2>4. Filled(N)'
      BY <1>2, <1>3, <2>1, <2>2, <2>3 DEF Filled
    <2>5. QED
      BY <1>2, <1>3, <2>4 DEF ReducerInv
  <1>6. QED
    BY <1>4, <1>5 DEF Reduce

LEMMA ReducerStays ==
  ASSUME ReducerInv, UNCHANGED rvars
  PROVE  ReducerInv'
  <1>1. PICK N \in Nat : Tiles(N) /\ Filled(N)
    BY DEF ReducerInv
  <1>2. /\ level \in {"L1", "L2"} /\ UNCHANGED <<level, tiles>> /\ UNCHANGED <<marked, data, distance, i, j, pc>>
        /\ UNCHANGED <<t, base_idx>>
    BY DEF ReducerInv, rvars
  <1>3. /\ Tiles(N)' /\ n_tiles' = n_tiles /\ (Fit(N)' <=> Fit(N))
        /\ Sent(n_tiles)' = Sent(n_tiles) /\ Sent(t)' = Sent(t)
        /\ Came' = Came /\ (Largest' <=> Largest)
    BY <1>1, <1>2, TilesStay DEF Sent
  <1>a. Sorts(Came)' <=> Sorts(Came)
    BY <1>3 DEF Sorts
  <1>4. SentCells(n_tiles)' = SentCells(n_tiles) /\ SentCells(t)' = SentCells(t)
    BY <1>2, <1>3 DEF SentCells
  <1>5. Inv => Inv'
    BY <1>2, InvStays
  <1>6. Merged(N, data, t)' <=> Merged(N, data, t)
    BY <1>2, <1>3, <1>4, <1>a DEF Merged, CellsOf, Kept, InDirection
  <1>7. Merged(N, data, n_tiles)' <=> Merged(N, data, n_tiles)
    BY <1>2, <1>3, <1>4, <1>a DEF Merged, CellsOf, Kept, InDirection
  <1>8. (Once(marked)' <=> Once(marked)) /\ CellsOf(marked)' = CellsOf(marked)
    BY <1>2 DEF Once, CellsOf, Kept
  <1>9. Filled(N)'
    BY <1>1, <1>2, <1>3, <1>4, <1>5, <1>6, <1>7, <1>8, <1>a DEF Filled
  <1>10. QED
    BY <1>2, <1>3, <1>9 DEF ReducerInv

LEMMA ReducerInductive == ReducerSpec => []ReducerInv
  <1>1. ReducerInit => ReducerInv
    BY DEF ReducerInit, ReducerInv, Filled
  <1>2. ReducerInv /\ [ReducerNext]_rvars => ReducerInv'
    BY ListenKeeps, ReceiveKeeps, ReduceKeeps, ReducerStays DEF ReducerNext
  <1>3. QED
    BY <1>1, <1>2, PTL DEF ReducerSpec

\* Whatever the size, the number and the cells of the tiles: if emp's comparison is an
\* order of these, the whole list is in descending order after every merge.
THEOREM MergedInOrderAlways == ReducerSpec => []MergedInOrder
  <1>1. ReducerInv => MergedInOrder
    <2> SUFFICES ASSUME ReducerInv, t > 1, pc \in {"receive", "reduce"}, Sorts(Came),
                        NEW c \in 0..(2 * tile_size - 1) - 1
                 PROVE  geq(data[c], data[c + 1])
      BY DEF MergedInOrder, Descending, Came
    <2>1. PICK N \in Nat : Tiles(N) /\ Filled(N)
      BY DEF ReducerInv
    <2>2. tile_size = N
      BY <2>1, TileFacts
    <2>3. InDirection(data, 0, 2 * N, FALSE)
      <3>1. CASE pc = "receive"
        <4>1. t > 0
          <5>1. t \in Int
            BY <2>1, <3>1, TileFacts DEF Filled
          <5>2. QED
            BY <5>1
        <4>2. QED
          BY <2>1, <3>1, <4>1 DEF Filled, Merged
      <3>2. CASE pc = "reduce"
        BY <2>1, <3>2 DEF Filled, Merged
      <3>3. QED
        BY <3>1, <3>2
    <2>4. c \in 0..2 * N - 1 /\ c + 1 \in 0..2 * N - 1 /\ c < c + 1
      BY <2>2
    <2>5. QED
      BY <2>3, <2>4 DEF InDirection, Window
  <1>2. QED
    BY ReducerInductive, <1>1, PTL

\* Whatever the size, the number and the cells of the tiles: the output has nothing that
\* no tile has; it has nothing twice, if emp's comparison is an order of the cells; and
\* it has all of them, in front, if none is the largest and they fit into one tile.
THEOREM NothingLostAlways == ReducerSpec => []NothingLost
  <1>1. ReducerInv => NothingLost
    <2> DEFINE sent == SentCells(n_tiles)
    <2> SUFFICES ASSUME ReducerInv, pc = "done"
                 PROVE  /\ CellsOf(data) \subseteq sent
                        /\ Sorts(Came) => Once(data)
                        /\ Largest /\ Cardinality(Sent(n_tiles)) <= tile_size =>
                              CellsOf(data) = sent /\ \A c \in Kept(data) : c < Cardinality(sent)
      BY DEF NothingLost, Came, Largest
    <2>1. PICK N \in Nat : Tiles(N) /\ Filled(N)
      BY DEF ReducerInv
    <2>2. tile_size = N /\ (Largest => Sorts(Came))
      BY <2>1, TileFacts, LargestSorts DEF Largest
    <2>3. /\ Inv /\ DOMAIN marked = 0..2 * N - 1 /\ CellsOf(marked) \subseteq sent
          /\ Sorts(Came) => Once(marked)
          /\ Largest /\ Fit(N) => CellsOf(marked) = sent
      BY <2>1 DEF Filled
    <2>4. data = Compacted(marked)
      BY <2>3, Placed DEF Compact
    <2>5. 2 * N \in Nat
      OBVIOUS
    <2>6. /\ CellsOf(Compacted(marked)) = CellsOf(marked)
          /\ Once(marked) => /\ Once(Compacted(marked))
                             /\ \A c \in Kept(Compacted(marked)) : c < Cardinality(CellsOf(marked))
      BY <2>3, <2>5, CompactedOnce
    <2> HIDE DEF sent
    <2>7. QED
      BY <2>2, <2>3, <2>4, <2>6 DEF Fit
  <1>2. QED
    BY ReducerInductive, <1>1, PTL
=============================================================================
