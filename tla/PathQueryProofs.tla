-------------------------- MODULE PathQueryProofs --------------------------
(***************************************************************************)
(* Proofs about PathQuery, for all histories of meetings, lists of devices, *)
(* shuffles, orders of the hashes and positions in the Bloom filters.       *)
(*                                                                          *)
(* First the store: the bisection finds a key exactly when the sorted array *)
(* has it, and the layers that two shuffles put on its data come off in the *)
(* order of decrypt_path_encounter().  Then IInv, the invariant of the two  *)
(* walks, and what follows for contact(); then FlowInv, which says what     *)
(* flow() has listed and whom it has passed something on to.                *)
(***************************************************************************)
EXTENDS PathQuery, FiniteSetTheorems, SequenceTheorems, WellFoundedInduction, TLAPS

\* Every set of natural numbers that is not empty has a least element.
LEMMA Least ==
  ASSUME NEW S, S \subseteq Nat, S # {}
  PROVE  \E n \in S : \A m \in S : n <= m
  <1>1. PICK n \in S : \A m \in S : ~(<<m, n>> \in OpToRel(<, Nat))
    BY NatLessThanWellFounded, WFMin, Zenon
  <1>2. \A m \in S : ~(m < n)
    BY <1>1 DEF OpToRel
  <1>3. QED
    BY <1>2

Ranges(count) == (0..count) \X (0..count)

\* One guess of the bisection, with what it finds in smaller ranges.
Guess(salt, array, key, search, range) ==
    LET min == range[1]
        max == range[2]
        guess == min + ((max - min) \div 2)
    IN  IF min + 1 >= max THEN NotFound
        ELSE IF array[guess].key = key THEN guess
        ELSE search[IF compareHash(salt, array[guess].key, key) THEN <<min, guess>>
                    ELSE <<guess, max>>]

IsSearch(salt, array, key, search) ==
    LET count == Cardinality(DOMAIN array) IN
    search = [range \in Ranges(count) |-> Guess(salt, array, key, search, range)]

\* There is such a search: if there is one that is right for all ranges that are
\* shorter than n, a guess with its help is right for those of length n.
LEMMA SearchExists ==
  ASSUME NEW salt, NEW array, NEW key, Cardinality(DOMAIN array) \in Nat
  PROVE  \E search : IsSearch(salt, array, key, search)
  <1> DEFINE count == Cardinality(DOMAIN array)
             Right(search, n) == \A range \in Ranges(count) :
                 range[2] - range[1] <= n => search[range] = Guess(salt, array, key, search, range)
             Short(search, n) == search = [range \in Ranges(count) |-> search[range]] /\ Right(search, n)
             Bad == {n \in Nat : ~\E search : Short(search, n)}
  <1> HIDE DEF count
  <1>0. count \in Nat
    BY DEF count
  <1>1. ASSUME Bad # {} PROVE FALSE
    <2>1. PICK n \in Bad : \A m \in Bad : n <= m
      BY <1>1, Least
    <2>2. CASE n = 0
      <3> DEFINE search == [range \in Ranges(count) |-> NotFound]
      <3>1. ASSUME NEW range \in Ranges(count), range[2] - range[1] <= 0
            PROVE  search[range] = Guess(salt, array, key, search, range)
        BY <1>0, <3>1 DEF Ranges, Guess
      <3>2. Short(search, n)
        BY <2>2, <3>1
      <3>3. QED
        BY <2>1, <3>2
    <2>3. CASE n # 0
      <3>1. n - 1 \in Nat /\ n - 1 \notin Bad
        BY <2>1, <2>3
      <3>2. PICK search : Short(search, n - 1)
        BY <3>1
      <3> DEFINE longer == [range \in Ranges(count) |-> Guess(salt, array, key, search, range)]
      <3>3. ASSUME NEW range \in Ranges(count), range[2] - range[1] <= n
            PROVE  longer[range] = Guess(salt, array, key, longer, range)
        <4> DEFINE min == range[1]
                   max == range[2]
                   guess == min + ((max - min) \div 2)
                   next == IF compareHash(salt, array[guess].key, key) THEN <<min, guess>>
                           ELSE <<guess, max>>
        <4>1. longer[range] = Guess(salt, array, key, search, range)
          OBVIOUS
        <4>2. CASE min + 1 >= max \/ array[guess].key = key
          BY <4>1, <4>2 DEF Guess
        <4>3. CASE ~(min + 1 >= max) /\ array[guess].key # key
          <5>1. min \in 0..count /\ max \in 0..count
            BY DEF Ranges
          <5>2. guess \in 0..count /\ min < guess /\ guess < max
            BY <1>0, <4>3, <5>1
          <5>3. next \in Ranges(count) /\ next[2] - next[1] <= n - 1
            <6> HIDE DEF guess, min, max
            <6>1. <<min, guess>> \in Ranges(count) /\ <<guess, max>> \in Ranges(count)
              BY <5>1, <5>2 DEF Ranges
            <6>2. max - min <= n
              BY <3>3 DEF min, max
            <6>3. guess - min <= n - 1 /\ max - guess <= n - 1
              BY <1>0, <2>1, <5>1, <5>2, <6>2
            <6>4. QED
              BY <6>1, <6>3
          <5>4. longer[next] = search[next]
            BY <3>2, <5>3
          <5>5. Guess(salt, array, key, search, range) = search[next]
            BY <4>3 DEF Guess
          <5>6. Guess(salt, array, key, longer, range) = longer[next]
            BY <4>3 DEF Guess
          <5>7. QED
            BY <4>1, <5>4, <5>5, <5>6
        <4>4. QED
          BY <4>2, <4>3
      <3>4. longer = [range \in Ranges(count) |-> longer[range]]
        OBVIOUS
      <3>5. Short(longer, n)
        BY <3>3, <3>4
      <3>6. QED
        BY <2>1, <3>5
    <2>4. QED
      BY <2>2, <2>3
  <1>2. PICK search : Short(search, count)
    BY <1>0, <1>1
  <1>3. \A range \in Ranges(count) : range[2] - range[1] <= count
    BY <1>0 DEF Ranges
  <1>4. \A range \in Ranges(count) : search[range] = Guess(salt, array, key, search, range)
    BY <1>2, <1>3
  <1>5. search = [range \in Ranges(count) |-> Guess(salt, array, key, search, range)]
    BY <1>2, <1>4
  <1>6. QED
    BY <1>5 DEF IsSearch, count

LEMMA BisectionIsSearch ==
  ASSUME NEW salt, NEW array, NEW key, Cardinality(DOMAIN array) \in Nat
  PROVE  \E search : /\ IsSearch(salt, array, key, search)
                     /\ Bisection(salt, array, key) = search[<<0, Cardinality(DOMAIN array)>>]
  <1> DEFINE search == CHOOSE f : IsSearch(salt, array, key, f)
  <1>1. IsSearch(salt, array, key, search)
    BY SearchExists
  <1>2. Bisection(salt, array, key) = search[<<0, Cardinality(DOMAIN array)>>]
    BY DEF Bisection, Guess, IsSearch, Ranges
  <1>3. QED
    BY <1>1, <1>2

KeyAt(array, place) == array[place].key

\* What is found has the key.
LEMMA SearchFindsTheKey ==
  ASSUME NEW salt, NEW array, NEW key, NEW count \in Nat, count = Cardinality(DOMAIN array),
         NEW search, IsSearch(salt, array, key, search),
         NEW range \in Ranges(count), search[range] # NotFound
  PROVE  search[range] \in 0..count - 1 /\ KeyAt(array, search[range]) = key
  <1> DEFINE Right(r) == search[r] # NotFound => search[r] \in 0..count - 1 /\ KeyAt(array, search[r]) = key
             Bad == {n \in Nat : \E r \in Ranges(count) : r[2] - r[1] <= n /\ ~Right(r)}
  <1>2. \A r \in Ranges(count) : search[r] = Guess(salt, array, key, search, r)
    BY DEF IsSearch
  <1>3. ASSUME Bad # {} PROVE FALSE
    <2>1. PICK n \in Bad : \A m \in Bad : n <= m
      BY <1>3, Least
    <2>2. PICK r \in Ranges(count) : r[2] - r[1] <= n /\ ~Right(r)
      BY <2>1
    <2> DEFINE min == r[1]
               max == r[2]
               guess == min + ((max - min) \div 2)
               next == IF compareHash(salt, KeyAt(array, guess), key) THEN <<min, guess>>
                       ELSE <<guess, max>>
    <2>3. min \in 0..count /\ max \in 0..count
      BY DEF Ranges
    <2>4. search[r] = Guess(salt, array, key, search, r)
      BY <1>2
    <2>5. ~(min + 1 >= max)
      BY <2>2, <2>4 DEF Guess, KeyAt
    <2>6. guess \in 0..count - 1 /\ min < guess /\ guess < max
      BY <2>3, <2>5
    <2>7. KeyAt(array, guess) # key
      BY <2>2, <2>4, <2>5, <2>6 DEF Guess, KeyAt
    <2>8. search[r] = search[next]
      BY <2>4, <2>5, <2>7 DEF Guess, KeyAt
    <2>9. next \in Ranges(count) /\ n - 1 \in Nat /\ next[2] - next[1] <= n - 1
      <3>1. max - min <= n /\ n \in Nat
        BY <2>1, <2>2
      <3> HIDE DEF guess, min, max
      <3>2. <<min, guess>> \in Ranges(count) /\ <<guess, max>> \in Ranges(count)
        BY <2>3, <2>6 DEF Ranges
      <3>3. guess - min <= n - 1 /\ max - guess <= n - 1 /\ n - 1 \in Nat
        BY <2>3, <2>6, <3>1
      <3>4. QED
        BY <3>2, <3>3
    <2>10. ~Right(next)
      BY <2>2, <2>8
    <2>11. n - 1 \in Bad
      BY <2>9, <2>10
    <2>12. QED
      BY <2>1, <2>9, <2>11
  <1>4. \A r \in Ranges(count) : r[2] - r[1] <= count
    BY DEF Ranges
  <1>5. \A r \in Ranges(count) : Right(r)
    BY <1>3, <1>4
  <1>6. QED
    BY <1>5

\* The array is in the order of the hashes.
InOrder(salt, array, count) ==
    /\ DOMAIN array = 0..count - 1
    /\ \A c1, c2 \in DOMAIN array :
        c1 < c2 => /\ compareHash(salt, KeyAt(array, c2), KeyAt(array, c1))
                   /\ ~compareHash(salt, KeyAt(array, c1), KeyAt(array, c2))
                   /\ KeyAt(array, c1) # KeyAt(array, c2)

Inside(place, range) == range[1] < place /\ place < range[2]

\* Between the ends of a range, the key is found where it is.
LEMMA SearchFindsThePlace ==
  ASSUME NEW salt, NEW array, NEW key, NEW count \in Nat, count = Cardinality(DOMAIN array),
         InOrder(salt, array, count),
         NEW search, IsSearch(salt, array, key, search),
         NEW place \in 0..count - 1, KeyAt(array, place) = key,
         NEW range \in Ranges(count), Inside(place, range)
  PROVE  search[range] = place
  <1> DEFINE Right(r) == Inside(place, r) => search[r] = place
             Bad == {n \in Nat : \E r \in Ranges(count) : r[2] - r[1] <= n /\ ~Right(r)}
  <1>2. \A r \in Ranges(count) : search[r] = Guess(salt, array, key, search, r)
    BY DEF IsSearch
  <1>3. ASSUME Bad # {} PROVE FALSE
    <2>1. PICK n \in Bad : \A m \in Bad : n <= m
      BY <1>3, Least
    <2>2. PICK r \in Ranges(count) : r[2] - r[1] <= n /\ ~Right(r)
      BY <2>1
    <2> DEFINE min == r[1]
               max == r[2]
               guess == min + ((max - min) \div 2)
               next == IF compareHash(salt, KeyAt(array, guess), key) THEN <<min, guess>>
                       ELSE <<guess, max>>
    <2>3. min \in 0..count /\ max \in 0..count /\ min < place /\ place < max /\ search[r] # place
      BY <2>2 DEF Ranges, Inside
    <2>4. search[r] = Guess(salt, array, key, search, r)
      BY <1>2
    <2>5. ~(min + 1 >= max)
      BY <2>3
    <2>6. guess \in 0..count - 1 /\ min < guess /\ guess < max
      BY <2>3, <2>5
    <2>7. guess # place /\ KeyAt(array, guess) # key
      <3>1. KeyAt(array, guess) = key => guess = place
        <4> HIDE DEF guess
        <4>1. guess \in DOMAIN array /\ place \in DOMAIN array
          BY <2>6 DEF InOrder
        <4>2. QED
          BY <2>6, <4>1 DEF InOrder
      <3>2. KeyAt(array, guess) = key => search[r] = guess
        BY <2>4, <2>5 DEF Guess, KeyAt
      <3>3. QED
        BY <2>3, <3>1, <3>2
    <2>8. search[r] = search[next]
      BY <2>4, <2>5, <2>7 DEF Guess, KeyAt
    <2>9. next \in Ranges(count) /\ n - 1 \in Nat /\ next[2] - next[1] <= n - 1
          /\ Inside(place, next)
      <3>1. max - min <= n /\ n \in Nat
        BY <2>1, <2>2
      <3> HIDE DEF guess, min, max
      <3>2. <<min, guess>> \in Ranges(count) /\ <<guess, max>> \in Ranges(count)
        BY <2>3, <2>6 DEF Ranges
      <3>3. guess - min <= n - 1 /\ max - guess <= n - 1 /\ n - 1 \in Nat
        BY <2>3, <2>6, <3>1
      <3>4. CASE guess < place
        <4>1. ~compareHash(salt, KeyAt(array, guess), key)
          BY <2>6, <3>4 DEF InOrder
        <4>2. QED
          BY <2>3, <3>2, <3>3, <3>4, <4>1 DEF Inside
      <3>5. CASE place < guess
        <4>1. compareHash(salt, KeyAt(array, guess), key)
          BY <2>6, <3>5 DEF InOrder
        <4>2. QED
          BY <2>3, <3>2, <3>3, <3>5, <4>1 DEF Inside
      <3>6. QED
        BY <2>3, <2>6, <2>7, <3>4, <3>5
    <2>10. ~Right(next)
      BY <2>3, <2>8, <2>9
    <2>11. n - 1 \in Bad
      BY <2>9, <2>10
    <2>12. QED
      BY <2>1, <2>9, <2>11
  <1>4. \A r \in Ranges(count) : r[2] - r[1] <= count
    BY DEF Ranges
  <1>5. \A r \in Ranges(count) : Right(r)
    BY <1>3, <1>4
  <1>6. QED
    BY <1>5

LEMMA FoundHasTheKey ==
  ASSUME NEW salt, NEW array, NEW key, NEW count \in Nat, DOMAIN array = 0..count - 1,
         fetch_stored_path_encounter(salt, array, key) # NotFound
  PROVE  /\ fetch_stored_path_encounter(salt, array, key) \in DOMAIN array
         /\ KeyAt(array, fetch_stored_path_encounter(salt, array, key)) = key
  <1>1. Cardinality(DOMAIN array) = count
    BY FS_Interval
  <1>2. CASE DOMAIN array # {} /\ KeyAt(array, 0) = key
    BY <1>2 DEF fetch_stored_path_encounter, KeyAt
  <1>3. CASE ~(DOMAIN array # {} /\ KeyAt(array, 0) = key)
    <2>1. PICK search : /\ IsSearch(salt, array, key, search)
                        /\ Bisection(salt, array, key) = search[<<0, count>>]
      BY <1>1, BisectionIsSearch
    <2>2. fetch_stored_path_encounter(salt, array, key) = search[<<0, count>>]
      BY <1>3, <2>1 DEF fetch_stored_path_encounter, KeyAt
    <2>3. <<0, count>> \in Ranges(count)
      BY DEF Ranges
    <2>4. \A range \in Ranges(count) : search[range] # NotFound =>
             search[range] \in 0..count - 1 /\ KeyAt(array, search[range]) = key
      BY <1>1, <2>1, SearchFindsTheKey
    <2>5. QED
      BY <2>2, <2>3, <2>4
  <1>4. QED
    BY <1>2, <1>3

LEMMA KeyIsFound ==
  ASSUME NEW salt, NEW array, NEW key, NEW count \in Nat, InOrder(salt, array, count),
         NEW place \in 0..count - 1, KeyAt(array, place) = key
  PROVE  fetch_stored_path_encounter(salt, array, key) = place
  <1>1. Cardinality(DOMAIN array) = count
    BY FS_Interval DEF InOrder
  <1>2. CASE KeyAt(array, 0) = key
    <2>1. 0 \in DOMAIN array
      BY DEF InOrder
    <2>2. place = 0
      BY <1>2, <2>1 DEF InOrder
    <2>3. QED
      BY <1>2, <2>1, <2>2 DEF fetch_stored_path_encounter, KeyAt
  <1>3. CASE KeyAt(array, 0) # key
    <2>1. place \in 0..count - 1 /\ 0 < place
      BY <1>3 DEF InOrder
    <2>2. PICK search : /\ IsSearch(salt, array, key, search)
                        /\ Bisection(salt, array, key) = search[<<0, count>>]
      BY <1>1, BisectionIsSearch
    <2>3. <<0, count>> \in Ranges(count)
      BY DEF Ranges
    <2>4. search[<<0, count>>] = place
      <3>1. \A range \in Ranges(count) : Inside(place, range) => search[range] = place
        <4>1. IsSearch(salt, array, key, search)
          BY <2>2
        <4>2. QED
          BY <1>1, <4>1, SearchFindsThePlace
      <3>2. QED
        BY <2>1, <2>3, <3>1 DEF Inside
    <2>5. QED
      BY <1>3, <2>2, <2>4 DEF fetch_stored_path_encounter, KeyAt
  <1>4. QED
    BY <1>2, <1>3

-----------------------------------------------------------------------------
(* RIGHT's array.                                                            *)

UniqueKeys(array) == \A a, b \in array : a.key = b.key => a = b

Lower(salt, array, a) == {b \in array : compareHash(salt, a.key, b.key)}

\* The hashes of the keys are different numbers.
Hashed(salt, array) ==
    \A a, b \in array : /\ Hash(salt, a.key) \in Int
                        /\ Hash(salt, a.key) = Hash(salt, b.key) => a = b

LEMMA LowerIsOrder ==
  ASSUME NEW salt, NEW array, IsFiniteSet(array), Hashed(salt, array)
  PROVE  /\ \A a \in array : Cardinality(Lower(salt, array, a)) \in 0..Cardinality(array) - 1
         /\ \A a, b \in array : compareHash(salt, a.key, b.key) =>
               Cardinality(Lower(salt, array, b)) < Cardinality(Lower(salt, array, a))
  <1>1. Cardinality(array) \in Nat
    BY FS_CardinalityType
  <1>2. \A a \in array : IsFiniteSet(Lower(salt, array, a)) /\ Cardinality(Lower(salt, array, a)) \in Nat
    BY FS_Subset, FS_CardinalityType DEF Lower
  <1>3. \A a, b \in array : compareHash(salt, a.key, b.key) <=> Hash(salt, a.key) > Hash(salt, b.key)
    BY DEF compareHash
  <1>4. ASSUME NEW a \in array
        PROVE  Cardinality(Lower(salt, array, a)) \in 0..Cardinality(array) - 1
    <2>1. Lower(salt, array, a) \subseteq array \ {a}
      BY <1>3 DEF Lower, Hashed
    <2>2. IsFiniteSet(array \ {a}) /\ Cardinality(array \ {a}) = Cardinality(array) - 1
      BY FS_RemoveElement
    <2>3. Cardinality(Lower(salt, array, a)) <= Cardinality(array) - 1
      BY <2>1, <2>2, FS_Subset
    <2>4. QED
      BY <1>1, <1>2, <2>3
  <1>5. ASSUME NEW a \in array, NEW b \in array, compareHash(salt, a.key, b.key)
        PROVE  Cardinality(Lower(salt, array, b)) < Cardinality(Lower(salt, array, a))
    <2>1. Lower(salt, array, b) \cup {b} \subseteq Lower(salt, array, a) /\ b \notin Lower(salt, array, b)
      <3>1. b \in Lower(salt, array, a)
        BY <1>5 DEF Lower
      <3>2. b \notin Lower(salt, array, b)
        BY <1>3 DEF Lower, Hashed
      <3>3. ASSUME NEW c \in Lower(salt, array, b) PROVE c \in Lower(salt, array, a)
        <4>1. c \in array /\ Hash(salt, b.key) > Hash(salt, c.key) /\ Hash(salt, a.key) > Hash(salt, b.key)
          BY <1>3, <1>5, <3>3 DEF Lower
        <4>2. Hash(salt, a.key) \in Int /\ Hash(salt, b.key) \in Int /\ Hash(salt, c.key) \in Int
          BY <4>1 DEF Hashed
        <4>3. compareHash(salt, a.key, c.key)
          BY <1>3, <4>1, <4>2
        <4>4. QED
          BY <4>1, <4>3 DEF Lower
      <3>4. QED
        BY <3>1, <3>2, <3>3
    <2>2. Cardinality(Lower(salt, array, b) \cup {b}) = Cardinality(Lower(salt, array, b)) + 1
      BY <1>2, <2>1, FS_AddElement
    <2>3. Cardinality(Lower(salt, array, b) \cup {b}) <= Cardinality(Lower(salt, array, a))
      BY <1>2, <2>1, FS_Subset
    <2>4. QED
      BY <1>2, <2>2, <2>3
  <1>6. QED
    BY <1>4, <1>5

\* sort() puts every entry at one place, in the order of the hashes.
LEMMA Sorts ==
  ASSUME NEW salt, NEW array, IsFiniteSet(array), Hashed(salt, array)
  PROVE  /\ InOrder(salt, sort(salt, array), Cardinality(array))
         /\ \A place \in DOMAIN sort(salt, array) : sort(salt, array)[place] \in array
         /\ \A a \in array : \E place \in DOMAIN sort(salt, array) : sort(salt, array)[place] = a
  <1> DEFINE rank == [a \in array |-> Cardinality(Lower(salt, array, a))]
             n == Cardinality(array)
             sorted == sort(salt, array)
  <1>1. n \in Nat
    BY FS_CardinalityType
  <1>2. \A a \in array : rank[a] \in 0..n - 1
    BY LowerIsOrder
  <1>3. \A a, b \in array : compareHash(salt, a.key, b.key) => rank[b] < rank[a]
    BY LowerIsOrder
  <1>4. \A a, b \in array : a # b => compareHash(salt, a.key, b.key) \/ compareHash(salt, b.key, a.key)
    BY DEF Hashed, compareHash
  <1>5. \A a \in array : ~compareHash(salt, a.key, a.key)
    BY DEF Hashed, compareHash
  <1>6. sorted = [c \in 0..n - 1 |-> CHOOSE a \in array : Cardinality(Lower(salt, array, a)) = c]
    BY DEF sort, Lower
  <1> HIDE DEF rank, sorted
  <1>7. rank \in Injection(array, 0..n - 1)
    <2>1. rank \in [array -> 0..n - 1]
      BY <1>2 DEF rank
    <2>2. \A a, b \in array : rank[a] = rank[b] => a = b
      BY <1>1, <1>2, <1>3, <1>4
    <2>3. QED
      BY <2>1, <2>2 DEF Injection, IsInjective
  <1>8. rank \in Surjection(array, 0..n - 1)
    <2>1. IsFiniteSet(0..n - 1) /\ Cardinality(0..n - 1) = n
      BY <1>1, FS_Interval
    <2>2. QED
      BY <1>7, <2>1, FS_Injection
  <1>9. \A c \in 0..n - 1 : \E a \in array : Cardinality(Lower(salt, array, a)) = c
    BY <1>8 DEF Surjection, rank
  <1>10. \A c \in 0..n - 1 : sorted[c] \in array /\ rank[sorted[c]] = c
    BY <1>6, <1>9 DEF rank
  <1>11. DOMAIN sorted = 0..n - 1
    BY <1>6
  <1>12. \A a \in array : rank[a] \in DOMAIN sorted /\ sorted[rank[a]] = a
    <2> TAKE a \in array
    <2>1. rank[a] \in 0..n - 1 /\ rank[sorted[rank[a]]] = rank[a] /\ sorted[rank[a]] \in array
      BY <1>2, <1>10
    <2>2. \A b \in array : rank[b] = rank[a] => b = a
      BY <1>1, <1>2, <1>3, <1>4
    <2>3. QED
      BY <1>11, <2>1, <2>2
  <1>13. ASSUME NEW c1 \in DOMAIN sorted, NEW c2 \in DOMAIN sorted, c1 < c2
         PROVE  /\ compareHash(salt, KeyAt(sorted, c2), KeyAt(sorted, c1))
                /\ ~compareHash(salt, KeyAt(sorted, c1), KeyAt(sorted, c2))
                /\ KeyAt(sorted, c1) # KeyAt(sorted, c2)
    <2> DEFINE a1 == sorted[c1]
               a2 == sorted[c2]
    <2>1. a1 \in array /\ a2 \in array /\ rank[a1] = c1 /\ rank[a2] = c2 /\ c1 \in 0..n - 1 /\ c2 \in 0..n - 1
      BY <1>10, <1>11
    <2> HIDE DEF a1, a2
    <2>2. ~compareHash(salt, a1.key, a2.key) /\ a1 # a2
      BY <1>1, <1>3, <1>13, <2>1
    <2>3. compareHash(salt, a2.key, a1.key) /\ a1.key # a2.key
      BY <1>4, <1>5, <2>1, <2>2
    <2>4. QED
      BY <2>2, <2>3 DEF KeyAt, a1, a2
  <1>14. InOrder(salt, sorted, n)
    BY <1>11, <1>13 DEF InOrder
  <1>15. QED
    BY <1>10, <1>11, <1>12, <1>14 DEF sorted

Data(layers, payload) == [layers |-> layers, payload |-> payload]
On(layer, layers) == <<layer>> \o layers

\* AES puts a layer on what has another one on top, and takes it off again.
LEMMA LayerOn ==
  ASSUME NEW S, NEW layers \in Seq(S), NEW payload, NEW side, NEW iv,
         layers = <<>> \/ Head(layers) # <<side, iv>>
  PROVE  aes(Data(layers, payload), side, iv) = Data(On(<<side, iv>>, layers), payload)
  BY DEF aes, Data, On

LEMMA LayerOff ==
  ASSUME NEW S, NEW layers \in Seq(S), NEW payload, NEW side, NEW iv, <<side, iv>> \in S
  PROVE  aes(Data(On(<<side, iv>>, layers), payload), side, iv) = Data(layers, payload)
  <1>1. <<<<side, iv>>>> \o layers # <<>> /\ Head(<<<<side, iv>>>> \o layers) = <<side, iv>>
        /\ Tail(<<<<side, iv>>>> \o layers) = layers
    OBVIOUS
  <1>2. QED
    BY <1>1 DEF aes, Data, On

\* The layers of an encounter with a key, as it is in RIGHT's array.
Layered(origin, payload) ==
    aes(aes(aes(Plain(payload), "RIGHT", origin), "LEFT", sha3("LEFT", origin)),
        "RIGHT", StoredKey(origin))

LEMMA Decrypts ==
  ASSUME NEW origin, NEW payload
  PROVE  decrypt_path_encounter(Layered(origin, payload), sha3("LEFT", origin), origin) = payload
  <1> DEFINE k1 == sha3("LEFT", origin)
             k2 == StoredKey(origin)
             x0 == <<"RIGHT", origin>>
             x1 == <<"LEFT", k1>>
             x2 == <<"RIGHT", k2>>
             S == {x0, x1, x2}
             l0 == <<>>
             l1 == On(x0, l0)
             l2 == On(x1, l1)
             l3 == On(x2, l2)
             D(layers) == Data(layers, payload)
  <1> HIDE DEF k1, k2
  <1>1. x0 # x1 /\ x1 # x2
    OBVIOUS
  <1>2. x0 \in S /\ x1 \in S /\ x2 \in S
    OBVIOUS
  <1>3. l0 \in Seq(S) /\ l1 \in Seq(S) /\ Head(l1) = x0 /\ l1 # <<>>
    <2> HIDE DEF x0, x1, x2
    <2> QED BY DEF On
  <1>4. l2 \in Seq(S) /\ Head(l2) = x1 /\ l2 # <<>>
    <2> HIDE DEF x0, x1, x2, l1
    <2> QED BY <1>3 DEF On
  <1> HIDE DEF S, l1, l2, l3
  <1>0. l0 = <<>>
    OBVIOUS
  <1> HIDE DEF l0
  <1>5. aes(D(l0), "RIGHT", origin) = D(l1) /\ aes(D(l1), "RIGHT", origin) = D(l0)
    <2>1. aes(D(l0), "RIGHT", origin) = D(l1)
      BY <1>0 DEF aes, Data, On, l1
    <2>2. aes(D(l1), "RIGHT", origin) = D(l0)
      BY <1>2, <1>3, LayerOff DEF l1
    <2>3. QED
      BY <2>1, <2>2
  <1>6. aes(D(l1), "LEFT", k1) = D(l2) /\ aes(D(l2), "LEFT", k1) = D(l1)
    BY <1>1, <1>2, <1>3, LayerOn, LayerOff DEF l2
  <1>7. aes(D(l2), "RIGHT", k2) = D(l3) /\ aes(D(l3), "RIGHT", k2) = D(l2)
    BY <1>1, <1>2, <1>4, LayerOn, LayerOff DEF l3
  <1>8. Plain(payload) = D(l0) /\ Readable(D(l0)) = payload
    BY <1>0 DEF Plain, Readable, Data
  <1>9. Layered(origin, payload) = D(l3)
    BY <1>5, <1>6, <1>7, <1>8 DEF Layered, k1, k2
  <1>10. k2 = sha3("RIGHT", k1)
    BY DEF k1, k2, StoredKey
  <1>11. QED
    BY <1>5, <1>6, <1>7, <1>8, <1>9, <1>10 DEF decrypt_path_encounter, k1

-----------------------------------------------------------------------------
(* The store of a run.                                                       *)

RunInv == query \in Queries /\ setting \in Settings /\ hist \in [Times -> query.meetings]

\* The keys that were made for a shuffle.
Kept(sh) == UNION {{mac(d, t) : d \in hist[t]} : t \in Covered(sh)}
Dummies  == {Dummy(n) : n \in 0..dummies - 1}
Keys(sh) == Kept(sh) \cup Dummies

Stored(sh)  == UNION {{store_path_encounter(Recorded(d, t)) : d \in hist[t]} : t \in Covered(sh)}
Shuffled(sh) == encrypt(send_shuffle(Stored(sh), dummies, 0), "RIGHT")
ArrayOf(sh) == receive_shuffle(setting.salt, send_shuffle(Stored(sh), dummies, 0))

LEMMA Kinds ==
  /\ \A d, t, e, u : mac(d, t) = mac(e, u) => d = e /\ t = u
  /\ \A m, n : Dummy(m) = Dummy(n) => m = n
  /\ \A d, t, n : mac(d, t) = Dummy(n) => d = nobody
  /\ \A o1, o2 : StoredKey(o1) = StoredKey(o2) => o1 = o2
  /\ \A side, k1, k2 : sha3(side, k1) = sha3(side, k2) => k1 = k2
  BY DEF mac, Dummy, StoredKey, sha3

\* Of a meeting each of the two knows whom it met.
LEMMA Meetings ==
  ASSUME RunInv, NEW t \in Times, NEW d \in hist[t]
  PROVE  /\ IsFiniteSet(hist[t]) /\ d \in Nat /\ d # nobody /\ mac(d, t) \in Origins
         /\ Partner(d, t) \in hist[t] /\ Partner(d, t) # d
  <1>1. hist[t] \in query.meetings /\ hist[t] # {}
    BY DEF RunInv
  <1>2. PICK e, f \in hist[t] : e # f /\ hist[t] = {e, f} /\ hist[t] \subseteq Nat \ {nobody}
    BY <1>1, QueryAssumption DEF RunInv
  <1>3. IsFiniteSet({e, f})
    <2>1. IsFiniteSet({e})
      BY FS_Singleton
    <2>2. IsFiniteSet({e} \cup {f})
      BY <2>1, FS_AddElement
    <2>3. {e} \cup {f} = {e, f}
      OBVIOUS
    <2>4. QED
      BY <2>2, <2>3
  <1>4. \E x \in hist[t] : x # d
    BY <1>2
  <1>5. Partner(d, t) \in hist[t] /\ Partner(d, t) # d
    BY <1>4 DEF Partner
  <1>6. mac(d, t) \in Origins
    BY <1>1 DEF Origins, RunInv
  <1>7. QED
    BY <1>2, <1>3, <1>5, <1>6

LEMMA KeysKnown ==
  ASSUME RunInv, NEW sh \in Shuffles
  PROVE  IsFiniteSet(Keys(sh)) /\ Keys(sh) \subseteq Origins
  <1>1. Covered(sh) \subseteq Times
    BY DEF Covered
  <1>2. IsFiniteSet(Times)
    BY StoreAssumption, FS_Interval DEF Times
  <1>3. \A t \in Times : IsFiniteSet(hist[t])
    <2> TAKE t \in Times
    <2>1. CASE hist[t] = {}
      BY <2>1, FS_EmptySet
    <2>2. CASE hist[t] # {}
      BY <2>2, Meetings
    <2>3. QED
      BY <2>1, <2>2
  <1> DEFINE met == [t \in Times |-> hist[t]]
  <1>4. IsFiniteSet({hist[t] : t \in Times})
    <2>1. [t \in Times |-> hist[t]] \in Surjection(Times, {hist[t] : t \in Times})
      BY DEF Surjection
    <2>2. QED
      BY <1>2, <2>1, FS_Surjection
  <1>5. IsFiniteSet(UNION {hist[t] : t \in Times})
    BY <1>3, <1>4, FS_UNION
  <1>6. IsFiniteSet((UNION {hist[t] : t \in Times}) \X Times)
    BY <1>2, <1>5, FS_Product
  <1>7. Kept(sh) \subseteq (UNION {hist[t] : t \in Times}) \X Times
    BY <1>1 DEF Kept, mac
  <1>8. IsFiniteSet(Dummies)
    <2>1. IsFiniteSet(0..dummies - 1)
      BY StoreAssumption, FS_Interval
    <2>2. [n \in 0..dummies - 1 |-> Dummy(n)] \in Surjection(0..dummies - 1, Dummies)
      BY DEF Surjection, Dummies
    <2>3. QED
      BY <2>1, <2>2, FS_Surjection
  <1>9. IsFiniteSet(Keys(sh))
    BY <1>6, <1>7, <1>8, FS_Subset, FS_Union DEF Keys
  <1>10. Keys(sh) \subseteq Origins
    <2>1. Kept(sh) \subseteq Origins
      BY <1>1, Meetings DEF Kept
    <2>2. Dummies \subseteq Origins
      BY DEF Dummies, Origins
    <2>3. QED
      BY <2>1, <2>2 DEF Keys
  <1>11. QED
    BY <1>9, <1>10

Encrypted(a, side) ==
    [key |-> sha3(side, a.key), encrypted |-> aes(a.encrypted, side, sha3(side, a.key))]

LEMMA EncryptsEach ==
  ASSUME NEW array, NEW side, UniqueKeys(array)
  PROVE  /\ \A e : e \in encrypt(array, side) <=> \E a \in array : e = Encrypted(a, side)
         /\ UniqueKeys(encrypt(array, side))
  <1>1. \A e : e \in encrypt(array, side) <=> \E a \in array : e = Encrypted(a, side)
    BY DEF encrypt, Encrypted
  <1>2. ASSUME NEW e \in encrypt(array, side), NEW f \in encrypt(array, side), e.key = f.key
        PROVE  e = f
    <2>1. PICK a \in array : e = Encrypted(a, side)
      BY <1>1
    <2>2. PICK b \in array : f = Encrypted(b, side)
      BY <1>1
    <2>3. sha3(side, a.key) = sha3(side, b.key)
      BY <1>2, <2>1, <2>2 DEF Encrypted
    <2>4. a = b
      BY <2>3, Kinds DEF UniqueKeys
    <2>5. QED
      BY <2>1, <2>2, <2>4
  <1>3. QED
    BY <1>1, <1>2 DEF UniqueKeys

\* What LEFT encrypts: each encounter and each dummy once.
LEMMA Arrives ==
  ASSUME RunInv, NEW sh \in Shuffles
  PROVE  /\ UniqueKeys(Stored(sh) \cup fill_dummies(dummies, 0))
         /\ \A a \in Stored(sh) \cup fill_dummies(dummies, 0) : a.key \in Keys(sh)
         /\ \A o \in Keys(sh) : \E a \in Stored(sh) \cup fill_dummies(dummies, 0) : a.key = o
         /\ \A t \in Covered(sh) : \A d \in hist[t] :
               [key |-> mac(d, t), encrypted |-> aes(Plain(Recorded(d, t).payload), "RIGHT", mac(d, t))]
               \in Stored(sh)
  <1> DEFINE Entry(d, t) ==
        [key |-> mac(d, t), encrypted |-> aes(Plain(Recorded(d, t).payload), "RIGHT", mac(d, t))]
             Filler(n) == [key |-> Dummy(n), encrypted |-> Plain(Nothing)]
             all == Stored(sh) \cup fill_dummies(dummies, 0)
  <1>1. \A d, t : store_path_encounter(Recorded(d, t)) = Entry(d, t)
    BY DEF store_path_encounter, Recorded
  <1>2. \A a : a \in Stored(sh) <=> \E t \in Covered(sh) : \E d \in hist[t] : a = Entry(d, t)
    BY <1>1 DEF Stored
  <1>3. \A a : a \in fill_dummies(dummies, 0) <=> \E n \in 0..dummies - 1 : a = Filler(n)
    BY StoreAssumption DEF fill_dummies
  <1>4. \A t \in Covered(sh) : \A d \in hist[t] : d # nobody
    BY Meetings DEF Covered
  <1>5. (\A d, t : Entry(d, t).key = mac(d, t)) /\ (\A n : Filler(n).key = Dummy(n))
    OBVIOUS
  <1> HIDE DEF Entry, Filler
  <1>6. ASSUME NEW a \in all, NEW b \in all, a.key = b.key PROVE a = b
    <2>1. CASE a \in Stored(sh) /\ b \in Stored(sh)
      BY <1>2, <1>5, <1>6, <2>1, Kinds
    <2>2. CASE a \in fill_dummies(dummies, 0) /\ b \in fill_dummies(dummies, 0)
      BY <1>3, <1>5, <1>6, <2>2, Kinds
    <2>3. CASE a \in Stored(sh) /\ b \in fill_dummies(dummies, 0)
      BY <1>2, <1>3, <1>4, <1>5, <1>6, <2>3, Kinds
    <2>4. CASE a \in fill_dummies(dummies, 0) /\ b \in Stored(sh)
      BY <1>2, <1>3, <1>4, <1>5, <1>6, <2>4, Kinds
    <2>5. QED
      BY <2>1, <2>2, <2>3, <2>4
  <1>7. \A a \in all : a.key \in Keys(sh)
    BY <1>2, <1>3, <1>5 DEF Keys, Kept, Dummies
  <1>8. \A o \in Keys(sh) : \E a \in all : a.key = o
    <2>1. \A o \in Kept(sh) : \E a \in all : a.key = o
      BY <1>2, <1>5 DEF Kept
    <2>2. \A o \in Dummies : \E a \in all : a.key = o
      BY <1>3, <1>5 DEF Dummies
    <2>3. QED
      BY <2>1, <2>2 DEF Keys
  <1>9. \A t \in Covered(sh) : \A d \in hist[t] : Entry(d, t) \in Stored(sh)
    BY <1>2
  <1>10. QED
    BY <1>6, <1>7, <1>8, <1>9 DEF Entry, UniqueKeys

LEMMA ShuffledEntries ==
  ASSUME RunInv, NEW sh \in Shuffles
  PROVE  /\ UniqueKeys(Shuffled(sh)) /\ IsFiniteSet(Shuffled(sh))
         /\ \A e \in Shuffled(sh) : \E o \in Keys(sh) : e.key = StoredKey(o)
         /\ \A o \in Keys(sh) : \E e \in Shuffled(sh) : e.key = StoredKey(o)
         /\ \A t \in Covered(sh) : \A d \in hist[t] : \A e \in Shuffled(sh) :
               e.key = StoredKey(mac(d, t)) =>
                  e.encrypted = Layered(mac(d, t), Recorded(d, t).payload)
  <1> DEFINE all == Stored(sh) \cup fill_dummies(dummies, 0)
             sent == encrypt(all, "LEFT")
  <1>1. UniqueKeys(all)
    BY Arrives
  <1>2. \A e : e \in sent <=> \E a \in all : e = Encrypted(a, "LEFT")
    BY <1>1, EncryptsEach
  <1>3. UniqueKeys(sent)
    BY <1>1, EncryptsEach
  <1>4. Shuffled(sh) = encrypt(sent, "RIGHT")
    BY DEF Shuffled, send_shuffle
  <1> HIDE DEF sent
  <1>5. /\ \A e : e \in Shuffled(sh) <=> \E a \in sent : e = Encrypted(a, "RIGHT")
        /\ UniqueKeys(Shuffled(sh))
    BY <1>3, <1>4, EncryptsEach
  <1>6. \A e \in Shuffled(sh) : \E o \in Keys(sh) : e.key = StoredKey(o)
    <2> TAKE e \in Shuffled(sh)
    <2>1. PICK b \in sent : e = Encrypted(b, "RIGHT")
      BY <1>5
    <2>2. PICK a \in all : b = Encrypted(a, "LEFT")
      BY <1>2
    <2>3. e.key = StoredKey(a.key)
      BY <2>1, <2>2 DEF Encrypted, StoredKey
    <2>4. a.key \in Keys(sh)
      BY Arrives
    <2>5. QED
      BY <2>3, <2>4
  <1>7. \A o \in Keys(sh) : \E e \in Shuffled(sh) : e.key = StoredKey(o)
    <2> TAKE o \in Keys(sh)
    <2>1. PICK a \in all : a.key = o
      BY Arrives
    <2>2. Encrypted(a, "LEFT") \in sent
      BY <1>2
    <2>3. Encrypted(Encrypted(a, "LEFT"), "RIGHT") \in Shuffled(sh)
      BY <1>5, <2>2
    <2>4. Encrypted(Encrypted(a, "LEFT"), "RIGHT").key = StoredKey(o)
      BY <2>1 DEF Encrypted, StoredKey
    <2>5. QED
      BY <2>3, <2>4
  <1>8. ASSUME NEW t \in Covered(sh), NEW d \in hist[t], NEW e \in Shuffled(sh), e.key = StoredKey(mac(d, t))
        PROVE  e.encrypted = Layered(mac(d, t), Recorded(d, t).payload)
    <2> DEFINE a == [key |-> mac(d, t),
                     encrypted |-> aes(Plain(Recorded(d, t).payload), "RIGHT", mac(d, t))]
               f == Encrypted(Encrypted(a, "LEFT"), "RIGHT")
    <2>1. a \in all
      BY Arrives
    <2>2. a.key = mac(d, t) /\ a.encrypted = aes(Plain(Recorded(d, t).payload), "RIGHT", mac(d, t))
      OBVIOUS
    <2> HIDE DEF a
    <2>3. f \in Shuffled(sh)
      BY <1>2, <1>5, <2>1
    <2>4. f.key = StoredKey(mac(d, t)) /\ f.encrypted = Layered(mac(d, t), Recorded(d, t).payload)
      BY <2>2 DEF Encrypted, StoredKey, Layered
    <2>5. e = f
      BY <1>5, <1>8, <2>3, <2>4 DEF UniqueKeys
    <2>6. QED
      BY <2>4, <2>5
  <1>9. IsFiniteSet(Shuffled(sh))
    <2> DEFINE f == [o \in Keys(sh) |-> CHOOSE e \in Shuffled(sh) : e.key = StoredKey(o)]
    <2>1. \A o \in Keys(sh) : f[o] \in Shuffled(sh) /\ f[o].key = StoredKey(o)
      BY <1>7
    <2>2. f \in [Keys(sh) -> Shuffled(sh)]
      BY <2>1
    <2> HIDE DEF f
    <2>3. \A e \in Shuffled(sh) : \E o \in Keys(sh) : f[o] = e
      BY <1>5, <1>6, <2>1 DEF UniqueKeys
    <2>4. f \in Surjection(Keys(sh), Shuffled(sh))
      BY <2>2, <2>3 DEF Surjection
    <2>5. QED
      BY <2>4, KeysKnown, FS_Surjection
  <1>10. QED
    BY <1>5, <1>6, <1>7, <1>8, <1>9

\* A key is found in the array of a shuffle if, and only if, it was made for it, and
\* what is decrypted with it is what the device had recorded.
LEMMA Fetches ==
  ASSUME RunInv, NEW sh \in Shuffles, NEW o,
         NEW place, place = fetch_stored_path_encounter(setting.salt, ArrayOf(sh), StoredKey(o))
  PROVE  /\ place # NotFound <=> o \in Keys(sh)
         /\ place # NotFound =>
               \A t \in Covered(sh) : \A d \in hist[t] :
                  o = mac(d, t) =>
                     decrypt_path_encounter(ArrayOf(sh)[place].encrypted, sha3("LEFT", o), o) =
                     Recorded(d, t).payload
  <1> DEFINE entries == Shuffled(sh)
             array == ArrayOf(sh)
             count == Cardinality(entries)
  <1>1. array = sort(setting.salt, entries)
    BY DEF ArrayOf, receive_shuffle, Shuffled
  <1>2. UniqueKeys(entries) /\ IsFiniteSet(entries)
    BY ShuffledEntries
  <1>3. Hashed(setting.salt, entries)
    <2> SUFFICES ASSUME NEW a \in entries, NEW b \in entries
                 PROVE  /\ Hash(setting.salt, a.key) \in Int
                        /\ Hash(setting.salt, a.key) = Hash(setting.salt, b.key) => a = b
      BY DEF Hashed
    <2>1. PICK p \in Keys(sh) : a.key = StoredKey(p)
      BY ShuffledEntries
    <2>2. PICK q \in Keys(sh) : b.key = StoredKey(q)
      BY ShuffledEntries
    <2>3. p \in Origins /\ q \in Origins /\ setting \in Settings
      BY KeysKnown DEF RunInv
    <2>4. Hash(setting.salt, StoredKey(p)) \in Int
      BY <2>3, SettingAssumption
    <2>5. Hash(setting.salt, StoredKey(p)) = Hash(setting.salt, StoredKey(q)) => p = q
      BY <2>3, SettingAssumption
    <2>6. p = q => a = b
      BY <1>2, <2>1, <2>2 DEF UniqueKeys
    <2>7. QED
      BY <2>1, <2>2, <2>4, <2>5, <2>6
  <1>4. /\ InOrder(setting.salt, array, count)
        /\ \A c \in DOMAIN array : array[c] \in entries
        /\ \A a \in entries : \E c \in DOMAIN array : array[c] = a
    BY <1>1, <1>2, <1>3, Sorts
  <1>5. count \in Nat
    BY <1>2, FS_CardinalityType
  <1> HIDE DEF array, count, entries
  <1>6. DOMAIN array = 0..count - 1
    BY <1>4 DEF InOrder
  <1>7. place = fetch_stored_path_encounter(setting.salt, array, StoredKey(o))
    BY DEF array
  <1>8. place # NotFound => place \in DOMAIN array /\ array[place].key = StoredKey(o)
    BY <1>5, <1>6, <1>7, FoundHasTheKey DEF KeyAt
  <1>9. ASSUME place # NotFound PROVE o \in Keys(sh)
    <2>1. array[place] \in entries
      BY <1>4, <1>8, <1>9
    <2>2. PICK p \in Keys(sh) : array[place].key = StoredKey(p)
      BY <2>1, ShuffledEntries DEF entries
    <2>3. QED
      BY <1>8, <1>9, <2>2, Kinds
  <1>10. ASSUME o \in Keys(sh) PROVE place # NotFound
    <2>1. PICK a \in entries : a.key = StoredKey(o)
      BY <1>10, ShuffledEntries DEF entries
    <2>2. PICK c \in DOMAIN array : array[c] = a
      BY <1>4
    <2>3. KeyAt(array, c) = StoredKey(o) /\ c \in 0..count - 1
      BY <1>6, <2>1, <2>2 DEF KeyAt
    <2>4. place = c
      BY <1>4, <1>5, <1>7, <2>3, KeyIsFound
    <2>5. QED
      BY <1>5, <2>3, <2>4 DEF NotFound
  <1>11. ASSUME place # NotFound, NEW t \in Covered(sh), NEW d \in hist[t], o = mac(d, t)
         PROVE  decrypt_path_encounter(array[place].encrypted, sha3("LEFT", o), o) = Recorded(d, t).payload
    <2>1. array[place] \in entries /\ array[place].key = StoredKey(mac(d, t))
      BY <1>4, <1>8, <1>11
    <2>2. array[place].encrypted = Layered(mac(d, t), Recorded(d, t).payload)
      BY <2>1, ShuffledEntries DEF entries
    <2>3. QED
      BY <1>11, <2>2, Decrypts
  <1>12. QED
    BY <1>9, <1>10, <1>11 DEF array

-----------------------------------------------------------------------------
(* The invariant.                                                            *)

Storing == {"store", "send", "receive"}
Begun   == pc \notin Storing \cup {"start"}

\* The k-th device of list p, and the time that its walk has come back to.
Listed(p, k) == lists[p][k]
Stands(p, k) == walk_previous[p][k]

PlaceInv ==
    /\ pc \in Storing \cup {"start", "fetch", "split", "sort", "walk", "done"}
    /\ pc \in Storing => s \in Shuffles /\ at = <<1, s, 1, 1>>
    /\ pc = "start" => at = <<1, 1, 1, 1>>
    /\ query.kind = "contact" => pc \notin {"sort", "walk"}
    /\ pc = "fetch" => /\ at = <<pass, s, i, j>>
                       /\ pass \in DOMAIN lists /\ s \in Shuffles
                       /\ i \in DOMAIN lists[pass] /\ j \in 1..setting.budget

\* What LEFT has stored and sent, and what RIGHT has received.
StoreInv ==
    /\ DOMAIN shuffle_store = Shuffles
    /\ pc = "send" => alice = Stored(s)
    /\ pc = "receive" => wire = send_shuffle(Stored(s), dummies, 0)
    /\ \A sh \in Shuffles : (pc \in Storing => s < sh) => shuffle_store[sh] = ArrayOf(sh)

\* The rounds of device k of list p over shuffle sh are over, or it is their turn.
Finished(p, sh, k) ==
    \/ Ended
    \/ pc = "fetch" /\ (p < pass \/ (p = pass /\ (sh < s \/ (sh = s /\ k < i))))
Current(p, sh, k) == pc = "fetch" /\ p = pass /\ sh = s /\ k = i

\* A walk stands at a time when the device met somebody, or is at its end.
PreviousInv ==
    Begun =>
        /\ DOMAIN walk_previous = DOMAIN lists
        /\ \A p \in DOMAIN lists :
              /\ DOMAIN walk_previous[p] = DOMAIN lists[p]
              /\ \A k \in DOMAIN lists[p] :
                    \/ Stands(p, k) = 0
                    \/ Stands(p, k) \in Times /\ Listed(p, k) \in hist[Stands(p, k)]

\* What was looked up is a dummy, or an encounter that a walk has come past,
LookedUp(x, p, k, t) ==
    /\ x[2] = mac(Listed(p, k), t) /\ t \in Covered(x[1])
    /\ Listed(p, k) \in hist[t] /\ Stands(p, k) < t

LookedInv ==
    /\ ~Begun => looked = {} /\ again = {}
    /\ \A x \in looked :
          /\ x = <<x[1], x[2]>> /\ x[1] \in Shuffles
          /\ \/ x[2] = Dummy(x[2][2]) /\ x[2][2] \in Nat
             \/ \E p \in DOMAIN lists : \E k \in DOMAIN lists[p] : \E t \in Times : LookedUp(x, p, k, t)

\* and all that it has come past was looked up.
SeenInv ==
    Begun => \A p \in DOMAIN lists : \A k \in DOMAIN lists[p] :
        \A sh \in Shuffles : \A t \in Covered(sh) :
            Listed(p, k) \in hist[t] /\ Stands(p, k) < t => <<sh, mac(Listed(p, k), t)>> \in looked

\* In the shuffles that it has not come to, a walk has everything before it.
AheadInv ==
    pc = "fetch" => \A p \in DOMAIN lists : \A k \in DOMAIN lists[p] :
        \A sh \in Shuffles : \A t \in Covered(sh) :
            ~Finished(p, sh, k) /\ ~Current(p, sh, k) /\ Listed(p, k) \in hist[t] => t <= Stands(p, k)

\* There is a nonce for every round of a list, and contact() uses none again.
NonceInv ==
    /\ ~Begun => dummy_nonce = 0
    /\ pc = "fetch" => dummy_nonce \in Nat /\ dummy_nonce <= setting.budget * (i - 1) + (j - 1)
    /\ pc = "fetch" /\ query.kind = "contact" =>
          \A x \in looked : x[2][1] = nobody => x[1] < s \/ (x[1] = s /\ x[2][2] < dummy_nonce)

\* The encounters of a shuffle that a walk at time u still has before it: when no
\* device has more than are fetched, there are never more than rounds to come.
Before(d, sh, u) == {t \in Covered(sh) : d \in hist[t] /\ t <= u}

WithinInv ==
    Within =>
        /\ EnoughDummies => pc # "split"
        /\ \A p \in DOMAIN lists : \A k \in DOMAIN lists[p] : \A sh \in Shuffles :
              Finished(p, sh, k) => Stands(p, k) <= shuffle_start_times[sh]
        /\ pc = "fetch" => Cardinality(Before(device, s, previous)) <= setting.budget - (j - 1)

\* The encounters for which contact() counts a device in a shuffle.
Touched(k, sh) ==
    {t \in Covered(sh) : /\ Listed(1, k) \in hist[t] /\ InRange(t) /\ t \notin setting.unconfirmed
                         /\ Contains(filter.source, Partner(Listed(1, k), t))}
Counted == {x \in Shuffles \X DOMAIN lists[1] : Finished(1, x[1], x[2]) /\ Touched(x[2], x[1]) # {}}

CountInv ==
    query.kind = "contact" =>
        /\ Begun => filter.source = Filled(filter_ids(query))
        /\ ~Begun => output_count = 0 /\ this_device_had_contact = FALSE
        /\ pc = "fetch" => this_device_had_contact = (\E t \in Touched(i, s) : previous < t)
        /\ Within /\ pc \in {"fetch", "done"} => output_count = Cardinality(Counted)

IInv == /\ RunInv /\ PlaceInv /\ StoreInv /\ PreviousInv /\ LookedInv /\ SeenInv /\ AheadInv
        /\ NonceInv /\ WithinInv /\ CountInv

-----------------------------------------------------------------------------
(* What the invariant is used for.                                           *)

LEMMA StoreTypes ==
  /\ Len(shuffle_start_times) \in Nat \ {0} /\ Shuffles = 1..Len(shuffle_start_times)
  /\ \A sh \in Shuffles : shuffle_start_times[sh] \in Nat
  /\ \A sh \in Shuffles : \A t \in Covered(sh) :
        /\ t \in Times /\ t \in Nat /\ t > 0 /\ t <= T /\ shuffle_start_times[sh] < t
        /\ sh > 1 => t <= shuffle_start_times[sh - 1]
  /\ \A sh \in Shuffles, t \in Times :
        shuffle_start_times[sh] < t /\ (sh > 1 => t <= shuffle_start_times[sh - 1]) => t \in Covered(sh)
  BY StoreAssumption DEF Shuffles, Covered, Times

\* A shuffle has the times that come after all of the older ones.
LEMMA NewerFirst ==
  ASSUME NEW new \in Shuffles, NEW old \in Shuffles, new < old,
         NEW t \in Covered(old), NEW u \in Covered(new)
  PROVE  t < u
  <1>1. t \in Nat /\ u \in Nat /\ old > 1 /\ t <= shuffle_start_times[old - 1]
        /\ shuffle_start_times[new] < u /\ old - 1 \in Shuffles
    BY StoreTypes
  <1>2. shuffle_start_times[old - 1] <= shuffle_start_times[new]
    <2>1. CASE new = old - 1
      BY <1>1, <2>1, StoreTypes
    <2>2. CASE new < old - 1
      <3>1. DOMAIN shuffle_start_times = Shuffles
        BY StoreAssumption DEF Shuffles
      <3>2. shuffle_start_times[old - 1] < shuffle_start_times[new]
        BY <1>1, <2>2, <3>1, StoreAssumption
      <3>3. QED
        BY <1>1, <3>2, StoreTypes
    <2>3. QED
      BY <2>1, <2>2, StoreTypes
  <1>3. shuffle_start_times[old - 1] \in Nat /\ shuffle_start_times[new] \in Nat
    BY <1>1, StoreTypes
  <1>4. QED
    BY <1>1, <1>2, <1>3

LEMMA CoveredOnce ==
  ASSUME NEW sh1 \in Shuffles, NEW sh2 \in Shuffles, NEW t \in Covered(sh1), t \in Covered(sh2)
  PROVE  sh1 = sh2
  <1>1. ~(sh1 < sh2) /\ ~(sh2 < sh1)
    BY NewerFirst, StoreTypes
  <1>2. QED
    BY <1>1, StoreTypes

LEMMA ListTypes ==
  ASSUME RunInv
  PROVE  /\ lists # <<>> /\ Len(lists) \in Nat /\ DOMAIN lists = 1..Len(lists) /\ 1 \in DOMAIN lists
         /\ query.kind \in {"contact", "flow"}
         /\ query.kind = "contact" => DOMAIN lists = {1}
         /\ \A p \in DOMAIN lists :
               /\ Len(lists[p]) \in Nat /\ Len(lists[p]) >= 1 /\ DOMAIN lists[p] = 1..Len(lists[p])
               /\ \A k \in DOMAIN lists[p] : Listed(p, k) \in Nat /\ Listed(p, k) # nobody
         /\ setting.budget \in Nat /\ setting.budget >= 1
  <1>1. /\ query.kind \in {"contact", "flow"}
        /\ \A ids \in {query.source, query.sink} : ids \in Seq(Nat) /\ ids # <<>> /\ nobody \notin Ids(ids)
    BY QueryAssumption DEF RunInv
  <1>2. \A ids \in {query.source, query.sink} :
           /\ Len(ids) \in Nat /\ Len(ids) >= 1 /\ DOMAIN ids = 1..Len(ids)
           /\ \A k \in DOMAIN ids : ids[k] \in Nat /\ ids[k] # nobody
    BY <1>1 DEF Ids
  <1>3. setting.budget \in Nat /\ setting.budget >= 1
    BY SettingAssumption DEF RunInv
  <1>4. CASE query.kind = "contact"
    <2>1. lists = <<walk_ids(query)>> /\ walk_ids(query) \in {query.source, query.sink}
      BY <1>4 DEF lists, ListsOf, walk_ids
    <2>2. Len(lists) = 1 /\ DOMAIN lists = {1} /\ DOMAIN lists = 1..1 /\ lists[1] = walk_ids(query) /\ lists # <<>>
      BY <2>1
    <2>3. QED
      BY <1>1, <1>2, <1>3, <2>1, <2>2 DEF Listed
  <1>5. CASE query.kind # "contact"
    <2>1. lists = <<query.source, query.sink>>
      BY <1>5 DEF lists, ListsOf
    <2>2. Len(lists) = 2 /\ DOMAIN lists = 1..2 /\ lists[1] = query.source /\ lists[2] = query.sink /\ lists # <<>>
      BY <2>1
    <2>3. \A p \in DOMAIN lists : lists[p] \in {query.source, query.sink}
      BY <2>2
    <2>4. QED
      BY <1>1, <1>2, <1>3, <1>5, <2>2, <2>3 DEF Listed
  <1>6. QED
    BY <1>4, <1>5

LEMMA RunSame ==
  ASSUME UNCHANGED run_vars
  PROVE  /\ lists' = lists /\ (Within' <=> Within) /\ RunInv' = RunInv
         /\ \A p, k : Listed(p, k)' = Listed(p, k)
         /\ \A sh : Stored(sh)' = Stored(sh) /\ ArrayOf(sh)' = ArrayOf(sh)
         /\ query' = query /\ setting' = setting /\ hist' = hist
  <1>1. query' = query /\ setting' = setting /\ hist' = hist
    BY DEF run_vars
  <1>2. lists' = lists
    BY <1>1 DEF lists
  <1>3. walked' = walked
    BY <1>2 DEF walked
  <1>4. Within' <=> Within
    BY <1>1, <1>3 DEF Within
  <1>5. RunInv' = RunInv
    BY <1>1 DEF RunInv
  <1>6. \A p, k : Listed(p, k)' = Listed(p, k)
    BY <1>2 DEF Listed
  <1>7. \A d, t : Recorded(d, t)' = Recorded(d, t)
    BY <1>1 DEF Recorded, Partner, Previous
  <1>8. \A sh : Stored(sh)' = Stored(sh)
    BY <1>1, <1>7 DEF Stored
  <1>9. \A sh : ArrayOf(sh)' = ArrayOf(sh)
    BY <1>1, <1>8 DEF ArrayOf
  <1>10. QED
    BY <1>1, <1>2, <1>4, <1>5, <1>6, <1>8, <1>9

\* The encounter before t: there is none between.
LEMMA PreviousIs ==
  ASSUME RunInv, NEW d, NEW t \in 1..T + 1
  PROVE  /\ Previous(d, t) \in Nat /\ Previous(d, t) < t
         /\ Previous(d, t) = 0 \/ (Previous(d, t) \in Times /\ d \in hist[Previous(d, t)])
         /\ \A v \in Times : Previous(d, t) < v /\ v < t => d \notin hist[v]
  <1> DEFINE Is(u) == /\ u > 0 => d \in hist[u]
                      /\ \A v \in u + 1..t - 1 : d \notin hist[v]
             Last == {n \in Nat : n < t /\ (t - 1 - n > 0 => d \in hist[t - 1 - n])}
  <1>0. T \in Nat
    BY StoreAssumption
  <1>1. t - 1 \in Last
    BY <1>0
  <1>2. PICK n \in Last : \A m \in Last : n <= m
    BY <1>1, Least
  <1>3. Is(t - 1 - n)
    <2>1. ASSUME NEW v \in (t - 1 - n) + 1..t - 1, d \in hist[v] PROVE FALSE
      <3>1. t - 1 - v \in Nat /\ t - 1 - (t - 1 - v) = v /\ t - 1 - v < t /\ ~(n <= t - 1 - v)
        BY <1>0, <1>2
      <3>2. t - 1 - v \in Last
        BY <2>1, <3>1
      <3>3. QED
        BY <1>2, <3>1, <3>2
    <2>2. t - 1 - n > 0 => d \in hist[t - 1 - n]
      BY <1>2
    <2>3. QED
      BY <2>1, <2>2
  <1>4. t - 1 - n \in 0..t - 1
    BY <1>0, <1>2
  <1>5. Previous(d, t) = CHOOSE u \in 0..t - 1 : Is(u)
    BY DEF Previous
  <1>6. Previous(d, t) \in 0..t - 1 /\ Is(Previous(d, t))
    BY <1>3, <1>4, <1>5
  <1> DEFINE u == Previous(d, t)
  <1> HIDE DEF u
  <1>7. u \in 0..t - 1 /\ (u > 0 => d \in hist[u]) /\ \A v \in u + 1..t - 1 : d \notin hist[v]
    BY <1>6 DEF u
  <1>8. /\ u \in Nat /\ u < t
        /\ u = 0 \/ (u \in Times /\ d \in hist[u])
        /\ \A v \in Times : u < v /\ v < t => d \notin hist[v]
    BY <1>0, <1>7 DEF Times
  <1>9. QED
    BY <1>8 DEF u

LEMMA PlaceTypes ==
  ASSUME RunInv, PlaceInv, pc = "fetch"
  PROVE  /\ at = <<pass, s, i, j>>
         /\ pass \in DOMAIN lists /\ pass \in Nat /\ pass >= 1 /\ pass <= Len(lists)
         /\ s \in Shuffles /\ s \in Nat /\ s >= 1 /\ s <= Len(shuffle_start_times)
         /\ i \in DOMAIN lists[pass] /\ i \in Nat /\ i >= 1 /\ i <= Len(lists[pass])
         /\ j \in Nat /\ j >= 1 /\ j <= setting.budget
         /\ device = Listed(pass, i) /\ device \in Nat /\ device # nobody /\ previous = Stands(pass, i)
         /\ Begun
  <1>1. /\ at = <<pass, s, i, j>> /\ pass \in DOMAIN lists /\ s \in Shuffles
        /\ i \in DOMAIN lists[pass] /\ j \in 1..setting.budget
    BY DEF PlaceInv
  <1>2. device = Listed(pass, i) /\ previous = Stands(pass, i)
    BY DEF device, previous, Listed, Stands
  <1>3. device \in Nat /\ device # nobody
    BY <1>1, <1>2, ListTypes
  <1>4. pass \in 1..Len(lists) /\ s \in 1..Len(shuffle_start_times) /\ i \in 1..Len(lists[pass])
    BY <1>1, ListTypes, StoreTypes
  <1> DEFINE p == pass
             sh == s
             k == i
             round == j
             length == Len(lists[pass])
  <1>5. length \in Nat /\ Len(lists) \in Nat /\ Len(shuffle_start_times) \in Nat /\ setting.budget \in Nat
    BY <1>1, ListTypes, StoreTypes
  <1>6. p \in 1..Len(lists) /\ sh \in 1..Len(shuffle_start_times) /\ k \in 1..length /\ round \in 1..setting.budget
    BY <1>1, <1>4
  <1> HIDE DEF p, sh, k, round, length
  <1>7. /\ p \in Nat /\ p >= 1 /\ p <= Len(lists)
        /\ sh \in Nat /\ sh >= 1 /\ sh <= Len(shuffle_start_times)
        /\ k \in Nat /\ k >= 1 /\ k <= length
        /\ round \in Nat /\ round >= 1 /\ round <= setting.budget
    BY <1>5, <1>6
  <1>8. Begun
    BY DEF Begun, Storing
  <1>9. QED
    BY <1>1, <1>2, <1>3, <1>7, <1>8 DEF p, sh, k, round, length

LEMMA StandsTypes ==
  ASSUME RunInv, PreviousInv, Begun
  PROVE  /\ DOMAIN walk_previous = DOMAIN lists
         /\ \A p \in DOMAIN lists : DOMAIN walk_previous[p] = DOMAIN lists[p]
         /\ \A p \in DOMAIN lists : \A k \in DOMAIN lists[p] :
               /\ Stands(p, k) \in Nat /\ Stands(p, k) <= T
               /\ Stands(p, k) > 0 => Stands(p, k) \in Times /\ Listed(p, k) \in hist[Stands(p, k)]
  <1>1. T \in Nat
    BY StoreAssumption
  <1>2. QED
    BY <1>1 DEF PreviousInv, Times

\* What is looked up in a round, when it is found, and what it tells.
LEMMA LooksUp ==
  ASSUME RunInv, PlaceInv, StoreInv, PreviousInv, pc = "fetch"
  PROVE  /\ fetch_dummy => original_key = Dummy(dummy_nonce)
         /\ ~fetch_dummy => /\ original_key = mac(device, previous) /\ previous \in Times
                            /\ device \in hist[previous] /\ shuffle_start_times[s] < previous
         /\ found # NotFound <=> original_key \in Keys(s)
         /\ found # NotFound /\ ~fetch_dummy =>
               previous \in Covered(s) /\ entry = Recorded(device, previous).payload
  <1>1. s \in Shuffles /\ device # nobody /\ device = Listed(pass, i) /\ previous = Stands(pass, i)
        /\ pass \in DOMAIN lists /\ i \in DOMAIN lists[pass] /\ Begun
    BY PlaceTypes
  <1>2. previous \in Nat /\ (previous > 0 => previous \in Times /\ device \in hist[previous])
    BY <1>1, StandsTypes
  <1>3. fetch_dummy => original_key = Dummy(dummy_nonce)
    BY DEF original_key
  <1>4. ~fetch_dummy => /\ original_key = mac(device, previous) /\ previous \in Times
                        /\ device \in hist[previous] /\ shuffle_start_times[s] < previous
    <2>1. shuffle_start_times[s] \in Nat
      BY <1>1, StoreTypes
    <2>2. QED
      BY <1>2, <2>1 DEF original_key, fetch_dummy
  <1>5. shuffle_store[s] = ArrayOf(s)
    BY <1>1 DEF StoreInv, Storing
  <1>6. sha3("RIGHT", hash) = StoredKey(original_key)
    BY DEF StoredKey, hash
  <1>7. found = fetch_stored_path_encounter(setting.salt, ArrayOf(s), StoredKey(original_key))
    BY <1>5, <1>6 DEF found
  <1>8. found # NotFound <=> original_key \in Keys(s)
    BY <1>1, <1>7, Fetches
  <1>9. ASSUME found # NotFound, ~fetch_dummy
        PROVE  previous \in Covered(s) /\ entry = Recorded(device, previous).payload
    <2>1. original_key = mac(device, previous) /\ original_key \in Keys(s)
      BY <1>4, <1>8, <1>9
    <2>2. original_key \notin Dummies
      BY <1>1, <2>1, Kinds DEF Dummies
    <2>3. \E t \in Covered(s) : \E d \in hist[t] : original_key = mac(d, t)
      BY <2>1, <2>2 DEF Keys, Kept
    <2>4. previous \in Covered(s) /\ device \in hist[previous]
      BY <2>1, <2>3, Kinds
    <2>5. decrypt_path_encounter(ArrayOf(s)[found].encrypted, sha3("LEFT", original_key), original_key) =
          Recorded(device, previous).payload
      BY <1>1, <1>7, <1>9, <2>1, <2>4, Fetches
    <2>6. QED
      BY <1>5, <2>4, <2>5 DEF entry, hash
  <1>10. QED
    BY <1>3, <1>4, <1>8, <1>9

\* Where the walks stand after a round: that of an encounter comes to the one before.
LEMMA Moves ==
  ASSUME RunInv, PlaceInv, StoreInv, PreviousInv, Fetch
  PROVE  /\ PreviousInv'
         /\ \A p \in DOMAIN lists : \A k \in DOMAIN lists[p] :
               /\ Stands(p, k)' \in Nat /\ Stands(p, k)' <= Stands(p, k)
               /\ p # pass \/ k # i \/ fetch_dummy => Stands(p, k)' = Stands(p, k)
               /\ p = pass /\ k = i /\ ~fetch_dummy =>
                     /\ Stands(p, k)' < previous
                     /\ \A v \in Times : Stands(p, k)' < v /\ v < previous => device \notin hist[v]
  <1>1. pc = "fetch" /\ found # NotFound /\ UNCHANGED run_vars
    BY DEF Fetch
  <1>2. /\ pass \in DOMAIN lists /\ i \in DOMAIN lists[pass] /\ Begun
        /\ device = Listed(pass, i) /\ previous = Stands(pass, i)
    BY <1>1, PlaceTypes
  <1>3. lists' = lists /\ hist' = hist /\ (\A p, k : Listed(p, k)' = Listed(p, k))
    BY <1>1, RunSame
  <1>4. /\ DOMAIN walk_previous = DOMAIN lists
        /\ \A p \in DOMAIN lists : DOMAIN walk_previous[p] = DOMAIN lists[p]
        /\ \A p \in DOMAIN lists : \A k \in DOMAIN lists[p] :
               /\ Stands(p, k) \in Nat
               /\ Stands(p, k) = 0 \/ (Stands(p, k) \in Times /\ Listed(p, k) \in hist[Stands(p, k)])
    <2>1. Begun
      BY <1>2
    <2>2. QED
      BY <2>1, StandsTypes DEF PreviousInv
  <1>5. CASE fetch_dummy
    <2>1. walk_previous' = walk_previous
      BY <1>5 DEF Fetch
    <2>2. \A p, k : Stands(p, k)' = Stands(p, k)
      BY <2>1 DEF Stands
    <2>3. PreviousInv'
      BY <1>3, <1>4, <2>1, <2>2 DEF PreviousInv
    <2>4. QED
      BY <1>4, <1>5, <2>2, <2>3
  <1>6. CASE ~fetch_dummy
    <2>1. previous \in Times /\ entry = Recorded(device, previous).payload
      BY <1>1, <1>6, LooksUp
    <2>2. entry.previous = Previous(device, previous)
      BY <2>1 DEF Recorded
    <2>3. walk_previous' = [walk_previous EXCEPT ![pass][i] = Previous(device, previous)]
      BY <1>6, <2>2 DEF Fetch
    <2> DEFINE new == Previous(device, previous)
    <2>4. /\ new \in Nat /\ new < previous
          /\ new = 0 \/ (new \in Times /\ device \in hist[new])
          /\ \A v \in Times : new < v /\ v < previous => device \notin hist[v]
      <3>1. previous \in 1..T + 1
        BY <2>1, StoreAssumption DEF Times
      <3>2. QED
        BY <3>1, PreviousIs
    <2> HIDE DEF new
    <2>5. /\ DOMAIN walk_previous' = DOMAIN lists
          /\ \A p \in DOMAIN lists : DOMAIN walk_previous'[p] = DOMAIN lists[p]
      BY <1>2, <1>4, <2>3
    <2>6. \A p, k : p = pass /\ k = i => Stands(p, k)' = new
      BY <1>2, <1>4, <2>3 DEF new, Stands
    <2>7. \A p \in DOMAIN lists : \A k \in DOMAIN lists[p] :
             p # pass \/ k # i => Stands(p, k)' = Stands(p, k)
      BY <1>2, <1>4, <2>3 DEF Stands
    <2>8. \A p \in DOMAIN lists : \A k \in DOMAIN lists[p] :
             /\ Stands(p, k)' \in Nat /\ Stands(p, k)' <= Stands(p, k)
             /\ Stands(p, k)' = 0 \/ (Stands(p, k)' \in Times /\ Listed(p, k) \in hist[Stands(p, k)'])
      <3> TAKE p \in DOMAIN lists
      <3> TAKE k \in DOMAIN lists[p]
      <3>1. CASE p = pass /\ k = i
        BY <1>2, <1>4, <2>4, <2>6, <3>1
      <3>2. CASE ~(p = pass /\ k = i)
        BY <1>4, <2>7, <3>2
      <3>3. QED
        BY <3>1, <3>2
    <2>9. PreviousInv'
      BY <1>3, <2>5, <2>8 DEF PreviousInv
    <2>10. QED
      BY <1>6, <2>4, <2>6, <2>7, <2>8, <2>9
  <1>7. QED
    BY <1>5, <1>6

\* A round is the last one of a device in a shuffle or not, and then the next
\* device, shuffle or list has its turn: one that had none before.
LEMMA Turns ==
  ASSUME RunInv, PlaceInv, Fetch
  PROVE  /\ PlaceInv'
         /\ pc' = "fetch" \/ Ended'
         /\ ~LastRound => pc' = "fetch" /\ at' = <<pass, s, i, j + 1>>
         /\ LastRound /\ pc' = "fetch" => /\ j' = 1
                                          /\ \/ pass' = pass /\ s' = s /\ i' = i + 1
                                             \/ pass' = pass /\ s' = s + 1 /\ i' = 1
                                             \/ pass' = pass + 1 /\ s' = 1 /\ i' = 1
         /\ \A p \in DOMAIN lists : \A sh \in Shuffles : \A k \in DOMAIN lists[p] :
               /\ Finished(p, sh, k)' <=> Finished(p, sh, k) \/ (LastRound /\ Current(p, sh, k))
               /\ Current(p, sh, k)' =>
                     IF LastRound THEN ~Finished(p, sh, k) /\ ~Current(p, sh, k) ELSE Current(p, sh, k)
  <1>1. pc = "fetch" /\ UNCHANGED run_vars
    BY DEF Fetch
  <1>2. /\ at = <<pass, s, i, j>>
        /\ pass \in DOMAIN lists /\ pass \in Nat /\ pass >= 1 /\ pass <= Len(lists)
        /\ s \in Nat /\ s >= 1 /\ s <= Len(shuffle_start_times)
        /\ i \in DOMAIN lists[pass] /\ i \in Nat /\ i >= 1 /\ i <= Len(lists[pass])
        /\ j \in Nat /\ j >= 1 /\ j <= setting.budget
    BY <1>1, PlaceTypes
  <1>3. /\ Len(lists) \in Nat /\ DOMAIN lists = 1..Len(lists) /\ setting.budget \in Nat /\ setting.budget >= 1
        /\ \A p \in DOMAIN lists : /\ Len(lists[p]) \in Nat /\ Len(lists[p]) >= 1
                                   /\ DOMAIN lists[p] = 1..Len(lists[p])
        /\ query.kind \in {"contact", "flow"}
    BY ListTypes
  <1>4. Len(shuffle_start_times) \in Nat /\ Shuffles = 1..Len(shuffle_start_times) /\ 1 \in Shuffles
    BY StoreTypes
  <1>5. lists' = lists /\ query' = query /\ setting' = setting
    BY <1>1, RunSame
  <1> DEFINE p0 == at[1]
             s0 == at[2]
             i0 == at[3]
             j0 == at[4]
  <1>6. pass = p0 /\ s = s0 /\ i = i0 /\ j = j0
    BY DEF pass, s, i, j
  <1>7. \A p, sh, k : /\ Finished(p, sh, k) <=> (p < p0 \/ (p = p0 /\ (sh < s0 \/ (sh = s0 /\ k < i0))))
                      /\ Current(p, sh, k) <=> (p = p0 /\ sh = s0 /\ k = i0)
    BY <1>1, <1>6 DEF Finished, Current, Ended
  <1>8. \A p1, s1, i1, j1 : pc' = "fetch" /\ at' = <<p1, s1, i1, j1>> =>
           \A p, sh, k :
              /\ Finished(p, sh, k)' <=> (p < p1 \/ (p = p1 /\ (sh < s1 \/ (sh = s1 /\ k < i1))))
              /\ Current(p, sh, k)' <=> (p = p1 /\ sh = s1 /\ k = i1)
    BY DEF Finished, Current, Ended, pass, s, i, j
  <1>9. \A p1, s1, i1, j1 :
           /\ pc' = "fetch" /\ at' = <<p1, s1, i1, j1>>
           /\ p1 \in DOMAIN lists /\ s1 \in Shuffles /\ i1 \in DOMAIN lists[p1] /\ j1 \in 1..setting.budget
           => PlaceInv' /\ pass' = p1 /\ s' = s1 /\ i' = i1 /\ j' = j1
    BY <1>5 DEF PlaceInv, Storing, pass, s, i, j
  <1>10. \A n : NextAt = n /\ n # <<>> => pc' = "fetch" /\ at' = n
    BY <1>1 DEF Fetch
  <1>11. LastRound <=> j0 = setting.budget
    BY <1>6 DEF LastRound
  <1>12. CASE ~LastRound
    <2>1. NextAt = <<p0, s0, i0, j0 + 1>> /\ NextAt # <<>>
      BY <1>6, <1>12 DEF NextAt
    <2>2. pc' = "fetch" /\ at' = <<p0, s0, i0, j0 + 1>>
      BY <1>10, <2>1
    <2>3. j0 + 1 \in 1..setting.budget /\ s0 \in Shuffles
      BY <1>2, <1>3, <1>4, <1>6, <1>11, <1>12
    <2> HIDE DEF p0, s0, i0, j0
    <2>4. PlaceInv'
      BY <1>2, <1>6, <1>9, <2>2, <2>3
    <2>5. QED
      BY <1>6, <1>7, <1>8, <1>12, <2>2, <2>4
  <1>13. CASE LastRound /\ i < Len(lists[pass])
    <2>1. NextAt = <<p0, s0, i0 + 1, 1>> /\ NextAt # <<>>
      BY <1>6, <1>13 DEF NextAt
    <2>2. pc' = "fetch" /\ at' = <<p0, s0, i0 + 1, 1>>
      BY <1>10, <2>1
    <2> DEFINE length == Len(lists[p0])
    <2>3. length \in Nat /\ DOMAIN lists[p0] = 1..length /\ i0 < length /\ i0 \in Nat
      BY <1>2, <1>3, <1>6, <1>13
    <2> HIDE DEF p0, s0, i0, j0
    <2>4. i0 + 1 \in DOMAIN lists[p0] /\ s0 \in Shuffles /\ 1 \in 1..setting.budget
      <3> HIDE DEF length
      <3>1. i0 + 1 \in 1..length
        BY <2>3
      <3>2. QED
        BY <1>2, <1>3, <1>4, <1>6, <2>3, <3>1
    <2>5. PlaceInv' /\ pass' = p0 /\ s' = s0 /\ i' = i0 + 1 /\ j' = 1
      BY <1>2, <1>6, <1>9, <2>2, <2>4
    <2>6. \A p \in DOMAIN lists : \A sh \in Shuffles : \A k \in DOMAIN lists[p] :
             /\ Finished(p, sh, k)' <=> Finished(p, sh, k) \/ Current(p, sh, k)
             /\ Current(p, sh, k)' => ~Finished(p, sh, k) /\ ~Current(p, sh, k)
      <3> TAKE p \in DOMAIN lists
      <3> TAKE sh \in Shuffles
      <3> TAKE k \in DOMAIN lists[p]
      <3>1. p \in Nat /\ sh \in Nat /\ k \in Nat
        BY <1>3, <1>4
      <3>2. p0 \in Nat /\ s0 \in Nat
        BY <1>2, <1>6
      <3>3. QED
        BY <1>7, <1>8, <2>2, <2>3, <3>1, <3>2
    <2>7. QED
      BY <1>6, <1>13, <2>2, <2>5, <2>6
  <1>14. CASE LastRound /\ ~(i < Len(lists[pass])) /\ s < Len(shuffle_start_times)
    <2>1. NextAt = <<p0, s0 + 1, 1, 1>> /\ NextAt # <<>>
      BY <1>6, <1>14 DEF NextAt
    <2>2. pc' = "fetch" /\ at' = <<p0, s0 + 1, 1, 1>>
      BY <1>10, <2>1
    <2>3. i0 = Len(lists[p0])
      BY <1>2, <1>3, <1>6, <1>14
    <2> HIDE DEF p0, s0, i0, j0
    <2>4. 1 \in DOMAIN lists[p0] /\ s0 + 1 \in Shuffles /\ 1 \in 1..setting.budget
      BY <1>2, <1>3, <1>4, <1>6, <1>14
    <2>5. PlaceInv' /\ pass' = p0 /\ s' = s0 + 1 /\ i' = 1 /\ j' = 1
      BY <1>2, <1>6, <1>9, <2>2, <2>4
    <2>6. \A p \in DOMAIN lists : \A sh \in Shuffles : \A k \in DOMAIN lists[p] :
             /\ Finished(p, sh, k)' <=> Finished(p, sh, k) \/ Current(p, sh, k)
             /\ Current(p, sh, k)' => ~Finished(p, sh, k) /\ ~Current(p, sh, k)
      <3> TAKE p \in DOMAIN lists
      <3> TAKE sh \in Shuffles
      <3> TAKE k \in DOMAIN lists[p]
      <3>1. p \in Nat /\ sh \in Nat /\ k \in Nat /\ k >= 1 /\ (p = p0 => k <= i0)
        BY <1>3, <1>4, <2>3
      <3>2. p0 \in Nat /\ s0 \in Nat /\ i0 \in Nat
        BY <1>2, <1>6
      <3>3. QED
        BY <1>7, <1>8, <2>2, <3>1, <3>2
    <2>7. QED
      BY <1>6, <1>14, <2>2, <2>5, <2>6
  <1>15. CASE LastRound /\ ~(i < Len(lists[pass])) /\ ~(s < Len(shuffle_start_times)) /\ pass < Len(lists)
    <2>1. NextAt = <<p0 + 1, 1, 1, 1>> /\ NextAt # <<>>
      BY <1>6, <1>15 DEF NextAt
    <2>2. pc' = "fetch" /\ at' = <<p0 + 1, 1, 1, 1>>
      BY <1>10, <2>1
    <2>3. i0 = Len(lists[p0]) /\ s0 = Len(shuffle_start_times)
      BY <1>2, <1>3, <1>4, <1>6, <1>15
    <2> HIDE DEF p0, s0, i0, j0
    <2>4. p0 + 1 \in DOMAIN lists /\ 1 \in DOMAIN lists[p0 + 1] /\ 1 \in Shuffles /\ 1 \in 1..setting.budget
      <3>1. p0 + 1 \in DOMAIN lists
        BY <1>2, <1>3, <1>6, <1>15
      <3>2. QED
        BY <1>3, <1>4, <3>1
    <2>5. PlaceInv' /\ pass' = p0 + 1 /\ s' = 1 /\ i' = 1 /\ j' = 1
      BY <1>9, <2>2, <2>4
    <2>6. \A p \in DOMAIN lists : \A sh \in Shuffles : \A k \in DOMAIN lists[p] :
             /\ Finished(p, sh, k)' <=> Finished(p, sh, k) \/ Current(p, sh, k)
             /\ Current(p, sh, k)' => ~Finished(p, sh, k) /\ ~Current(p, sh, k)
      <3> TAKE p \in DOMAIN lists
      <3> TAKE sh \in Shuffles
      <3> TAKE k \in DOMAIN lists[p]
      <3>1. p \in Nat /\ sh \in Nat /\ k \in Nat /\ k >= 1 /\ sh >= 1 /\ sh <= s0 /\ (p = p0 => k <= i0)
        BY <1>3, <1>4, <2>3
      <3>2. p0 \in Nat /\ s0 \in Nat /\ i0 \in Nat
        BY <1>2, <1>6
      <3>3. QED
        BY <1>7, <1>8, <2>2, <3>1, <3>2
    <2>7. QED
      BY <1>6, <1>15, <2>2, <2>5, <2>6
  <1>16. CASE LastRound /\ ~(i < Len(lists[pass])) /\ ~(s < Len(shuffle_start_times)) /\ ~(pass < Len(lists))
    <2>1. NextAt = <<>>
      BY <1>16 DEF NextAt
    <2>2. pc' = IF query.kind = "contact" THEN "done" ELSE "sort"
      BY <2>1 DEF Fetch
    <2>3. i0 = Len(lists[p0]) /\ s0 = Len(shuffle_start_times) /\ p0 = Len(lists)
      BY <1>2, <1>3, <1>4, <1>6, <1>16
    <2> HIDE DEF p0, s0, i0, j0
    <2>4. PlaceInv'
      BY <1>5, <2>2 DEF PlaceInv, Storing
    <2>5. Ended' /\ pc' # "fetch"
      BY <2>2 DEF Ended
    <2>6. \A p \in DOMAIN lists : \A sh \in Shuffles : \A k \in DOMAIN lists[p] :
             Finished(p, sh, k) \/ Current(p, sh, k)
      <3> TAKE p \in DOMAIN lists
      <3> TAKE sh \in Shuffles
      <3> TAKE k \in DOMAIN lists[p]
      <3>1. /\ p \in Nat /\ sh \in Nat /\ k \in Nat /\ k >= 1 /\ sh >= 1 /\ sh <= s0 /\ p <= p0
            /\ p = p0 => k <= i0
        BY <1>3, <1>4, <2>3
      <3>2. p0 \in Nat /\ s0 \in Nat /\ i0 \in Nat
        BY <1>2, <1>6
      <3>3. QED
        BY <1>7, <3>1, <3>2
    <2>7. \A p, sh, k : Finished(p, sh, k)' /\ ~Current(p, sh, k)'
      BY <2>5 DEF Finished, Current
    <2>8. QED
      BY <1>16, <2>4, <2>5, <2>6, <2>7
  <1>17. QED
    BY <1>12, <1>13, <1>14, <1>15, <1>16

-----------------------------------------------------------------------------
(* A round keeps the invariant.                                              *)

LEMMA FetchKeepsStore ==
  ASSUME RunInv, PlaceInv, StoreInv, Fetch
  PROVE  StoreInv' /\ Begun'
  <1>1. pc = "fetch" /\ UNCHANGED run_vars /\ shuffle_store' = shuffle_store
    BY DEF Fetch, store_vars
  <1>2. pc' \in {"fetch", "sort", "walk", "done"}
    BY Turns DEF Ended
  <1>3. \A sh : ArrayOf(sh)' = ArrayOf(sh)
    BY <1>1, RunSame
  <1>4. Begun'
    BY <1>2 DEF Begun, Storing
  <1>5. QED
    BY <1>1, <1>2, <1>3, <1>4 DEF StoreInv, Storing

LEMMA FetchKeepsLooked ==
  ASSUME RunInv, PlaceInv, StoreInv, PreviousInv, LookedInv, NonceInv, Fetch
  PROVE  LookedInv'
  <1>1. pc = "fetch" /\ found # NotFound /\ UNCHANGED run_vars /\ looked' = looked \cup {<<s, original_key>>}
    BY DEF Fetch
  <1>2. Begun'
    BY FetchKeepsStore
  <1>3. lists' = lists /\ hist' = hist /\ \A p, k : Listed(p, k)' = Listed(p, k)
    BY <1>1, RunSame
  <1>4. /\ s \in Shuffles /\ pass \in DOMAIN lists /\ i \in DOMAIN lists[pass]
        /\ device = Listed(pass, i)
    BY <1>1, PlaceTypes
  <1>5. ASSUME NEW x \in looked
        PROVE  /\ x = <<x[1], x[2]>> /\ x[1] \in Shuffles
               /\ \/ x[2] = Dummy(x[2][2]) /\ x[2][2] \in Nat
                  \/ \E p \in DOMAIN lists : \E k \in DOMAIN lists[p] : \E t \in Times : LookedUp(x, p, k, t)'
    <2>1. x = <<x[1], x[2]>> /\ x[1] \in Shuffles
      BY DEF LookedInv
    <2>2. CASE x[2] = Dummy(x[2][2]) /\ x[2][2] \in Nat
      BY <2>1, <2>2
    <2>3. CASE \E p \in DOMAIN lists : \E k \in DOMAIN lists[p] : \E t \in Times : LookedUp(x, p, k, t)
      <3>1. PICK p \in DOMAIN lists : \E k \in DOMAIN lists[p] : \E t \in Times : LookedUp(x, p, k, t)
        BY <2>3
      <3>2. PICK k \in DOMAIN lists[p] : \E t \in Times : LookedUp(x, p, k, t)
        BY <3>1
      <3>3. PICK t \in Times : LookedUp(x, p, k, t)
        BY <3>2
      <3>4. Stands(p, k)' \in Nat /\ Stands(p, k)' <= Stands(p, k) /\ Stands(p, k) \in Nat
        BY <1>1, Moves, StandsTypes, PlaceTypes
      <3>5. Stands(p, k)' < t
        BY <3>3, <3>4, StoreAssumption DEF LookedUp, Times
      <3>6. LookedUp(x, p, k, t)'
        BY <1>3, <3>3, <3>5 DEF LookedUp
      <3>7. QED
        BY <2>1, <3>6
    <2>4. QED
      BY <2>2, <2>3 DEF LookedInv
  <1>6. ASSUME NEW y, y = <<s, original_key>>
        PROVE  /\ y = <<y[1], y[2]>> /\ y[1] \in Shuffles
               /\ \/ y[2] = Dummy(y[2][2]) /\ y[2][2] \in Nat
                  \/ \E p \in DOMAIN lists : \E k \in DOMAIN lists[p] : \E t \in Times : LookedUp(y, p, k, t)'
    <2>1. y = <<y[1], y[2]>> /\ y[1] = s /\ y[2] = original_key
      BY <1>6
    <2>2. CASE fetch_dummy
      <3>1. y[2] = Dummy(dummy_nonce)
        BY <1>1, <2>1, <2>2, LooksUp
      <3>2. dummy_nonce \in Nat
        BY <1>1 DEF NonceInv
      <3>3. y[2] = Dummy(y[2][2]) /\ y[2][2] \in Nat
        BY <3>1, <3>2 DEF Dummy
      <3>4. QED
        BY <1>4, <2>1, <3>3
    <2>3. CASE ~fetch_dummy
      <3>1. PICK p, k, sh, t : p = pass /\ k = i /\ sh = s /\ t = previous
        OBVIOUS
      <3>2. y[2] = mac(device, t) /\ t \in Covered(sh) /\ t \in Times /\ device \in hist[t] /\ y[1] = sh
        BY <1>1, <2>1, <2>3, <3>1, LooksUp
      <3>3. p \in DOMAIN lists /\ k \in DOMAIN lists[p] /\ device = Listed(p, k) /\ sh \in Shuffles
        BY <1>4, <3>1
      <3>4. Stands(p, k)' < t
        BY <2>3, <3>1, <3>3, Moves
      <3>5. LookedUp(y, p, k, t)'
        BY <1>3, <3>2, <3>3, <3>4 DEF LookedUp
      <3>6. QED
        BY <2>1, <3>2, <3>3, <3>5
    <2>4. QED
      BY <2>2, <2>3
  <1>7. QED
    BY <1>1, <1>2, <1>3, <1>5, <1>6 DEF LookedInv

LEMMA FetchKeepsSeen ==
  ASSUME RunInv, PlaceInv, StoreInv, PreviousInv, SeenInv, Fetch
  PROVE  SeenInv'
  <1>1. /\ pc = "fetch" /\ found # NotFound /\ UNCHANGED run_vars
        /\ looked' = looked \cup {<<s, original_key>>}
    BY DEF Fetch
  <1>2. lists' = lists /\ hist' = hist /\ \A p, k : Listed(p, k)' = Listed(p, k)
    BY <1>1, RunSame
  <1>3. Begun /\ device = Listed(pass, i) /\ previous = Stands(pass, i) /\ s \in Shuffles
    BY <1>1, PlaceTypes
  <1>4. ASSUME NEW p \in DOMAIN lists, NEW k \in DOMAIN lists[p], NEW sh \in Shuffles, NEW t \in Covered(sh),
               Listed(p, k) \in hist[t], Stands(p, k)' < t
        PROVE  <<sh, mac(Listed(p, k), t)>> \in looked'
    <2>1. t \in Nat /\ t \in Times /\ Stands(p, k) \in Nat /\ Stands(p, k)' \in Nat
      BY <1>3, StoreTypes, StandsTypes, Moves
    <2>2. CASE Stands(p, k) < t
      BY <1>1, <1>3, <1>4, <2>2 DEF SeenInv
    <2>3. CASE ~(Stands(p, k) < t)
      <3>1. p = pass /\ k = i /\ ~fetch_dummy
        BY <1>4, <2>1, <2>3, Moves
      <3>2. ~(t < previous)
        BY <1>3, <1>4, <2>1, <3>1, Moves
      <3>3. t = previous
        BY <1>3, <2>1, <2>3, <3>1, <3>2
      <3>4. original_key = mac(device, previous) /\ previous \in Covered(s)
        BY <1>1, <3>1, LooksUp
      <3>5. sh = s
        BY <1>3, <3>3, <3>4, CoveredOnce
      <3>6. QED
        BY <1>1, <1>3, <3>1, <3>3, <3>4, <3>5
    <2>4. QED
      BY <2>2, <2>3
  <1>5. QED
    BY <1>2, <1>4 DEF SeenInv

\* What is before a walk in later shuffles stays before it.
LEMMA AheadStays ==
  ASSUME RunInv, PlaceInv, StoreInv, PreviousInv, AheadInv, Fetch,
         NEW p \in DOMAIN lists, NEW k \in DOMAIN lists[p], NEW sh \in Shuffles, NEW t \in Covered(sh),
         ~Finished(p, sh, k), ~Current(p, sh, k), Listed(p, k) \in hist[t]
  PROVE  t <= Stands(p, k)'
  <1>1. pc = "fetch" /\ found # NotFound
    BY DEF Fetch
  <1>2. t <= Stands(p, k)
    BY <1>1 DEF AheadInv
  <1>3. /\ Begun /\ device = Listed(pass, i) /\ previous = Stands(pass, i)
        /\ s \in Shuffles /\ s \in Nat
    BY <1>1, PlaceTypes
  <1>4. t \in Nat /\ t \in Times /\ Stands(p, k) \in Nat /\ Stands(p, k)' \in Nat /\ sh \in Nat
    BY <1>3, StoreTypes, StandsTypes, Moves
  <1>5. CASE p # pass \/ k # i \/ fetch_dummy
    BY <1>2, <1>5, Moves
  <1>6. CASE p = pass /\ k = i /\ ~fetch_dummy
    <2>1. s < sh
      BY <1>1, <1>3, <1>4, <1>6 DEF Finished, Current
    <2>2. previous \in Covered(s)
      BY <1>1, <1>6, LooksUp
    <2>3. t < previous
      BY <1>3, <2>1, <2>2, NewerFirst
    <2>4. ~(Stands(p, k)' < t)
      BY <1>3, <1>4, <1>6, <2>3, Moves
    <2>5. QED
      BY <1>4, <2>4
  <1>7. QED
    BY <1>5, <1>6

LEMMA FetchKeepsAhead ==
  ASSUME RunInv, PlaceInv, StoreInv, PreviousInv, AheadInv, Fetch
  PROVE  AheadInv'
  <1>1. UNCHANGED run_vars
    BY DEF Fetch
  <1>2. lists' = lists /\ hist' = hist /\ \A p, k : Listed(p, k)' = Listed(p, k)
    BY <1>1, RunSame
  <1>3. ASSUME NEW p \in DOMAIN lists, NEW k \in DOMAIN lists[p], NEW sh \in Shuffles, NEW t \in Covered(sh),
               pc' = "fetch", ~Finished(p, sh, k)', ~Current(p, sh, k)', Listed(p, k) \in hist[t]
        PROVE  t <= Stands(p, k)'
    <2>1. ~Finished(p, sh, k)
      BY <1>3, Turns
    <2>2. ~Current(p, sh, k)
      <3>1. CASE LastRound
        BY <1>3, <3>1, Turns
      <3>2. CASE ~LastRound
        <4>1. pc' = "fetch" /\ at' = <<pass, s, i, j + 1>>
          BY <3>2, Turns
        <4>2. Current(p, sh, k) => Current(p, sh, k)'
          BY <4>1 DEF Current, pass, s, i
        <4>3. QED
          BY <1>3, <4>2
      <3>3. QED
        BY <3>1, <3>2
    <2>3. QED
      BY <1>3, <2>1, <2>2, AheadStays
  <1>4. QED
    BY <1>2, <1>3 DEF AheadInv

\* n rounds of b fetches, and one more.
LEMMA Product ==
  ASSUME NEW b \in Nat, NEW n \in Nat
  PROVE  b * n \in Nat /\ b * (n + 1) = b * n + b /\ \A m \in Nat : m <= n => b * m <= b * n
  <1>1. b * n \in Nat /\ b * (n + 1) = b * n + b
    OBVIOUS
  <1>2. ASSUME NEW m \in Nat, m <= n PROVE b * m <= b * n
    <2>1. n - m \in Nat /\ n = m + (n - m)
      BY <1>2
    <2>2. b * (n - m) \in Nat
      BY <2>1
    <2>3. b * n = b * m + b * (n - m)
      OBVIOUS
    <2>4. b * m \in Nat /\ b * n \in Nat
      OBVIOUS
    <2>5. QED
      BY <2>2, <2>3, <2>4
  <1>3. QED
    BY <1>1, <1>2

LEMMA FetchKeepsNonce ==
  ASSUME RunInv, PlaceInv, StoreInv, PreviousInv, LookedInv, NonceInv, Fetch
  PROVE  NonceInv'
  <1>1. /\ pc = "fetch" /\ found # NotFound /\ UNCHANGED run_vars
        /\ looked' = looked \cup {<<s, original_key>>}
    BY DEF Fetch
  <1>2. /\ at = <<pass, s, i, j>> /\ pass \in DOMAIN lists /\ pass \in Nat /\ s \in Nat
        /\ i \in Nat /\ i >= 1 /\ j \in Nat /\ j >= 1 /\ j <= setting.budget
    BY <1>1, PlaceTypes
  <1>3. setting' = setting /\ query' = query /\ lists' = lists
    BY <1>1, RunSame
  <1>4. setting.budget \in Nat /\ setting.budget >= 1
    BY ListTypes
  <1>5. dummy_nonce \in Nat /\ dummy_nonce <= setting.budget * (i - 1) + (j - 1)
    BY <1>1 DEF NonceInv
  <1>6. Begun'
    BY FetchKeepsStore
  <1>7. dummy_nonce' = IF NextAt = <<>> \/ NextAt[1] # pass \/ NextAt[2] # s THEN 0
                       ELSE IF fetch_dummy THEN dummy_nonce + 1 ELSE dummy_nonce
    BY DEF Fetch, NextNonce
  <1>8. pc' = "fetch" => NextAt # <<>> /\ NextAt[1] = pass' /\ NextAt[2] = s'
    <2>1. NextAt = <<>> => pc' # "fetch"
      BY DEF Fetch
    <2>2. NextAt # <<>> => at' = NextAt
      BY DEF Fetch
    <2>3. QED
      BY <2>1, <2>2 DEF pass, s
  <1>9. ASSUME pc' = "fetch"
        PROVE  dummy_nonce' \in Nat /\ dummy_nonce' <= setting.budget * (i' - 1) + (j' - 1)
    <2>1. dummy_nonce' \in Nat /\ dummy_nonce' <= dummy_nonce + 1
      BY <1>5, <1>7
    <2>2. CASE ~LastRound
      <3>1. i' = i /\ j' = j + 1
        BY <2>2, Turns DEF i, j
      <3>2. setting.budget * (i - 1) \in Nat
        BY <1>2, <1>4, Product
      <3>3. QED
        BY <1>2, <1>5, <2>1, <3>1, <3>2
    <2>3. CASE LastRound /\ pass' = pass /\ s' = s /\ i' = i + 1
      <3>1. j' = 1 /\ j = setting.budget
        BY <1>9, <2>3, Turns DEF LastRound
      <3> DEFINE b == setting.budget
                 n == i - 1
      <3>2. b * n \in Nat /\ b * (n + 1) = b * n + b /\ n + 1 = i
        BY <1>2, <1>4, Product
      <3> HIDE DEF b
      <3>3. dummy_nonce <= b * n + (b - 1) /\ b \in Nat
        BY <1>4, <1>5, <3>1 DEF b
      <3>4. dummy_nonce' <= b * i /\ b * i \in Nat
        BY <1>5, <2>1, <3>2, <3>3
      <3>5. i' - 1 = i /\ j' - 1 = 0
        BY <1>2, <2>3, <3>1
      <3>6. QED
        BY <2>1, <3>4, <3>5 DEF b
    <2>4. CASE LastRound /\ (pass' # pass \/ s' # s)
      <3>1. i' = 1 /\ j' = 1
        BY <1>9, <2>4, Turns
      <3>2. dummy_nonce' = 0
        BY <1>7, <1>8, <1>9, <2>4
      <3>3. setting.budget * 0 = 0
        BY <1>4
      <3>4. QED
        BY <3>1, <3>2, <3>3
    <2>5. LastRound => \/ pass' = pass /\ s' = s /\ i' = i + 1
                       \/ pass' # pass \/ s' # s
      BY <1>2, <1>9, Turns
    <2>6. QED
      BY <2>2, <2>3, <2>4, <2>5
  <1>10. ASSUME pc' = "fetch", query.kind = "contact", NEW x \in looked', x[2][1] = nobody
         PROVE  x[1] < s' \/ (x[1] = s' /\ x[2][2] < dummy_nonce')
    <2>1. DOMAIN lists = {1}
      BY <1>10, ListTypes
    <2>2. pass = 1 /\ pass' = 1
      <3>1. PlaceInv'
        BY Turns
      <3>2. pass' \in DOMAIN lists'
        BY <1>10, <3>1 DEF PlaceInv
      <3>3. QED
        BY <1>2, <1>3, <2>1, <3>2
    <2>3. s' = s \/ s' = s + 1
      <3>1. CASE LastRound
        BY <1>2, <1>10, <2>2, <3>1, Turns
      <3>2. CASE ~LastRound
        BY <3>2, Turns DEF s
      <3>3. QED
        BY <3>1, <3>2
    <2>4. CASE x \in looked
      <3>1. x[1] < s \/ (x[1] = s /\ x[2][2] < dummy_nonce)
        BY <1>1, <1>10, <2>4 DEF NonceInv
      <3>2. x[1] \in Nat
        BY <2>4, StoreTypes DEF LookedInv
      <3>3. x[2][2] \in Nat
        <4>1. ASSUME NEW p \in DOMAIN lists, NEW k \in DOMAIN lists[p], NEW t \in Times, LookedUp(x, p, k, t)
              PROVE  FALSE
          <5>1. x[2][1] = Listed(p, k)
            BY <4>1 DEF LookedUp, mac
          <5>2. QED
            BY <1>10, <5>1, ListTypes
        <4>2. QED
          BY <2>4, <4>1 DEF LookedInv
      <3>4. CASE s' = s
        BY <1>2, <1>5, <1>7, <1>8, <1>10, <2>2, <3>1, <3>2, <3>3, <3>4
      <3>5. CASE s' = s + 1
        BY <1>2, <3>1, <3>2, <3>5
      <3>6. QED
        BY <2>3, <3>4, <3>5
    <2>5. CASE x = <<s, original_key>>
      <3>1. x[1] = s /\ x[2] = original_key
        BY <2>5
      <3>2. fetch_dummy
        <4>1. ASSUME ~fetch_dummy PROVE FALSE
          <5>1. original_key[1] = device
            BY <1>1, <4>1, LooksUp DEF mac
          <5>2. QED
            BY <1>1, <1>10, <3>1, <5>1, PlaceTypes
        <4>2. QED
          BY <4>1
      <3>3. x[2][2] = dummy_nonce
        BY <1>1, <3>1, <3>2, LooksUp DEF Dummy
      <3>4. CASE s' = s
        <4>1. dummy_nonce' = dummy_nonce + 1
          BY <1>7, <1>8, <1>10, <2>2, <3>2, <3>4
        <4>2. QED
          BY <1>5, <3>1, <3>3, <3>4, <4>1
      <3>5. CASE s' = s + 1
        BY <1>2, <3>1, <3>5
      <3>6. QED
        BY <2>3, <3>4, <3>5
    <2>6. QED
      BY <1>1, <1>10, <2>4, <2>5
  <1>11. QED
    BY <1>3, <1>6, <1>9, <1>10 DEF NonceInv

\* How many encounters a walk has before it.
LEMMA BeforeCounts ==
  ASSUME RunInv, NEW sh \in Shuffles, NEW d, NEW u \in Nat
  PROVE  /\ IsFiniteSet(Before(d, sh, u)) /\ Cardinality(Before(d, sh, u)) \in Nat
         /\ u <= shuffle_start_times[sh] => Cardinality(Before(d, sh, u)) = 0
         /\ Within /\ d \in walked => Cardinality(Before(d, sh, u)) <= setting.budget
         /\ \A new \in Nat :
               /\ u \in Covered(sh) /\ d \in hist[u] /\ new < u
               /\ \A v \in Times : new < v /\ v < u => d \notin hist[v]
               => Cardinality(Before(d, sh, new)) = Cardinality(Before(d, sh, u)) - 1
  <1> DEFINE all == {t \in Covered(sh) : d \in hist[t]}
  <1>1. IsFiniteSet(all)
    <2>1. all \subseteq Times
      BY StoreTypes
    <2>2. IsFiniteSet(Times)
      BY StoreAssumption, FS_Interval DEF Times
    <2>3. QED
      BY <2>1, <2>2, FS_Subset
  <1>2. \A n : /\ IsFiniteSet(Before(d, sh, n)) /\ Cardinality(Before(d, sh, n)) \in Nat
               /\ Cardinality(Before(d, sh, n)) <= Cardinality(all)
    <2> TAKE n
    <2>1. Before(d, sh, n) \in SUBSET all
      BY DEF Before
    <2> HIDE DEF all
    <2>2. QED
      BY <1>1, <2>1, FS_Subset, FS_CardinalityType
  <1>3. ASSUME u <= shuffle_start_times[sh] PROVE Cardinality(Before(d, sh, u)) = 0
    <2>1. \A t \in Covered(sh) : ~(t <= u)
      BY <1>3, StoreTypes
    <2>2. Before(d, sh, u) = {}
      BY <2>1 DEF Before
    <2>3. QED
      BY <2>2, FS_EmptySet
  <1>4. ASSUME Within, d \in walked PROVE Cardinality(Before(d, sh, u)) <= setting.budget
    <2>1. Cardinality(all) <= setting.budget
      BY <1>4 DEF Within
    <2>2. Cardinality(all) \in Nat /\ setting.budget \in Nat
      BY <1>1, FS_CardinalityType, ListTypes
    <2> HIDE DEF all
    <2>3. QED
      BY <1>2, <2>1, <2>2
  <1>5. ASSUME NEW new \in Nat, u \in Covered(sh), d \in hist[u], new < u,
               \A v \in Times : new < v /\ v < u => d \notin hist[v]
        PROVE  Cardinality(Before(d, sh, new)) = Cardinality(Before(d, sh, u)) - 1
    <2>1. \A t \in Covered(sh) : t \in Nat /\ t \in Times
      BY StoreTypes
    <2>2. ASSUME NEW t \in Covered(sh), d \in hist[t] PROVE t <= new <=> (t <= u /\ t # u)
      <3>1. t \in Nat /\ t \in Times
        BY <2>1
      <3>2. ~(new < t /\ t < u)
        BY <1>5, <2>2, <3>1
      <3>3. new \in Nat /\ u \in Nat /\ new < u
        BY <1>5
      <3>4. QED
        BY <3>1, <3>2, <3>3
    <2>3. Before(d, sh, new) = Before(d, sh, u) \ {u}
      BY <2>2 DEF Before
    <2>4. u \in Before(d, sh, u)
      BY <1>5 DEF Before
    <2>5. QED
      BY <1>2, <2>3, <2>4, FS_RemoveElement
  <1>6. QED
    BY <1>2, <1>3, <1>4, <1>5

LEMMA FetchKeepsWithin ==
  ASSUME RunInv, PlaceInv, StoreInv, PreviousInv, WithinInv, Fetch
  PROVE  WithinInv'
  <1>1. pc = "fetch" /\ found # NotFound /\ UNCHANGED run_vars
    BY DEF Fetch
  <1>2. /\ lists' = lists /\ hist' = hist /\ (Within' <=> Within) /\ RunInv' /\ setting' = setting
        /\ query' = query
    BY <1>1, RunSame
  <1>3. /\ pass \in DOMAIN lists /\ s \in Shuffles /\ i \in DOMAIN lists[pass] /\ j \in Nat /\ Begun
        /\ device = Listed(pass, i) /\ previous = Stands(pass, i)
    BY <1>1, PlaceTypes
  <1>4. previous \in Nat /\ shuffle_start_times[s] \in Nat /\ setting.budget \in Nat
    BY <1>3, StandsTypes, StoreTypes, ListTypes
  <1>5. pc' # "split"
    BY Turns DEF Ended
  <1> SUFFICES ASSUME Within
               PROVE  /\ \A p \in DOMAIN lists : \A k \in DOMAIN lists[p] : \A sh \in Shuffles :
                            Finished(p, sh, k)' => Stands(p, k)' <= shuffle_start_times[sh]
                      /\ pc' = "fetch" => Cardinality(Before(device, s, previous))' <= setting.budget - (j' - 1)
    BY <1>2, <1>5 DEF WithinInv
  <1>6. Cardinality(Before(device, s, previous)) <= setting.budget - (j - 1)
    BY <1>1 DEF WithinInv
  <1>7. \A d, sh, u : Before(d, sh, u)' = Before(d, sh, u)
    BY <1>2 DEF Before
  \* One less, when an encounter was fetched.
  <1>8. ASSUME NEW p \in DOMAIN lists, NEW k \in DOMAIN lists[p], NEW sh \in Shuffles, p = pass, k = i, sh = s
        PROVE  IF fetch_dummy THEN Stands(p, k)' <= shuffle_start_times[sh]
               ELSE Cardinality(Before(device, s, Stands(p, k)')) = Cardinality(Before(device, s, previous)) - 1
    <2>1. CASE fetch_dummy
      <3>1. Stands(p, k)' = previous
        BY <1>3, <1>8, <2>1, Moves
      <3>2. QED
        BY <1>4, <1>8, <2>1, <3>1 DEF fetch_dummy
    <2>2. CASE ~fetch_dummy
      <3>1. previous \in Covered(s) /\ device \in hist[previous]
        BY <1>1, <2>2, LooksUp
      <3>2. /\ Stands(p, k)' \in Nat /\ Stands(p, k)' < previous
            /\ \A v \in Times : Stands(p, k)' < v /\ v < previous => device \notin hist[v]
        BY <1>8, <2>2, Moves
      <3>3. QED
        BY <1>3, <1>4, <2>2, <3>1, <3>2, BeforeCounts
    <2>3. QED
      BY <2>1, <2>2
  <1>9. ASSUME NEW p \in DOMAIN lists, NEW k \in DOMAIN lists[p], NEW sh \in Shuffles, Finished(p, sh, k)'
        PROVE  Stands(p, k)' <= shuffle_start_times[sh]
    <2>1. /\ shuffle_start_times[sh] \in Nat /\ Stands(p, k) \in Nat
          /\ Stands(p, k)' \in Nat /\ Stands(p, k)' <= Stands(p, k)
      BY <1>3, StoreTypes, StandsTypes, Moves
    <2>2. CASE Finished(p, sh, k)
      <3>1. Stands(p, k) <= shuffle_start_times[sh]
        BY <2>2 DEF WithinInv
      <3>2. QED
        BY <2>1, <3>1
    <2>3. CASE LastRound /\ Current(p, sh, k) /\ ~fetch_dummy
      <3>1. p = pass /\ k = i /\ sh = s /\ j = setting.budget
        BY <2>3 DEF Current, LastRound
      <3>2. Cardinality(Before(device, s, previous)) <= 1
        BY <1>4, <1>6, <3>1
      <3>3. Cardinality(Before(device, s, previous)) \in Nat /\ Cardinality(Before(device, s, Stands(p, k)')) \in Nat
            /\ IsFiniteSet(Before(device, s, Stands(p, k)'))
        BY <1>3, <1>4, <2>1, BeforeCounts
      <3>4. Cardinality(Before(device, s, Stands(p, k)')) = 0
        BY <1>8, <2>3, <3>1, <3>2, <3>3
      <3>5. Before(device, s, Stands(p, k)') = {}
        BY <3>3, <3>4, FS_EmptySet
      <3>6. ASSUME shuffle_start_times[s] < Stands(p, k)' PROVE FALSE
        <4>1. previous \in Covered(s) /\ Stands(p, k)' < previous
          BY <1>1, <2>3, <3>1, LooksUp, Moves
        <4>2. Stands(p, k)' \in Times /\ device \in hist[Stands(p, k)']
          <5>1. PreviousInv' /\ Begun'
            BY Moves, FetchKeepsStore
          <5>2. Stands(p, k)' > 0
            BY <1>4, <2>1, <3>6
          <5>3. \A p1, k1 : Listed(p1, k1)' = Listed(p1, k1)
            BY <1>1, RunSame
          <5>4. Stands(p, k)' \in Times /\ Listed(p, k) \in hist[Stands(p, k)']
            BY <1>2, <5>1, <5>2, <5>3 DEF PreviousInv
          <5>5. QED
            BY <1>3, <3>1, <5>4
        <4>3. s > 1 => Stands(p, k)' <= shuffle_start_times[s - 1]
          <5>1. ASSUME s > 1 PROVE Stands(p, k)' <= shuffle_start_times[s - 1]
            <6>1. s - 1 \in Shuffles /\ previous <= shuffle_start_times[s - 1]
              BY <1>3, <4>1, <5>1, StoreTypes
            <6>2. shuffle_start_times[s - 1] \in Nat
              BY <6>1, StoreTypes
            <6>3. QED
              BY <1>4, <2>1, <4>1, <6>1, <6>2
          <5>2. QED
            BY <5>1
        <4>4. Stands(p, k)' \in Covered(s)
          BY <1>3, <3>6, <4>2, <4>3, StoreTypes
        <4>5. Stands(p, k)' \in Before(device, s, Stands(p, k)')
          BY <2>1, <4>2, <4>4 DEF Before
        <4>6. QED
          BY <3>5, <4>5
      <3>7. QED
        BY <1>4, <2>1, <3>1, <3>6
    <2>4. CASE LastRound /\ Current(p, sh, k) /\ fetch_dummy
      BY <1>8, <2>4 DEF Current
    <2>5. QED
      BY <1>9, <2>2, <2>3, <2>4, Turns
  <1>10. ASSUME pc' = "fetch"
         PROVE  Cardinality(Before(device, s, previous))' <= setting.budget - (j' - 1)
    <2>1. PICK p, k, sh : p = pass' /\ k = i' /\ sh = s'
      OBVIOUS
    <2>2. /\ p \in DOMAIN lists /\ k \in DOMAIN lists[p] /\ sh \in Shuffles
          /\ device' = Listed(p, k) /\ previous' = Stands(p, k)'
      <3>1. PlaceInv'
        BY Turns
      <3>2. /\ pass' \in DOMAIN lists /\ s' \in Shuffles /\ i' \in DOMAIN lists[pass']
        BY <1>2, <1>10, <3>1 DEF PlaceInv
      <3>3. device' = lists[p][k] /\ previous' = walk_previous'[p][k]
        BY <1>2, <2>1 DEF device, previous
      <3>4. QED
        BY <2>1, <3>2, <3>3 DEF Listed, Stands
    <2>3. Before(device, s, previous)' = Before(Listed(p, k), sh, Stands(p, k)')
      BY <1>2, <2>1, <2>2 DEF Before, Covered
    <2>4. Stands(p, k)' \in Nat
      BY <2>2, Moves
    <2>5. CASE LastRound
      <3>1. j' = 1
        BY <1>10, <2>5, Turns
      <3>2. Listed(p, k) \in walked
        BY <2>2 DEF walked, Ids, Listed
      <3>3. QED
        BY <1>4, <2>2, <2>3, <2>4, <3>1, <3>2, BeforeCounts
    <2>6. CASE ~LastRound
      <3>1. j' = j + 1 /\ p = pass /\ k = i /\ sh = s
        BY <2>1, <2>6, Turns DEF pass, s, i, j
      <3>2. j < setting.budget
        <4>1. j <= setting.budget
          BY <1>1, PlaceTypes
        <4>2. QED
          BY <1>3, <1>4, <2>6, <4>1 DEF LastRound
      <3>3. CASE fetch_dummy
        <4>1. Cardinality(Before(Listed(p, k), sh, Stands(p, k)')) = 0
          BY <1>8, <2>2, <2>4, <3>1, <3>3, BeforeCounts
        <4>2. QED
          BY <1>3, <1>4, <2>3, <3>1, <3>2, <4>1
      <3>4. CASE ~fetch_dummy
        <4>1. Cardinality(Before(Listed(p, k), sh, Stands(p, k)')) = Cardinality(Before(device, s, previous)) - 1
          BY <1>3, <1>8, <2>2, <3>1, <3>4
        <4>2. Cardinality(Before(device, s, previous)) \in Nat
          BY <1>3, <1>4, BeforeCounts
        <4>3. QED
          BY <1>3, <1>4, <1>6, <2>3, <3>1, <4>1, <4>2
      <3>5. QED
        BY <3>3, <3>4
    <2>7. QED
      BY <2>5, <2>6
  <1>11. QED
    BY <1>9, <1>10

\* The Bloom filter of the sources is not changed: the encounters are the same.
LEMMA TouchedSame ==
  ASSUME UNCHANGED run_vars, filter'.source = filter.source
  PROVE  \A k, sh : Touched(k, sh)' = Touched(k, sh)
  <1>1. setting' = setting /\ hist' = hist /\ \A p, k : Listed(p, k)' = Listed(p, k)
    BY RunSame
  <1>2. \A d, t : Partner(d, t)' = Partner(d, t)
    BY <1>1 DEF Partner
  <1>3. \A d : Contains(filter.source, d)' <=> Contains(filter.source, d)
    BY <1>1 DEF Contains
  <1>4. \A t : InRange(t)' <=> InRange(t)
    BY <1>1 DEF InRange
  <1>5. QED
    BY <1>1, <1>2, <1>3, <1>4 DEF Touched, Contains

LEMMA CountedFinite ==
  ASSUME RunInv
  PROVE  IsFiniteSet(Counted) /\ Cardinality(Counted) \in Nat
  <1>1. IsFiniteSet(Shuffles)
    BY StoreTypes, FS_Interval
  <1>2. IsFiniteSet(DOMAIN lists[1])
    <2>1. Len(lists[1]) \in Nat /\ DOMAIN lists[1] = 1..Len(lists[1])
      BY ListTypes
    <2>2. QED
      BY <2>1, FS_Interval
  <1>3. IsFiniteSet(Shuffles \X DOMAIN lists[1])
    BY <1>1, <1>2, FS_Product
  <1>4. Counted \in SUBSET (Shuffles \X DOMAIN lists[1])
    BY DEF Counted
  <1>5. QED
    BY <1>3, <1>4, FS_Subset, FS_CardinalityType

LEMMA FetchKeepsCount ==
  ASSUME RunInv, PlaceInv, StoreInv, PreviousInv, AheadInv, WithinInv, CountInv, Fetch
  PROVE  CountInv'
  <1>1. pc = "fetch" /\ found # NotFound /\ UNCHANGED run_vars /\ filter' = filter
    BY DEF Fetch
  <1>2. /\ lists' = lists /\ hist' = hist /\ (Within' <=> Within) /\ setting' = setting
        /\ query' = query
    BY <1>1, RunSame
  <1> SUFFICES ASSUME query.kind = "contact"
               PROVE  CountInv'
    BY <1>2 DEF CountInv
  <1>3. /\ pass \in DOMAIN lists /\ s \in Shuffles /\ i \in DOMAIN lists[pass] /\ Begun
        /\ device = Listed(pass, i) /\ previous = Stands(pass, i)
    BY <1>1, PlaceTypes
  <1>4. DOMAIN lists = {1} /\ pass = 1
    BY <1>3, ListTypes
  <1>5. PICK k, sh : k = i /\ sh = s
    OBVIOUS
  <1>6. k \in DOMAIN lists[1] /\ sh \in Shuffles
    BY <1>3, <1>4, <1>5
  <1>7. Stands(1, k) \in Nat /\ Stands(1, k)' \in Nat /\ Stands(1, k)' <= Stands(1, k) /\ previous = Stands(1, k)
    BY <1>3, <1>4, <1>5, <1>6, StandsTypes, Moves
  <1>8. \A k1, sh1 : Touched(k1, sh1)' = Touched(k1, sh1)
    BY <1>1, TouchedSame
  <1>9. \A sh1 \in Shuffles : \A k1 : \A t \in Touched(k1, sh1) :
           t \in Covered(sh1) /\ t \in Times /\ t \in Nat /\ Listed(1, k1) \in hist[t]
    BY StoreTypes DEF Touched
  <1>10. Begun' /\ (filter.source = Filled(filter_ids(query)))'
    <2>1. filter.source = Filled(filter_ids(query))
      BY <1>3 DEF CountInv
    <2>2. Filled(filter_ids(query))' = Filled(filter_ids(query))
      BY <1>2 DEF Filled, filter_ids
    <2>3. QED
      BY <1>1, <2>1, <2>2, FetchKeepsStore
  <1> DEFINE counts == /\ ~fetch_dummy /\ entry.confirmed
                       /\ InRange(previous) /\ Contains(filter.source, entry.encountered)
             contact == this_device_had_contact \/ counts
  <1>11. /\ this_device_had_contact' = (contact /\ ~LastRound)
         /\ output_count' = IF LastRound /\ contact THEN output_count + 1 ELSE output_count
    BY DEF Fetch, CheckContact
  <1>12. counts <=> ~fetch_dummy /\ previous \in Touched(k, sh)
    <2>1. CASE ~fetch_dummy
      <3>1. previous \in Covered(s) /\ entry = Recorded(device, previous).payload /\ device \in hist[previous]
        BY <1>1, <2>1, LooksUp
      <3>2. (entry.confirmed <=> previous \notin setting.unconfirmed) /\ entry.encountered = Partner(device, previous)
        BY <3>1 DEF Recorded
      <3>3. previous \in Covered(sh) /\ device = Listed(1, k)
        BY <1>3, <1>4, <1>5, <3>1
      <3>4. QED
        BY <2>1, <3>1, <3>2, <3>3 DEF Touched
    <2>2. QED
      BY <2>1
  <1>13. contact <=> \E t \in Touched(k, sh) : Stands(1, k)' < t
    <2>1. this_device_had_contact <=> \E t \in Touched(k, sh) : previous < t
      BY <1>1, <1>5 DEF CountInv
    <2>2. ASSUME this_device_had_contact PROVE \E t \in Touched(k, sh) : Stands(1, k)' < t
      BY <1>6, <1>7, <1>9, <2>1, <2>2
    <2>3. ASSUME counts PROVE \E t \in Touched(k, sh) : Stands(1, k)' < t
      <3>1. ~fetch_dummy /\ previous \in Touched(k, sh)
        BY <1>12, <2>3
      <3>2. Stands(1, k)' < previous
        BY <1>3, <1>4, <1>5, <1>6, <3>1, Moves
      <3>3. QED
        BY <3>1, <3>2
    <2>4. ASSUME NEW t \in Touched(k, sh), Stands(1, k)' < t PROVE contact
      <3>1. t \in Nat /\ t \in Times /\ Listed(1, k) \in hist[t]
        BY <1>6, <1>9
      <3>2. CASE previous < t
        BY <2>1, <3>2
      <3>3. CASE ~(previous < t)
        <4>1. Stands(1, k)' < previous
          BY <1>7, <2>4, <3>1, <3>3
        <4>2. ~fetch_dummy
          BY <1>3, <1>4, <1>5, <1>6, <1>7, <4>1, Moves
        <4>3. ~(t < previous)
          BY <1>3, <1>4, <1>5, <1>6, <2>4, <3>1, <4>2, Moves
        <4>4. t = previous
          BY <1>7, <3>1, <3>3, <4>3
        <4>5. QED
          BY <1>12, <4>2, <4>4
      <3>4. QED
        BY <3>2, <3>3
    <2>5. QED
      BY <2>2, <2>3, <2>4
  <1> HIDE DEF contact
  <1>14. ASSUME pc' = "fetch"
         PROVE  this_device_had_contact' = (\E t \in Touched(i, s) : previous < t)'
    <2>1. PICK k1, sh1 : k1 = i' /\ sh1 = s'
      OBVIOUS
    <2>2. pass' = 1 /\ k1 \in DOMAIN lists[1] /\ sh1 \in Shuffles
      <3>1. PlaceInv'
        BY Turns
      <3>2. pass' \in DOMAIN lists /\ i' \in DOMAIN lists[pass'] /\ s' \in Shuffles
        BY <1>2, <1>14, <3>1 DEF PlaceInv
      <3>3. QED
        BY <1>4, <2>1, <3>2
    <2>3. previous' = Stands(1, k1)'
      BY <2>1, <2>2 DEF previous, Stands
    <2>4. (\E t \in Touched(i, s) : previous < t)' <=> \E t \in Touched(k1, sh1) : Stands(1, k1)' < t
      <3>1. Touched(i, s)' = Touched(k1, sh1)'
        BY <2>1 DEF Touched, Covered
      <3>2. QED
        BY <1>8, <2>3, <3>1
    <2>5. CASE LastRound
      <3>1. ~Finished(1, sh1, k1) /\ ~Current(1, sh1, k1)
        <4>1. Current(1, sh1, k1)'
          BY <1>14, <2>1, <2>2 DEF Current
        <4>2. QED
          BY <1>4, <2>2, <2>5, <4>1, Turns
      <3>2. \A t \in Touched(k1, sh1) : t <= Stands(1, k1)'
        BY <1>4, <1>9, <2>2, <3>1, AheadStays
      <3>3. Stands(1, k1)' \in Nat
        BY <1>4, <2>2, Moves
      <3>4. ~\E t \in Touched(k1, sh1) : Stands(1, k1)' < t
        BY <1>9, <2>2, <3>2, <3>3
      <3>5. QED
        BY <1>11, <2>4, <2>5, <3>4
    <2>6. CASE ~LastRound
      <3>1. k1 = k /\ sh1 = sh
        BY <1>5, <2>1, <2>6, Turns DEF i, s
      <3>2. QED
        BY <1>11, <1>13, <2>4, <2>6, <3>1
    <2>7. QED
      BY <2>5, <2>6
  <1>15. ASSUME Within
         PROVE  output_count' = Cardinality(Counted')
    <2>1. output_count = Cardinality(Counted)
      BY <1>1, <1>15 DEF CountInv
    <2>2. Counted' = {x \in Shuffles \X DOMAIN lists[1] :
                         Finished(1, x[1], x[2])' /\ Touched(x[2], x[1]) # {}}
      BY <1>2, <1>8 DEF Counted
    <2>3. \A x \in Shuffles \X DOMAIN lists[1] :
             Finished(1, x[1], x[2])' <=> Finished(1, x[1], x[2]) \/ (LastRound /\ x = <<sh, k>>)
      <3>1. \A x \in Shuffles \X DOMAIN lists[1] :
               x = <<x[1], x[2]>> /\ (Current(1, x[1], x[2]) <=> x = <<sh, k>>)
        BY <1>1, <1>4, <1>5 DEF Current
      <3>2. QED
        BY <1>4, <3>1, Turns
    <2>4. CASE LastRound /\ Touched(k, sh) # {}
      <3>1. contact
        <4>1. PICK t \in Touched(k, sh) : TRUE
          BY <2>4
        <4>2. Finished(1, sh, k)'
          <5>1. Current(1, sh, k)
            BY <1>1, <1>4, <1>5 DEF Current
          <5>2. QED
            BY <1>4, <1>6, <2>4, <5>1, Turns
        <4>3. Stands(1, k)' <= shuffle_start_times[sh]
          <5>1. WithinInv'
            BY FetchKeepsWithin
          <5>2. QED
            BY <1>2, <1>4, <1>6, <1>15, <4>2, <5>1 DEF WithinInv
        <4>4. shuffle_start_times[sh] < t /\ shuffle_start_times[sh] \in Nat /\ t \in Nat
          BY <1>6, <1>9, StoreTypes
        <4>5. QED
          BY <1>7, <1>13, <4>3, <4>4
      <3>2. Counted' = Counted \cup {<<sh, k>>}
        BY <1>6, <2>2, <2>3, <2>4 DEF Counted
      <3>3. <<sh, k>> \notin Counted
        <4>1. ~Finished(1, sh, k)
          <5>1. s \in Nat /\ i \in Nat /\ pass \in Nat
            BY <1>1, PlaceTypes
          <5>2. QED
            BY <1>1, <1>4, <1>5, <5>1 DEF Finished, Ended
        <4>2. QED
          BY <4>1 DEF Counted
      <3>4. QED
        BY <1>11, <2>1, <2>4, <3>1, <3>2, <3>3, CountedFinite, FS_AddElement
    <2>5. CASE ~(LastRound /\ Touched(k, sh) # {})
      <3>1. Counted' = Counted
        BY <1>6, <2>2, <2>3, <2>5 DEF Counted
      <3>2. ~(LastRound /\ contact)
        BY <1>13, <2>5
      <3>3. QED
        BY <1>11, <2>1, <3>1, <3>2
    <2>6. QED
      BY <2>4, <2>5
  <1>16. QED
    BY <1>2, <1>10, <1>14, <1>15 DEF CountInv

-----------------------------------------------------------------------------
(* The other actions.                                                        *)

QueryInv == PreviousInv /\ LookedInv /\ SeenInv /\ AheadInv /\ NonceInv /\ WithinInv /\ CountInv

\* Before the walks begin.
LEMMA StoringKeeps ==
  ASSUME IInv, ~Begun, ~Begun', UNCHANGEDQuery
  PROVE  RunInv' /\ QueryInv'
  <1>1. UNCHANGED run_vars /\ UNCHANGED <<walk_previous, dummy_nonce, filter, this_device_had_contact,
                                          encounter_list, output_count, looked, again>>
    BY DEF UNCHANGEDQuery
  <1>2. RunInv'
    BY <1>1, RunSame DEF IInv
  <1>3. pc' \notin {"fetch", "split", "sort", "walk", "done"}
    BY DEF Begun, Storing
  <1>4. looked = {} /\ again = {} /\ dummy_nonce = 0
    BY DEF IInv, LookedInv, NonceInv
  <1>5. PreviousInv' /\ SeenInv' /\ AheadInv'
    BY <1>3 DEF PreviousInv, SeenInv, AheadInv
  <1>6. LookedInv' /\ NonceInv'
    BY <1>1, <1>3, <1>4 DEF LookedInv, NonceInv
  <1>7. \A p, sh, k : ~Finished(p, sh, k)'
    BY <1>3 DEF Finished, Ended
  <1>8. WithinInv'
    BY <1>3, <1>7 DEF WithinInv
  <1>9. query.kind = "contact" => output_count = 0 /\ this_device_had_contact = FALSE
    BY DEF IInv, CountInv
  <1>10. CountInv'
    BY <1>1, <1>3, <1>9 DEF CountInv, run_vars
  <1>11. QED
    BY <1>2, <1>5, <1>6, <1>8, <1>10 DEF QueryInv

LEMMA StoreEpochKeeps ==
  ASSUME IInv, StoreEpoch
  PROVE  IInv'
  <1>1. /\ pc = "store" /\ pc' = "send" /\ UNCHANGEDQuery
        /\ shuffle_store' = shuffle_store /\ at' = at /\ UNCHANGED run_vars
        /\ alice' = UNION {{store_path_encounter(Recorded(d, t)) : d \in hist[t]} : t \in Covered(s)}
    BY DEF StoreEpoch, UNCHANGEDQuery
  <1>2. RunInv' /\ QueryInv'
    BY <1>1, StoringKeeps DEF Begun, Storing
  <1>3. s' = s /\ alice' = Stored(s)
    BY <1>1 DEF s, Stored
  <1>4. PlaceInv'
    BY <1>1, <1>3 DEF IInv, PlaceInv, Storing
  <1>5. StoreInv'
    <2>1. \A sh : Stored(sh)' = Stored(sh) /\ ArrayOf(sh)' = ArrayOf(sh)
      BY <1>1, RunSame
    <2>2. Stored(s)' = Stored(s)
      BY <1>1 DEF Stored, s, Recorded, Partner, Previous, run_vars
    <2>3. QED
      BY <1>1, <1>3, <2>1, <2>2 DEF IInv, StoreInv, Storing
  <1>6. QED
    BY <1>2, <1>4, <1>5 DEF IInv, QueryInv

LEMMA SendShuffleKeeps ==
  ASSUME IInv, SendShuffle
  PROVE  IInv'
  <1>1. /\ pc = "send" /\ pc' = "receive" /\ UNCHANGEDQuery
        /\ shuffle_store' = shuffle_store /\ at' = at /\ UNCHANGED run_vars
        /\ wire' = send_shuffle(alice, dummies, 0)
    BY DEF SendShuffle, UNCHANGEDQuery
  <1>2. RunInv' /\ QueryInv'
    BY <1>1, StoringKeeps DEF Begun, Storing
  <1>3. s' = s /\ alice = Stored(s)
    BY <1>1 DEF s, IInv, StoreInv
  <1>4. PlaceInv'
    BY <1>1, <1>3 DEF IInv, PlaceInv, Storing
  <1>5. StoreInv'
    <2>1. \A sh : Stored(sh)' = Stored(sh) /\ ArrayOf(sh)' = ArrayOf(sh)
      BY <1>1, RunSame
    <2>2. Stored(s)' = Stored(s)
      BY <1>1 DEF Stored, s, Recorded, Partner, Previous, run_vars
    <2>3. QED
      BY <1>1, <1>3, <2>1, <2>2 DEF IInv, StoreInv, Storing
  <1>6. QED
    BY <1>2, <1>4, <1>5 DEF IInv, QueryInv

LEMMA ReceiveShuffleKeeps ==
  ASSUME IInv, ReceiveShuffle
  PROVE  IInv'
  <1>1. /\ pc = "receive" /\ UNCHANGEDQuery /\ UNCHANGED run_vars
        /\ shuffle_store' = [shuffle_store EXCEPT ![s] = receive_shuffle(setting.salt, wire)]
        /\ IF s > 1 THEN pc' = "store" /\ at' = [at EXCEPT ![2] = s - 1] ELSE pc' = "start" /\ at' = at
    BY DEF ReceiveShuffle, UNCHANGEDQuery
  <1>2. RunInv' /\ QueryInv'
    BY <1>1, StoringKeeps DEF Begun, Storing
  <1>3. s \in Shuffles /\ at = <<1, s, 1, 1>> /\ s \in Nat /\ s >= 1
    BY <1>1, StoreTypes DEF IInv, PlaceInv, Storing
  <1>4. CASE s > 1
    <2>1. pc' = "store" /\ at' = <<1, s - 1, 1, 1>> /\ s' = s - 1
      BY <1>1, <1>3, <1>4 DEF s
    <2>2. s - 1 \in Shuffles
      BY <1>3, <1>4, StoreTypes
    <2>3. PlaceInv'
      BY <2>1, <2>2 DEF PlaceInv, Storing
    <2>4. QED
      <3>1. StoreInv'
        <4>1. \A sh : ArrayOf(sh)' = ArrayOf(sh)
          BY <1>1, RunSame
        <4>2. receive_shuffle(setting.salt, wire) = ArrayOf(s)
          BY <1>1 DEF IInv, StoreInv, ArrayOf
        <4>3. DOMAIN shuffle_store = Shuffles /\ \A sh \in Shuffles : s < sh => shuffle_store[sh] = ArrayOf(sh)
          BY <1>1 DEF IInv, StoreInv, Storing
        <4>4. \A sh \in Shuffles : s - 1 < sh => shuffle_store'[sh] = ArrayOf(sh)
          <5> TAKE sh \in Shuffles
          <5> HAVE s - 1 < sh
          <5>1. sh = s \/ s < sh
            BY <1>3, StoreTypes
          <5>2. QED
            BY <1>1, <1>3, <4>2, <4>3, <5>1
        <4>5. DOMAIN shuffle_store' = Shuffles
          BY <1>1, <4>3
        <4>6. QED
          BY <2>1, <4>1, <4>4, <4>5 DEF StoreInv, Storing
      <3>2. QED
        BY <1>2, <2>3, <3>1 DEF IInv, QueryInv
  <1>5. CASE ~(s > 1)
    <2>1. s = 1 /\ pc' = "start" /\ at' = <<1, 1, 1, 1>>
      BY <1>1, <1>3, <1>5
    <2>2. PlaceInv'
      BY <2>1 DEF PlaceInv, Storing
    <2>3. StoreInv'
      <3>1. \A sh : ArrayOf(sh)' = ArrayOf(sh)
        BY <1>1, RunSame
      <3>2. receive_shuffle(setting.salt, wire) = ArrayOf(s)
        BY <1>1 DEF IInv, StoreInv, ArrayOf
      <3>3. DOMAIN shuffle_store = Shuffles /\ \A sh \in Shuffles : s < sh => shuffle_store[sh] = ArrayOf(sh)
        BY <1>1 DEF IInv, StoreInv, Storing
      <3>4. \A sh \in Shuffles : shuffle_store'[sh] = ArrayOf(sh)
        <4> TAKE sh \in Shuffles
        <4>1. sh = s \/ s < sh
          BY <2>1, StoreTypes
        <4>2. QED
          BY <1>1, <1>3, <3>2, <3>3, <4>1
      <3>5. DOMAIN shuffle_store' = Shuffles
        BY <1>1, <3>3
      <3>6. QED
        BY <2>1, <3>1, <3>4, <3>5 DEF StoreInv, Storing
    <2>4. QED
      BY <1>2, <2>2, <2>3 DEF IInv, QueryInv
  <1>6. QED
    BY <1>4, <1>5

LEMMA StartKeeps ==
  ASSUME IInv, Start
  PROVE  IInv'
  <1>1. /\ pc = "start" /\ pc' = "fetch" /\ UNCHANGED run_vars /\ UNCHANGED store_vars /\ at' = at
        /\ dummy_nonce' = dummy_nonce /\ this_device_had_contact' = this_device_had_contact
        /\ output_count' = output_count /\ looked' = looked /\ again' = again
        /\ walk_previous' = [p \in DOMAIN lists |-> [k \in DOMAIN lists[p] |-> Previous(lists[p][k], T + 1)]]
        /\ filter'.source = IF query.kind = "contact" THEN Filled(filter_ids(query)) ELSE Filled(query.source)
    BY DEF Start
  <1>2. /\ lists' = lists /\ hist' = hist /\ (Within' <=> Within) /\ setting' = setting /\ query' = query
        /\ RunInv' = RunInv
        /\ \A p, k : Listed(p, k)' = Listed(p, k)
        /\ \A sh : ArrayOf(sh)' = ArrayOf(sh)
    BY <1>1, RunSame
  <1>3. RunInv /\ RunInv'
    BY <1>2 DEF IInv
  <1>4. /\ 1 \in DOMAIN lists
        /\ \A p \in DOMAIN lists : 1 \in DOMAIN lists[p] /\ \A k \in DOMAIN lists[p] : k \in Nat /\ k >= 1
        /\ \A p \in DOMAIN lists : p \in Nat /\ p >= 1
        /\ setting.budget \in Nat /\ setting.budget >= 1
        /\ \A sh \in Shuffles : sh \in Nat /\ sh >= 1
        /\ 1 \in Shuffles
    BY <1>3, ListTypes, StoreTypes
  <1>5. at = <<1, 1, 1, 1>> /\ pass' = 1 /\ s' = 1 /\ i' = 1 /\ j' = 1 /\ at' = <<1, 1, 1, 1>>
    BY <1>1 DEF IInv, PlaceInv, Storing, pass, s, i, j
  <1>6. Begun' /\ ~Begun /\ ~Ended'
    BY <1>1 DEF Begun, Storing, Ended
  <1>7. PlaceInv'
    BY <1>1, <1>2, <1>4, <1>5 DEF PlaceInv, Storing
  <1>8. StoreInv'
    BY <1>1, <1>2 DEF IInv, StoreInv, Storing, store_vars
  <1>9. \A p \in DOMAIN lists : \A k \in DOMAIN lists[p] :
           /\ Stands(p, k)' \in Nat
           /\ Stands(p, k)' = 0 \/ (Stands(p, k)' \in Times /\ Listed(p, k) \in hist[Stands(p, k)'])
           /\ \A v \in Times : Listed(p, k) \in hist[v] => v <= Stands(p, k)'
    <2> TAKE p \in DOMAIN lists
    <2> TAKE k \in DOMAIN lists[p]
    <2> DEFINE new == Previous(Listed(p, k), T + 1)
    <2>1. Stands(p, k)' = new
      BY <1>1 DEF Stands, Listed
    <2>2. T \in Nat /\ T + 1 \in 1..T + 1
      BY StoreAssumption
    <2>3. /\ new \in Nat
          /\ new = 0 \/ (new \in Times /\ Listed(p, k) \in hist[new])
          /\ \A v \in Times : new < v /\ v < T + 1 => Listed(p, k) \notin hist[v]
      BY <1>3, <2>2, PreviousIs
    <2> HIDE DEF new
    <2>4. \A v \in Times : v \in Nat /\ v < T + 1
      BY <2>2 DEF Times
    <2>5. \A v \in Times : Listed(p, k) \in hist[v] => v <= new
      BY <2>3, <2>4
    <2>6. QED
      BY <2>1, <2>3, <2>5
  <1>10. PreviousInv'
    <2>1. DOMAIN walk_previous' = DOMAIN lists /\ \A p \in DOMAIN lists : DOMAIN walk_previous'[p] = DOMAIN lists[p]
      BY <1>1
    <2>2. QED
      BY <1>2, <1>9, <2>1 DEF PreviousInv
  <1>11. looked' = {} /\ again' = {} /\ dummy_nonce' = 0
    BY <1>1, <1>6 DEF IInv, LookedInv, NonceInv
  <1>12. LookedInv'
    BY <1>6, <1>11 DEF LookedInv
  <1>13. SeenInv' /\ AheadInv'
    <2>1. \A p \in DOMAIN lists : \A k \in DOMAIN lists[p] : \A sh \in Shuffles : \A t \in Covered(sh) :
             Listed(p, k) \in hist[t] => t <= Stands(p, k)' /\ ~(Stands(p, k)' < t)
      <3> TAKE p \in DOMAIN lists
      <3> TAKE k \in DOMAIN lists[p]
      <3> TAKE sh \in Shuffles
      <3> TAKE t \in Covered(sh)
      <3> HAVE Listed(p, k) \in hist[t]
      <3>1. t \in Times /\ t \in Nat /\ Stands(p, k)' \in Nat
        BY <1>9, StoreTypes
      <3>2. t <= Stands(p, k)'
        BY <1>9, <3>1
      <3>3. QED
        BY <3>1, <3>2
    <2>2. QED
      BY <1>2, <2>1 DEF SeenInv, AheadInv
  <1>14. NonceInv'
    <2>1. setting.budget * (1 - 1) + (1 - 1) = 0
      BY <1>4
    <2>2. QED
      BY <1>2, <1>5, <1>6, <1>11, <2>1 DEF NonceInv
  <1>15. \A p \in DOMAIN lists : \A k \in DOMAIN lists[p] : \A sh \in Shuffles : ~Finished(p, sh, k)'
    BY <1>1, <1>4, <1>5, <1>6 DEF Finished
  <1>16. WithinInv'
    <2>1. ASSUME Within PROVE Cardinality(Before(device, s, previous))' <= setting.budget - (1 - 1)
      <3>1. device' = Listed(1, 1) /\ previous' = Stands(1, 1)'
        BY <1>2, <1>5 DEF device, previous, Listed, Stands
      <3>2. Before(device, s, previous)' = Before(Listed(1, 1), 1, Stands(1, 1)')
        BY <1>2, <1>5, <3>1 DEF Before, Covered
      <3>3. Listed(1, 1) \in walked /\ Stands(1, 1)' \in Nat
        BY <1>4, <1>9 DEF walked, Ids, Listed
      <3>4. QED
        BY <1>3, <1>4, <2>1, <3>2, <3>3, BeforeCounts
    <2>2. QED
      BY <1>1, <1>2, <1>5, <1>15, <2>1 DEF WithinInv
  <1>17. CountInv'
    <2> SUFFICES ASSUME query.kind = "contact" PROVE CountInv'
      BY <1>2 DEF CountInv
    <2>1. output_count' = 0 /\ this_device_had_contact' = FALSE
      BY <1>1, <1>6 DEF IInv, CountInv
    <2>2. (filter.source = Filled(filter_ids(query)))'
      BY <1>1, <1>2 DEF Filled, filter_ids
    <2>3. ~(\E t \in Touched(i, s) : previous < t)'
      <3>1. previous' = Stands(1, 1)'
        BY <1>5 DEF previous, Stands
      <3>2. \A t : t \in Touched(i, s)' => t \in Covered(1) /\ Listed(1, 1) \in hist[t]
        <4>1. Touched(i, s)' = Touched(1, 1)'
          BY <1>5 DEF Touched, Covered
        <4>2. \A t : t \in Touched(1, 1)' => t \in Covered(1) /\ Listed(1, 1)' \in hist'[t]
          BY DEF Touched
        <4>3. QED
          BY <1>2, <4>1, <4>2
      <3>3. \A t : t \in Touched(i, s)' => ~(Stands(1, 1)' < t)
        <4> TAKE t
        <4> HAVE t \in Touched(i, s)'
        <4>1. t \in Nat /\ t \in Times /\ Listed(1, 1) \in hist[t]
          BY <1>4, <3>2, StoreTypes
        <4>2. Stands(1, 1)' \in Nat /\ t <= Stands(1, 1)'
          BY <1>4, <1>9, <4>1
        <4>3. QED
          BY <4>1, <4>2
      <3>4. QED
        BY <3>1, <3>3
    <2>4. Cardinality(Counted') = 0
      <3>1. Counted' = {}
        <4>1. DOMAIN lists = {1}
          BY <1>3, ListTypes
        <4>2. QED
          BY <1>2, <1>4, <1>15 DEF Counted
      <3>2. QED
        BY <3>1, FS_EmptySet
    <2>5. QED
      BY <1>6, <2>1, <2>2, <2>3, <2>4 DEF CountInv
  <1>18. QED
    BY <1>3, <1>7, <1>8, <1>10, <1>12, <1>13, <1>14, <1>16, <1>17 DEF IInv

LEMMA FetchKeeps ==
  ASSUME IInv, Fetch
  PROVE  IInv'
  <1>1. /\ RunInv /\ PlaceInv /\ StoreInv /\ PreviousInv /\ LookedInv /\ SeenInv /\ AheadInv
        /\ NonceInv /\ WithinInv /\ CountInv
    BY DEF IInv
  <1>2. RunInv'
    BY <1>1, RunSame DEF Fetch
  <1>3. PlaceInv' /\ StoreInv' /\ PreviousInv' /\ LookedInv' /\ SeenInv' /\ AheadInv'
    BY <1>1, Turns, FetchKeepsStore, Moves, FetchKeepsLooked, FetchKeepsSeen, FetchKeepsAhead
  <1>4. NonceInv' /\ WithinInv' /\ CountInv'
    BY <1>1, FetchKeepsNonce, FetchKeepsWithin, FetchKeepsCount
  <1>5. QED
    BY <1>2, <1>3, <1>4 DEF IInv

\* After the walks nothing of them changes.
LEMMA WalkedKeeps ==
  ASSUME IInv, Begun, Begun', pc' # "fetch",
         UNCHANGED <<run_vars, shuffle_store, walk_previous, looked, again>>
  PROVE  RunInv' /\ StoreInv' /\ PreviousInv' /\ LookedInv' /\ SeenInv' /\ AheadInv' /\ NonceInv'
  <1>1. UNCHANGED run_vars /\ walk_previous' = walk_previous /\ looked' = looked /\ again' = again
        /\ shuffle_store' = shuffle_store
    OBVIOUS
  <1>2. /\ lists' = lists /\ hist' = hist /\ RunInv' = RunInv
        /\ \A p, k : Listed(p, k)' = Listed(p, k)
        /\ \A sh : ArrayOf(sh)' = ArrayOf(sh)
    BY <1>1, RunSame
  <1>3. \A p, k : Stands(p, k)' = Stands(p, k)
    BY <1>1 DEF Stands
  <1>4. pc \notin Storing /\ pc' \notin Storing
    BY DEF Begun
  <1>5. RunInv' /\ StoreInv'
    BY <1>1, <1>2, <1>4 DEF IInv, StoreInv, Storing
  <1>6. PreviousInv' /\ SeenInv' /\ AheadInv'
    BY <1>1, <1>2, <1>3 DEF IInv, PreviousInv, SeenInv, AheadInv
  <1>7. \A x, p, k, t : LookedUp(x, p, k, t)' <=> LookedUp(x, p, k, t)
    BY <1>2, <1>3 DEF LookedUp
  <1>8. LookedInv' /\ NonceInv'
    BY <1>1, <1>2, <1>7 DEF IInv, LookedInv, NonceInv
  <1>9. QED
    BY <1>5, <1>6, <1>8

\* A key that is not found was not made for the shuffle: no dummy, and no
\* encounter unless the walk of the shuffle before was too short.
LEMMA FailsOnlyBeyond ==
  ASSUME IInv, FetchFails, Within, EnoughDummies
  PROVE  FALSE
  <1>1. /\ RunInv /\ PlaceInv /\ StoreInv /\ PreviousInv /\ NonceInv /\ WithinInv
        /\ pc = "fetch" /\ found = NotFound
    BY DEF IInv, FetchFails
  <1>2. /\ pass \in DOMAIN lists /\ pass \in Nat /\ s \in Shuffles /\ s \in Nat /\ s >= 1
        /\ i \in DOMAIN lists[pass] /\ i \in Nat /\ i >= 1 /\ i <= Len(lists[pass])
        /\ j \in Nat /\ j >= 1 /\ j <= setting.budget /\ Begun
        /\ device = Listed(pass, i) /\ previous = Stands(pass, i)
    BY <1>1, PlaceTypes
  <1>3. original_key \notin Keys(s)
    BY <1>1, LooksUp
  <1>4. CASE fetch_dummy
    <2> DEFINE b == setting.budget
               length == Len(lists[pass])
               k == i
               round == j
    <2>1. original_key = Dummy(dummy_nonce) /\ dummy_nonce \in Nat
          /\ dummy_nonce <= b * (k - 1) + (round - 1)
      BY <1>1, <1>4, LooksUp DEF NonceInv
    <2>2. b \in Nat /\ length \in Nat /\ dummies \in Nat /\ b * length <= dummies
      <3>1. \A p \in DOMAIN ListsOf(query) : setting.budget * Len(ListsOf(query)[p]) <= dummies
        BY <1>1 DEF EnoughDummies, RunInv
      <3>2. QED
        BY <1>1, <1>2, <3>1, ListTypes, StoreAssumption DEF lists
    <2>3. k \in Nat /\ k - 1 \in Nat /\ k <= length /\ round \in Nat /\ round >= 1 /\ round <= b
      BY <1>2
    <2> HIDE DEF b, length, k, round
    <2>4. b * (k - 1) \in Nat /\ b * ((k - 1) + 1) = b * (k - 1) + b /\ (k - 1) + 1 = k
      BY <2>2, <2>3, Product
    <2>5. b * k <= b * length /\ b * k \in Nat /\ b * length \in Nat
      BY <2>2, <2>3, Product
    <2>6. dummy_nonce < dummies
      <3>1. b * k = b * (k - 1) + b
        BY <2>4
      <3>2. b * (k - 1) + (round - 1) < b * k
        BY <2>2, <2>3, <2>4, <3>1
      <3>3. QED
        BY <2>1, <2>2, <2>3, <2>4, <2>5, <3>2
    <2>7. dummy_nonce \in 0..dummies - 1
      BY <2>1, <2>2, <2>6
    <2>8. QED
      BY <1>3, <2>1, <2>7 DEF Keys, Dummies
  <1>5. CASE ~fetch_dummy
    <2>1. /\ original_key = mac(device, previous) /\ previous \in Times
          /\ device \in hist[previous] /\ shuffle_start_times[s] < previous
      BY <1>1, <1>5, LooksUp
    <2>2. s > 1 => previous <= shuffle_start_times[s - 1]
      <3>1. ASSUME s > 1 PROVE previous <= shuffle_start_times[s - 1]
        <4>1. s - 1 \in Shuffles
          BY <1>2, <3>1, StoreTypes
        <4>2. Finished(pass, s - 1, i)
          BY <1>1, <1>2 DEF Finished
        <4>3. Stands(pass, i) <= shuffle_start_times[s - 1]
          BY <1>1, <1>2, <4>1, <4>2 DEF WithinInv
        <4>4. QED
          BY <1>2, <4>3
      <3>2. QED
        BY <3>1
    <2>3. previous \in Covered(s)
      BY <1>2, <2>1, <2>2, StoreTypes
    <2>4. original_key \in Keys(s)
      BY <2>1, <2>3 DEF Keys, Kept
    <2>5. QED
      BY <1>3, <2>4
  <1>6. QED
    BY <1>4, <1>5

LEMMA FetchFailsKeeps ==
  ASSUME IInv, FetchFails
  PROVE  IInv'
  <1>1. /\ pc = "fetch" /\ pc' = "split"
        /\ UNCHANGED <<run_vars, shuffle_store, walk_previous, looked, again>>
        /\ filter' = filter
    BY DEF FetchFails, store_vars
  <1>2. Begun /\ Begun' /\ ~Ended'
    BY <1>1 DEF Begun, Storing, Ended
  <1>3. RunInv' /\ StoreInv' /\ PreviousInv' /\ LookedInv' /\ SeenInv' /\ AheadInv' /\ NonceInv'
    BY <1>1, <1>2, WalkedKeeps
  <1>4. UNCHANGED run_vars
    BY <1>1
  <1>5. (Within' <=> Within) /\ setting' = setting /\ query' = query
    BY <1>4, RunSame
  <1>6. PlaceInv'
    BY <1>1 DEF PlaceInv, Storing
  <1>7. WithinInv'
    <2>1. ~(Within /\ EnoughDummies)
      BY FailsOnlyBeyond
    <2>2. \A p, sh, k : ~Finished(p, sh, k)'
      BY <1>1, <1>2 DEF Finished
    <2>3. QED
      BY <1>1, <1>5, <2>1, <2>2 DEF WithinInv
  <1>8. CountInv'
    <2>1. Filled(filter_ids(query))' = Filled(filter_ids(query))
      BY <1>5 DEF Filled, filter_ids
    <2>2. query.kind = "contact" => filter.source = Filled(filter_ids(query))
      BY <1>2 DEF IInv, CountInv
    <2>3. QED
      BY <1>1, <1>2, <1>5, <2>1, <2>2 DEF CountInv
  <1>9. QED
    BY <1>3, <1>6, <1>7, <1>8 DEF IInv

\* flow() walks through its list after the walks.
LEMMA AfterwardsKeeps ==
  ASSUME IInv, SortList \/ WalkThrough
  PROVE  IInv'
  <1>1. /\ pc \in {"sort", "walk"} /\ pc' \in {"walk", "done"}
        /\ UNCHANGED <<run_vars, shuffle_store, walk_previous, looked, again>>
    BY DEF SortList, WalkThrough, store_vars
  <1>2. Begun /\ Begun' /\ Ended /\ Ended'
    BY <1>1 DEF Begun, Storing, Ended
  <1>3. RunInv' /\ StoreInv' /\ PreviousInv' /\ LookedInv' /\ SeenInv' /\ AheadInv' /\ NonceInv'
    BY <1>1, <1>2, WalkedKeeps
  <1>4. UNCHANGED run_vars
    BY <1>1
  <1>5. (Within' <=> Within) /\ lists' = lists /\ query' = query
    BY <1>4, RunSame
  <1>6. query.kind # "contact"
    BY <1>1 DEF IInv, PlaceInv
  <1>7. PlaceInv' /\ CountInv'
    BY <1>1, <1>5, <1>6 DEF PlaceInv, CountInv, Storing
  <1>8. WithinInv'
    <2>1. \A p, sh, k : Finished(p, sh, k) /\ Finished(p, sh, k)' /\ Stands(p, k)' = Stands(p, k)
      BY <1>1, <1>2 DEF Finished, Stands
    <2>2. QED
      BY <1>1, <1>5, <2>1 DEF IInv, WithinInv
  <1>9. QED
    BY <1>3, <1>7, <1>8 DEF IInv

LEMMA InitInv == Init => IInv
  <1> SUFFICES ASSUME Init PROVE IInv
    OBVIOUS
  <1>1. /\ pc = "store" /\ at = <<1, Len(shuffle_start_times), 1, 1>>
        /\ shuffle_store = [sh \in Shuffles |-> <<>>]
        /\ looked = {} /\ again = {} /\ dummy_nonce = 0 /\ output_count = 0
        /\ this_device_had_contact = FALSE
    BY DEF Init
  <1>2. RunInv
    BY DEF Init, RunInv
  <1>3. s = Len(shuffle_start_times) /\ s \in Shuffles /\ ~Begun /\ ~Ended
    BY <1>1, StoreTypes DEF s, Begun, Storing, Ended
  <1>4. PlaceInv
    BY <1>1, <1>3 DEF PlaceInv, Storing
  <1>5. StoreInv
    <2>1. \A sh \in Shuffles : ~(s < sh)
      BY <1>3, StoreTypes
    <2>2. QED
      BY <1>1, <2>1 DEF StoreInv, Storing
  <1>6. PreviousInv /\ LookedInv /\ SeenInv /\ AheadInv /\ NonceInv
    BY <1>1, <1>3 DEF PreviousInv, LookedInv, SeenInv, AheadInv, NonceInv
  <1>7. WithinInv
    BY <1>1, <1>3 DEF WithinInv, Finished
  <1>8. CountInv
    BY <1>1, <1>3 DEF CountInv
  <1>9. QED
    BY <1>2, <1>4, <1>5, <1>6, <1>7, <1>8 DEF IInv

LEMMA StutterKeeps ==
  ASSUME IInv, UNCHANGED vars
  PROVE  IInv'
  <1>1. /\ UNCHANGED run_vars /\ alice' = alice /\ wire' = wire /\ shuffle_store' = shuffle_store
        /\ pc' = pc /\ at' = at /\ walk_previous' = walk_previous /\ dummy_nonce' = dummy_nonce
        /\ filter' = filter /\ this_device_had_contact' = this_device_had_contact
        /\ output_count' = output_count /\ looked' = looked /\ again' = again
    BY DEF vars, store_vars
  <1>2. query' = query /\ setting' = setting /\ hist' = hist
    BY <1>1 DEF run_vars
  <1>3. RunInv' /\ PlaceInv'
    BY <1>1, <1>2 DEF IInv, RunInv, PlaceInv, lists, pass, s, i, j
  <1>4. StoreInv'
    <2>1. (\A sh : ArrayOf(sh)' = ArrayOf(sh)) /\ Stored(s)' = Stored(s) /\ s' = s
      BY <1>1, <1>2, RunSame DEF Stored, s, Recorded, Partner, Previous
    <2>2. QED
      BY <1>1, <2>1 DEF IInv, StoreInv
  <1>5. PreviousInv' /\ LookedInv' /\ SeenInv'
    BY <1>1, <1>2 DEF IInv, PreviousInv, LookedInv, SeenInv, Begun, Stands, Listed, LookedUp, lists
  <1>6. AheadInv' /\ NonceInv'
    BY <1>1, <1>2 DEF IInv, AheadInv, NonceInv, Begun, Stands, Listed, lists, Finished, Current, Ended,
                      pass, s, i, j
  <1>7. WithinInv'
    <2>1. Within' <=> Within
      BY <1>1, RunSame
    <2>2. QED
      BY <1>1, <1>2, <2>1 DEF IInv, WithinInv, Stands, lists, Finished, Ended, pass, s, i, j, Before,
                              device, previous
  <1>8. CountInv'
    <2>1. Within' <=> Within
      BY <1>1, RunSame
    <2>2. Counted' = Counted /\ (\E t \in Touched(i, s) : previous < t)' = (\E t \in Touched(i, s) : previous < t)
      BY <1>1, <1>2 DEF Counted, Touched, Finished, Ended, pass, s, i, Listed, lists, previous,
                        InRange, Contains, Partner
    <2>3. Filled(filter_ids(query))' = Filled(filter_ids(query))
      BY <1>2 DEF Filled, filter_ids
    <2>4. QED
      BY <1>1, <1>2, <2>1, <2>2, <2>3 DEF IInv, CountInv, Begun
  <1>9. QED
    BY <1>3, <1>4, <1>5, <1>6, <1>7, <1>8 DEF IInv

LEMMA StepInv == IInv /\ [Next]_vars => IInv'
  <1> SUFFICES ASSUME IInv, [Next]_vars PROVE IInv'
    OBVIOUS
  <1>1. CASE StoreEpoch
    BY <1>1, StoreEpochKeeps
  <1>2. CASE SendShuffle
    BY <1>2, SendShuffleKeeps
  <1>3. CASE ReceiveShuffle
    BY <1>3, ReceiveShuffleKeeps
  <1>4. CASE Start
    BY <1>4, StartKeeps
  <1>5. CASE Fetch
    BY <1>5, FetchKeeps
  <1>6. CASE FetchFails
    BY <1>6, FetchFailsKeeps
  <1>7. CASE SortList \/ WalkThrough
    BY <1>7, AfterwardsKeeps
  <1>8. CASE UNCHANGED vars
    BY <1>8, StutterKeeps
  <1>9. QED
    BY <1>1, <1>2, <1>3, <1>4, <1>5, <1>6, <1>7, <1>8 DEF Next

\* What the proofs below rest on: the invariant of the two walks, with what each machine
\* has fetched, sent and counted so far, holds in every state of contact() and flow().
THEOREM InvariantAlways == Spec => []IInv
  <1>1. Init => IInv
    BY InitInv
  <1>2. IInv /\ [Next]_vars => IInv'
    BY StepInv
  <1>3. QED
    BY <1>1, <1>2, PTL DEF Spec

-----------------------------------------------------------------------------
(* What follows.                                                             *)

LEMMA OnceListed ==
  ASSUME DistinctDevices, RunInv, NEW p1 \in DOMAIN lists, NEW p2 \in DOMAIN lists,
         NEW k1 \in DOMAIN lists[p1], NEW k2 \in DOMAIN lists[p2], Listed(p1, k1) = Listed(p2, k2)
  PROVE  p1 = p2 /\ k1 = k2
  <1>1. lists = ListsOf(query) /\ query \in Queries
    BY DEF lists, RunInv
  <1>2. k1 \in DOMAIN ListsOf(query)[p1] /\ k2 \in DOMAIN ListsOf(query)[p2]
        /\ ListsOf(query)[p1][k1] = ListsOf(query)[p2][k2]
    BY <1>1 DEF Listed
  <1>3. QED
    BY <1>1, <1>2 DEF DistinctDevices

\* The machines return together: RIGHT's search finds every key that is looked up when
\* no device has more encounters in a shuffle than are fetched for it, and each shuffle
\* was filled with a dummy for every fetch (contact_path_query.hpp:116-131).
THEOREM NoSplitAlways ==
  ASSUME EnoughDummies
  PROVE  Spec => []NoSplit
  <1>1. IInv => NoSplit
    BY DEF IInv, WithinInv, NoSplit
  <1>2. QED
    BY <1>1, InvariantAlways, PTL

\* Both queries have looked up all encounters of the devices, in the shuffles that have
\* them, and nothing else but dummies, when they are over: whatever the histories, the
\* number of shuffles and where the hashes put the keys (contact_path_query.hpp:72-152,
\* flow_path_query.hpp).
THEOREM WalkCompleteAlways == Spec => []WalkComplete
  <1>1. IInv => WalkComplete
    <2> SUFFICES ASSUME IInv, Ended, Within
                 PROVE  {x \in looked : x[2][1] # nobody} =
                        UNION {{<<sh, mac(d, t)>> : t \in {u \in Covered(sh) : d \in hist[u]}} :
                               d \in walked, sh \in Shuffles}
      BY DEF WalkComplete
    <2> DEFINE due == UNION {{<<sh, mac(d, t)>> : t \in {u \in Covered(sh) : d \in hist[u]}} :
                             d \in walked, sh \in Shuffles}
    <2>1. RunInv /\ PreviousInv /\ LookedInv /\ SeenInv /\ WithinInv /\ Begun
      BY DEF IInv, Begun, Storing, Ended
    <2>2. \A x : x \in due <=> \E d \in walked : \E sh \in Shuffles : \E t \in Covered(sh) :
                                  d \in hist[t] /\ x = <<sh, mac(d, t)>>
      <3> DEFINE of(d, sh) == {<<sh, mac(d, t)>> : t \in {u \in Covered(sh) : d \in hist[u]}}
      <3>1. \A d, sh, x : x \in of(d, sh) <=> \E t \in Covered(sh) : d \in hist[t] /\ x = <<sh, mac(d, t)>>
        OBVIOUS
      <3>2. due = UNION {of(d, sh) : d \in walked, sh \in Shuffles}
        OBVIOUS
      <3> HIDE DEF of, due
      <3>3. \A x : x \in due <=> \E d \in walked : \E sh \in Shuffles : x \in of(d, sh)
        BY <3>2
      <3>4. QED
        BY <3>1, <3>3
    <2>3. \A d : d \in walked <=> \E p \in DOMAIN lists : \E k \in DOMAIN lists[p] : d = Listed(p, k)
      BY DEF walked, Ids, Listed
    <2> HIDE DEF due
    <2>4. ASSUME NEW x \in looked, x[2][1] # nobody PROVE x \in due
      <3>1. x = <<x[1], x[2]>> /\ x[1] \in Shuffles
        BY <2>1 DEF LookedInv
      <3>2. x[2] # Dummy(x[2][2])
        BY <2>4 DEF Dummy
      <3>3. \E p \in DOMAIN lists : \E k \in DOMAIN lists[p] : \E t \in Times : LookedUp(x, p, k, t)
        BY <2>1, <3>2 DEF LookedInv
      <3>4. PICK p, k, t : p \in DOMAIN lists /\ k \in DOMAIN lists[p] /\ t \in Times /\ LookedUp(x, p, k, t)
        BY <3>3
      <3>5. Listed(p, k) \in walked
        BY <2>3, <3>4
      <3>6. t \in Covered(x[1]) /\ Listed(p, k) \in hist[t] /\ x = <<x[1], mac(Listed(p, k), t)>>
        BY <3>1, <3>4 DEF LookedUp
      <3>7. QED
        BY <2>2, <3>1, <3>5, <3>6
    <2>5. ASSUME NEW x \in due PROVE x \in looked /\ x[2][1] # nobody
      <3>1. PICK d, sh, t : d \in walked /\ sh \in Shuffles /\ t \in Covered(sh) /\ d \in hist[t]
                            /\ x = <<sh, mac(d, t)>>
        BY <2>2
      <3>2. PICK p, k : p \in DOMAIN lists /\ k \in DOMAIN lists[p] /\ d = Listed(p, k)
        BY <2>3, <3>1
      <3>3. Finished(p, sh, k)
        BY DEF Finished
      <3>4. Stands(p, k) <= shuffle_start_times[sh]
        BY <2>1, <3>1, <3>2, <3>3 DEF WithinInv
      <3>5. Stands(p, k) < t
        <4>1. Stands(p, k) \in Nat /\ shuffle_start_times[sh] \in Nat /\ t \in Nat
              /\ shuffle_start_times[sh] < t
          BY <2>1, <3>1, <3>2, StandsTypes, StoreTypes
        <4>2. QED
          BY <3>4, <4>1
      <3>6. x \in looked
        BY <2>1, <3>1, <3>2, <3>5 DEF SeenInv
      <3>7. x[2][1] = d /\ d # nobody
        BY <2>1, <3>1, <3>2, ListTypes DEF mac
      <3>8. QED
        BY <3>6, <3>7
    <2>6. QED
      BY <2>4, <2>5 DEF due
  <1>2. QED
    BY <1>1, InvariantAlways, PTL

\* No encounter is fetched twice from a shuffle, nor a dummy by contact(), when no device
\* is listed twice: what store_path_encounter.hpp:25 asks of the callers.
THEOREM FetchedOnceAlways ==
  ASSUME DistinctDevices
  PROVE  Spec => []FetchedOnce
  <1>1. Init => FetchedOnce
    BY DEF Init, FetchedOnce
  <1>2. IInv /\ FetchedOnce /\ [Next]_vars => FetchedOnce'
    <2> SUFFICES ASSUME IInv, FetchedOnce, [Next]_vars PROVE FetchedOnce'
      OBVIOUS
    <2>1. CASE Fetch
      <3>1. /\ RunInv /\ PlaceInv /\ StoreInv /\ PreviousInv /\ LookedInv /\ NonceInv
            /\ pc = "fetch" /\ found # NotFound /\ UNCHANGED run_vars
            /\ again' = again \cup ({<<s, original_key>>} \cap looked)
        BY <2>1 DEF IInv, Fetch
      <3>2. query' = query
        BY <3>1, RunSame
      <3>3. /\ pass \in DOMAIN lists /\ s \in Nat /\ i \in DOMAIN lists[pass] /\ device = Listed(pass, i)
            /\ device # nobody /\ previous = Stands(pass, i) /\ Begun
        BY <3>1, PlaceTypes
      <3>4. ASSUME NEW x \in looked, x = <<s, original_key>>
            PROVE  x[2][1] = nobody /\ query.kind = "flow"
        <4>1. x[1] = s /\ x[2] = original_key
          BY <3>4
        <4>2. CASE fetch_dummy
          <5>1. original_key = Dummy(dummy_nonce)
            BY <3>1, <4>2, LooksUp
          <5>2. x[2][1] = nobody /\ x[2][2] = dummy_nonce
            BY <4>1, <5>1 DEF Dummy
          <5>3. dummy_nonce \in Nat
            BY <3>1 DEF NonceInv
          <5>4. query.kind # "contact"
            BY <3>1, <3>3, <4>1, <5>2, <5>3 DEF NonceInv
          <5>5. QED
            BY <3>1, <5>2, <5>4, ListTypes
        <4>3. CASE ~fetch_dummy
          <5>1. original_key = mac(device, previous)
            BY <3>1, <4>3, LooksUp
          <5>2. x[2] # Dummy(x[2][2])
            BY <3>3, <4>1, <5>1, Kinds
          <5>3. PICK p, k, t : p \in DOMAIN lists /\ k \in DOMAIN lists[p] /\ t \in Times /\ LookedUp(x, p, k, t)
            BY <3>1, <5>2 DEF LookedInv
          <5>4. Listed(p, k) = device /\ t = previous /\ Stands(p, k) < t
            BY <4>1, <5>1, <5>3, Kinds DEF LookedUp
          <5>5. p = pass /\ k = i
            BY <3>1, <3>3, <5>3, <5>4, OnceListed
          <5>6. previous \in Nat
            BY <3>1, <3>3, StandsTypes
          <5>7. QED
            BY <3>3, <5>4, <5>5, <5>6
        <4>4. QED
          BY <4>2, <4>3
      <3>5. QED
        BY <3>1, <3>2, <3>4 DEF FetchedOnce
    <2>2. CASE again' = again /\ query' = query
      BY <2>2 DEF FetchedOnce
    <2>3. [Next]_vars => Fetch \/ (again' = again /\ query' = query)
      BY DEF Next, StoreEpoch, SendShuffle, ReceiveShuffle, Start, FetchFails, SortList, WalkThrough,
             UNCHANGEDQuery, vars, run_vars
    <2>4. QED
      BY <2>1, <2>2, <2>3
  <1>3. QED
    BY <1>1, <1>2, InvariantAlways, PTL DEF Spec

\* The walked devices and the shuffles in which they met one of the larger list.
Pairs(others) == {x \in walked \X Shuffles : Contacts(x[1], others, x[2]) # {}}

\* contact() counts these pairs, and too many only when a Bloom filter errs.
LEMMA PairsCounted ==
  ASSUME DistinctDevices, IInv, pc = "done", query.kind = "contact", Within
  PROVE  LET met == Pairs(Ids(filter_ids(query))) IN
         /\ IsFiniteSet(met) /\ Cardinality(met) \in Nat /\ output_count \in Nat
         /\ output_count >= Cardinality(met)
         /\ Exact => output_count = Cardinality(met)
  <1> DEFINE others == Ids(filter_ids(query))
             met == Pairs(others)
  <1>1. RunInv /\ CountInv /\ Begun /\ Ended
    BY DEF IInv, Begun, Storing, Ended
  <1>2. output_count = Cardinality(Counted) /\ filter.source = Filled(filter_ids(query))
    BY <1>1 DEF CountInv
  <1>3. IsFiniteSet(Counted) /\ Cardinality(Counted) \in Nat
    BY <1>1, CountedFinite
  <1>4. DOMAIN lists = {1} /\ \A d : d \in walked <=> \E k \in DOMAIN lists[1] : d = Listed(1, k)
    <2>1. DOMAIN lists = {1}
      BY <1>1, ListTypes
    <2>2. QED
      BY <2>1 DEF walked, Ids, Listed
  <1>5. \A x : x \in Counted <=> /\ x \in Shuffles \X DOMAIN lists[1]
                                 /\ Touched(x[2], x[1]) # {}
    BY <1>1 DEF Counted, Finished
  <1>6. \A x : x \in met <=> x \in walked \X Shuffles /\ Contacts(x[1], others, x[2]) # {}
    BY DEF Pairs
  <1>7. filter.source = UNION {setting.positions[e] : e \in others}
    BY <1>2 DEF Filled, Ids
  <1>8. ASSUME NEW k \in DOMAIN lists[1], NEW sh \in Shuffles
        PROVE  Contacts(Listed(1, k), others, sh) \subseteq Touched(k, sh)
    <2>1. \A e \in others : Contains(filter.source, e)
      BY <1>7 DEF Contains
    <2>2. QED
      BY <2>1 DEF Contacts, Touched
  <1> HIDE DEF met, others
  <1>9. IsFiniteSet(met) /\ Cardinality(met) <= Cardinality(Counted)
    <2> DEFINE place(d) == CHOOSE k \in DOMAIN lists[1] : d = Listed(1, k)
               f == [x \in met |-> <<x[2], place(x[1])>>]
    <2>1. \A d \in walked : place(d) \in DOMAIN lists[1] /\ Listed(1, place(d)) = d
      BY <1>4
    <2> HIDE DEF place
    <2>2. ASSUME NEW x \in met
          PROVE  /\ f[x] \in Counted /\ f[x] = <<x[2], place(x[1])>>
                 /\ x = <<x[1], x[2]>> /\ x[1] \in walked
      <3>1. x \in walked \X Shuffles /\ Contacts(x[1], others, x[2]) # {}
        BY <1>6
      <3>2. PICK d \in walked, sh \in Shuffles : x = <<d, sh>>
        BY <3>1
      <3>3. Contacts(d, others, sh) # {}
        BY <3>1, <3>2
      <3>4. place(d) \in DOMAIN lists[1] /\ Listed(1, place(d)) = d
        BY <2>1
      <3>5. Touched(place(d), sh) # {}
        BY <1>8, <3>3, <3>4
      <3>6. <<sh, place(d)>> \in Counted
        BY <1>5, <3>4, <3>5
      <3>7. QED
        BY <3>2, <3>6
    <2>3. f \in [met -> Counted]
      BY <2>2
    <2>4. ASSUME NEW x \in met, NEW y \in met, f[x] = f[y] PROVE x = y
      <3>1. x[2] = y[2] /\ place(x[1]) = place(y[1])
        BY <2>2, <2>4
      <3>2. x[1] = y[1]
        <4>1. x[1] = Listed(1, place(x[1])) /\ y[1] = Listed(1, place(y[1]))
          BY <2>1, <2>2
        <4>2. QED
          BY <3>1, <4>1
      <3>3. QED
        BY <2>2, <3>1, <3>2
    <2> HIDE DEF f
    <2>5. f \in Injection(met, Counted)
      BY <2>3, <2>4 DEF Injection, IsInjective
    <2>6. QED
      BY <1>3, <2>5, FS_Injection
  <1>10. ASSUME Exact, NEW k \in DOMAIN lists[1], NEW sh \in Shuffles
         PROVE  Touched(k, sh) \subseteq Contacts(Listed(1, k), others, sh)
    <2> SUFFICES ASSUME NEW t \in Touched(k, sh) PROVE t \in Contacts(Listed(1, k), others, sh)
      OBVIOUS
    <2> DEFINE e == Partner(Listed(1, k), t)
    <2>1. /\ t \in Covered(sh) /\ Listed(1, k) \in hist[t] /\ InRange(t) /\ t \notin setting.unconfirmed
          /\ setting.positions[e] \subseteq filter.source
      BY DEF Touched, Contains
    <2>2. t \in Times
      BY <2>1, StoreTypes
    <2>3. e \in hist[t] /\ hist[t] \in query.meetings
      BY <1>1, <2>1, <2>2, Meetings DEF RunInv
    <2> HIDE DEF e
    <2>4. e \in Devices /\ others \subseteq Devices
      <3>1. e \in Devices
        BY <2>3 DEF Devices
      <3>2. filter_ids(query) = query.source \/ filter_ids(query) = query.sink
        BY DEF filter_ids
      <3>3. others = Ids(query.source) \/ others = Ids(query.sink)
        BY <3>2 DEF others
      <3>4. Ids(query.source) \subseteq Devices /\ Ids(query.sink) \subseteq Devices
        BY DEF Devices
      <3>5. QED
        BY <3>1, <3>3, <3>4
    <2>5. e \in others
      <3>1. ~(setting.positions[e] \subseteq
              UNION {setting.positions[x] : x \in (Devices \cup {nobody}) \ {e}})
        BY <1>10, <2>4 DEF Exact
      <3>2. ASSUME e \notin others PROVE FALSE
        <4>1. others \subseteq (Devices \cup {nobody}) \ {e}
          BY <2>4, <3>2
        <4>2. QED
          BY <1>7, <2>1, <3>1, <4>1
      <3>3. QED
        BY <3>2
    <2>6. QED
      BY <2>1, <2>5 DEF Contacts, e
  <1>11. ASSUME Exact PROVE Cardinality(Counted) <= Cardinality(met)
    <2> DEFINE f == [x \in Counted |-> <<Listed(1, x[2]), x[1]>>]
    <2>1. ASSUME NEW x \in Counted
          PROVE  /\ f[x] \in met /\ f[x] = <<Listed(1, x[2]), x[1]>>
                 /\ x = <<x[1], x[2]>> /\ x[2] \in DOMAIN lists[1]
      <3>1. x \in Shuffles \X DOMAIN lists[1] /\ Touched(x[2], x[1]) # {}
        BY <1>5
      <3>2. PICK sh \in Shuffles, k \in DOMAIN lists[1] : x = <<sh, k>>
        BY <3>1
      <3>3. Touched(k, sh) # {}
        BY <3>1, <3>2
      <3>4. Contacts(Listed(1, k), others, sh) # {}
        BY <1>10, <1>11, <3>3
      <3>5. <<Listed(1, k), sh>> \in met
        BY <1>4, <1>6, <3>4
      <3>6. QED
        BY <3>2, <3>5
    <2>2. f \in [Counted -> met]
      BY <2>1
    <2>3. ASSUME NEW x \in Counted, NEW y \in Counted, f[x] = f[y] PROVE x = y
      <3>1. Listed(1, x[2]) = Listed(1, y[2]) /\ x[1] = y[1]
        BY <2>1, <2>3
      <3>2. x[2] = y[2]
        <4>1. PICK k1, k2 : k1 = x[2] /\ k2 = y[2]
          OBVIOUS
        <4>2. k1 \in DOMAIN lists[1] /\ k2 \in DOMAIN lists[1] /\ 1 \in DOMAIN lists
              /\ Listed(1, k1) = Listed(1, k2)
          BY <1>4, <2>1, <3>1, <4>1
        <4>3. k1 = k2
          BY <1>1, <4>2, OnceListed
        <4>4. QED
          BY <4>1, <4>3
      <3>3. QED
        BY <2>1, <3>1, <3>2
    <2> HIDE DEF f
    <2>4. f \in Injection(Counted, met)
      BY <2>2, <2>3 DEF Injection, IsInjective
    <2>5. QED
      BY <1>9, <2>4, FS_Injection
  <1>12. Cardinality(met) \in Nat
    BY <1>9, FS_CardinalityType
  <1>13. QED
    BY <1>2, <1>3, <1>9, <1>11, <1>12 DEF met, others

\* contact() counts every device of the shorter list that had contact with one of the
\* longer, however the encounters lie in the shuffles; and it counts nothing else if Bloom
\* filters do not err and each device has its contacts in one shuffle, none too short
\* (contact_path_query.hpp:72-152).
THEOREM ContactCountedAlways ==
  ASSUME DistinctDevices
  PROVE  Spec => []ContactCounted
  <1>1. IInv => ContactCounted
    <2> DEFINE others == Ids(filter_ids(query))
               had == HadContact(others)
               met == Pairs(others)
    <2> SUFFICES ASSUME IInv, pc = "done", query.kind = "contact", Within
                 PROVE  /\ output_count >= Cardinality(had)
                        /\ Exact /\ EachOnce(others) => output_count = Cardinality(had)
      BY DEF ContactCounted
    <2>1. /\ IsFiniteSet(met) /\ Cardinality(met) \in Nat /\ output_count \in Nat
          /\ output_count >= Cardinality(met)
          /\ Exact => output_count = Cardinality(met)
      BY PairsCounted
    <2> HIDE DEF others
    <2>2. IsFiniteSet(had) /\ Cardinality(had) <= Cardinality(met)
      <3> DEFINE place(d) == CHOOSE sh \in Shuffles : Contacts(d, others, sh) # {}
                 f == [d \in had |-> <<d, place(d)>>]
      <3>1. ASSUME NEW d \in had PROVE place(d) \in Shuffles /\ Contacts(d, others, place(d)) # {} /\ d \in walked
        BY DEF HadContact
      <3> HIDE DEF place
      <3>2. \A d \in had : <<d, place(d)>> \in met
        BY <3>1 DEF Pairs
      <3> HIDE DEF had, met
      <3>3. f \in [had -> met] /\ \A c, d \in had : f[c] = f[d] => c = d
        BY <3>2
      <3> HIDE DEF f
      <3>4. f \in Injection(had, met)
        BY <3>3 DEF Injection, IsInjective
      <3>5. QED
        BY <2>1, <3>4, FS_Injection
    <2>3. ASSUME EachOnce(others) PROVE Cardinality(met) <= Cardinality(had)
      <3> DEFINE f == [x \in met |-> x[1]]
      <3>1. ASSUME NEW x \in met
            PROVE  /\ x[1] \in had /\ x = <<x[1], x[2]>> /\ x[1] \in walked /\ x[2] \in Shuffles
                   /\ Contacts(x[1], others, x[2]) # {}
                   /\ \A sh \in Shuffles : Contacts(x[1], others, sh) # {} => sh = x[2]
        <4>1. PICK d \in walked, sh \in Shuffles : x = <<d, sh>> /\ Contacts(d, others, sh) # {}
          BY DEF Pairs
        <4>2. PICK u \in Contacts(d, others, sh) : u \notin setting.short
          BY <2>3, <4>1 DEF EachOnce
        <4>3. d \in had
          BY <4>1, <4>2 DEF HadContact
        <4>4. \A sh2 \in Shuffles : Contacts(d, others, sh2) # {} => sh2 = sh
          BY <2>3, <4>1, <4>2 DEF EachOnce
        <4>5. QED
          BY <4>1, <4>3, <4>4
      <3> HIDE DEF had, met
      <3>2. f \in [met -> had]
        BY <3>1
      <3>3. ASSUME NEW x \in met, NEW y \in met, f[x] = f[y] PROVE x = y
        <4>1. x[1] = y[1]
          BY <3>3
        <4>2. x[2] = y[2]
          BY <3>1, <4>1
        <4>3. QED
          BY <3>1, <4>1, <4>2
      <3> HIDE DEF f
      <3>4. f \in Injection(met, had)
        BY <3>2, <3>3 DEF Injection, IsInjective
      <3>5. QED
        BY <2>2, <3>4, FS_Injection
    <2>4. Cardinality(had) \in Nat
      BY <2>2, FS_CardinalityType
    <2> HIDE DEF had, met
    <2>5. QED
      BY <2>1, <2>2, <2>3, <2>4
  <1>2. QED
    BY <1>1, InvariantAlways, PTL

-----------------------------------------------------------------------------
(* The invariant of flow(): its list, and the filters of its walk.           *)

Elements(list) == {list[n] : n \in DOMAIN list}
Fill(set) == UNION {setting.positions[e] : e \in set}

Event(p, k, t) == [encountered |-> Partner(Listed(p, k), t), device |-> Listed(p, k),
                   is_source |-> p = 1, time |-> t]

\* An encounter that lasted, and is confirmed.
Good(t) == t \in Times /\ (\E sh \in Shuffles : t \in Covered(sh)) /\ t \notin setting.unconfirmed \cup setting.short

IsEntry(e, p, k) ==
    /\ e.device = Listed(p, k) /\ e.is_source = (p = 1)
    /\ \/ e.time = setting.end_time
       \/ e.time \in Times /\ Good(e.time) /\ Listed(p, k) \in hist[e.time] /\ e = Event(p, k, e.time)

\* What is listed is what was fetched, and what was come past is listed.
ListInv ==
    query.kind = "flow" =>
        /\ encounter_list \in Seq(Elements(encounter_list))
        /\ ~Begun => encounter_list = <<>> /\ output_count = 0
        /\ \A e \in Elements(encounter_list) : \E p \in DOMAIN lists : \E k \in DOMAIN lists[p] : IsEntry(e, p, k)
        /\ pc \in {"fetch", "sort"} =>
              \A p \in DOMAIN lists : \A k \in DOMAIN lists[p] : \A t \in Times :
                 Good(t) /\ Listed(p, k) \in hist[t] /\ Stands(p, k) < t =>
                     Event(p, k, t) \in Elements(encounter_list)
        /\ pc = "walk" => \A m, n \in DOMAIN encounter_list :
              m < n => encounter_list[m].time <= encounter_list[n].time
        /\ pc = "done" => encounter_list = <<>>

FilterInv ==
    query.kind = "flow" /\ Begun =>
        /\ filter = [source |-> filter.source, sink |-> filter.sink,
                     encountered |-> filter.encountered, infected |-> filter.infected]
        /\ filter.source = Filled(query.source) /\ filter.sink = Filled(query.sink)
        /\ query.direct => Filled(query.source) \subseteq filter.encountered
        /\ pc \notin {"walk", "done"} =>
              /\ filter.encountered = IF query.direct THEN Filled(query.source) ELSE {}
              /\ filter.infected = setting.positions[nobody] /\ output_count = 0

Walking == query.kind = "flow" /\ pc \in {"walk", "done"}

\* Who is in the filter of those who were encountered: only who met a source not later
\* than what is left of the list, and everybody who did before it.
Past(x) == \E u \in Times : MetSource(x, u) /\ \A e \in Elements(encounter_list) : u <= e.time
EncounteredInv ==
    Walking /\ Exact =>
        /\ \E people \in SUBSET (Devices \cup {nobody}) :
              /\ filter.encountered = Fill(people)
              /\ \A x \in people : x = nobody \/ (query.direct /\ x \in Sources) \/ (Between(x) /\ Past(x))
        /\ Within => \A k \in DOMAIN lists[1] : \A t \in Times :
              Qualifies(t) /\ Listed(1, k) \in hist[t] /\ Between(Partner(Listed(1, k), t)) =>
                  \/ Event(1, k, t) \in Elements(encounter_list)
                  \/ Contains(filter.encountered, Partner(Listed(1, k), t))

\* Who is counted: a sink that was reached, and each unless that is still in the list.
InfectedInv ==
    Walking =>
        \E people \in SUBSET Sinks :
            /\ filter.infected = Fill(people \cup {nobody}) /\ output_count = Cardinality(people)
            /\ Exact => people \subseteq Reached
            /\ Exact /\ Within => \A k \in DOMAIN lists[2] : \A t \in Times :
                  Qualifies(t) /\ Listed(2, k) \in hist[t] /\ Carries(Partner(Listed(2, k), t), t) =>
                      Event(2, k, t) \in Elements(encounter_list) \/ Listed(2, k) \in people

FlowInv == ListInv /\ FilterInv /\ EncounteredInv /\ InfectedInv

-----------------------------------------------------------------------------
(* Lists.                                                                    *)

InTime(list) == \A m, n \in DOMAIN list : m < n => list[m].time <= list[n].time

LEMMA ListOf ==
  ASSUME NEW count \in Nat, NEW list, list = [n \in 1..count |-> list[n]]
  PROVE  list \in Seq(Elements(list)) /\ Len(list) = count /\ DOMAIN list = 1..count
  <1>1. list \in [1..count -> Elements(list)]
    BY DEF Elements
  <1>2. list \in Seq(Elements(list))
    BY <1>1, SeqDef
  <1>3. DOMAIN list = 1..count
    BY <1>1
  <1>4. Len(list) = count
    BY <1>2, <1>3
  <1>5. QED
    BY <1>2, <1>3, <1>4

LEMMA Appending ==
  ASSUME NEW list, list \in Seq(Elements(list)), NEW e
  PROVE  /\ Append(list, e) \in Seq(Elements(Append(list, e)))
         /\ Elements(Append(list, e)) = Elements(list) \cup {e}
  <1> DEFINE longer == Append(list, e)
             count == Len(list)
  <1>1. list \in Seq(Elements(list) \cup {e})
    BY SeqMonotonic
  <1>2. longer \in Seq(Elements(list) \cup {e}) /\ Len(longer) = count + 1 /\ count \in Nat
    BY <1>1
  <1>3. DOMAIN longer = 1..count + 1 /\ DOMAIN list = 1..count
    BY <1>1, <1>2
  <1>4. longer[count + 1] = e /\ \A n \in 1..count : longer[n] = list[n]
    BY <1>1
  <1>5. longer = [n \in 1..count + 1 |-> longer[n]]
    <2>1. longer \in [1..Len(longer) -> Elements(list) \cup {e}]
      BY <1>2, LenProperties
    <2> HIDE DEF longer, count
    <2>2. longer \in [1..count + 1 -> Elements(list) \cup {e}]
      BY <1>2, <2>1
    <2>3. QED
      BY <2>2
  <1> HIDE DEF longer, count
  <1>6. \A n \in DOMAIN longer : n = count + 1 \/ n \in DOMAIN list
    BY <1>2, <1>3
  <1>7. count + 1 \in DOMAIN longer /\ \A n \in DOMAIN list : n \in DOMAIN longer
    BY <1>2, <1>3
  <1>8. Elements(longer) = Elements(list) \cup {e}
    BY <1>3, <1>4, <1>6, <1>7 DEF Elements
  <1>9. longer \in Seq(Elements(longer))
    BY <1>2, <1>5, ListOf
  <1>10. QED
    BY <1>8, <1>9 DEF longer

LEMMA Removing ==
  ASSUME NEW list, list \in Seq(Elements(list)), list # <<>>
  PROVE  /\ Tail(list) \in Seq(Elements(Tail(list)))
         /\ Elements(list) = Elements(Tail(list)) \cup {Head(list)}
         /\ Len(list) = 1 => Tail(list) = <<>>
         /\ InTime(list) => InTime(Tail(list)) /\ \A e \in Elements(Tail(list)) : Head(list).time <= e.time
  <1> DEFINE rest == Tail(list)
             count == Len(list)
  <1>1. count \in Nat /\ count >= 1 /\ DOMAIN list = 1..count /\ Head(list) = list[1]
    OBVIOUS
  <1>2. rest \in Seq(Elements(list)) /\ Len(rest) = count - 1
    OBVIOUS
  <1>3. DOMAIN rest = 1..count - 1 /\ \A n \in 1..count - 1 : rest[n] = list[n + 1]
    BY <1>2
  <1>4. rest = [n \in 1..count - 1 |-> rest[n]]
    <2>1. rest \in [1..Len(rest) -> Elements(list)]
      BY <1>2, LenProperties
    <2> HIDE DEF rest, count
    <2>2. rest \in [1..count - 1 -> Elements(list)]
      BY <1>2, <2>1
    <2>3. QED
      BY <2>2
  <1>5. count = 1 => rest = <<>>
    <2>1. rest = <<>> <=> Len(rest) = 0
      BY <1>2, EmptySeq
    <2>2. QED
      BY <1>1, <1>2, <2>1
  <1> HIDE DEF rest, count
  <1>6. rest \in Seq(Elements(rest))
    BY <1>1, <1>4, ListOf
  <1>7. \A n \in DOMAIN rest : n \in Nat /\ n >= 1 /\ n + 1 \in DOMAIN list /\ rest[n] = list[n + 1]
    BY <1>1, <1>3
  <1>8. \A n \in DOMAIN list : n = 1 \/ (n - 1 \in DOMAIN rest /\ rest[n - 1] = list[n])
    BY <1>1, <1>3
  <1>9. 1 \in DOMAIN list
    BY <1>1
  <1>10. Elements(list) = Elements(rest) \cup {list[1]}
    BY <1>7, <1>8, <1>9 DEF Elements
  <1>11. ASSUME InTime(list) PROVE InTime(rest) /\ \A e \in Elements(rest) : list[1].time <= e.time
    <2>1. ASSUME NEW m \in DOMAIN rest, NEW n \in DOMAIN rest, m < n PROVE rest[m].time <= rest[n].time
      <3>1. m + 1 \in DOMAIN list /\ n + 1 \in DOMAIN list /\ m + 1 < n + 1
        BY <1>7, <2>1
      <3>2. list[m + 1].time <= list[n + 1].time
        BY <1>11, <3>1 DEF InTime
      <3>3. QED
        BY <1>7, <3>2
    <2>2. ASSUME NEW n \in DOMAIN rest PROVE list[1].time <= rest[n].time
      <3>1. n + 1 \in DOMAIN list /\ 1 < n + 1
        BY <1>7
      <3>2. list[1].time <= list[n + 1].time
        BY <1>9, <1>11, <3>1 DEF InTime
      <3>3. QED
        BY <1>7, <3>2
    <2>3. QED
      BY <2>1, <2>2 DEF InTime, Elements
  <1>12. QED
    BY <1>1, <1>5, <1>6, <1>10, <1>11 DEF rest, count

\* How many elements of a list come before its n-th.
Rank(list, n) == Cardinality({m \in 1..Len(list) : Earlier(list, m, n)})

LEMMA Ranks ==
  ASSUME NEW list, Len(list) \in Nat, \A n \in 1..Len(list) : list[n].time \in Int
  PROVE  /\ \A n \in 1..Len(list) : Rank(list, n) \in 0..Len(list) - 1
         /\ \A m, n \in 1..Len(list) : Earlier(list, m, n) => Rank(list, m) < Rank(list, n)
  <1> DEFINE all == 1..Len(list)
             lower(n) == {m \in all : Earlier(list, m, n)}
             time(n) == list[n].time
  <1>1. IsFiniteSet(all) /\ Cardinality(all) = Len(list)
    BY FS_Interval
  <1>2. \A m, n : Earlier(list, m, n) <=> time(m) < time(n) \/ (time(m) = time(n) /\ m < n)
    BY DEF Earlier
  <1>3. \A n \in all : time(n) \in Int /\ n \in Int
    OBVIOUS
  <1>4. \A n : Rank(list, n) = Cardinality(lower(n)) /\ lower(n) \subseteq all
    BY DEF Rank
  <1>5. \A m, n : m \in lower(n) <=> m \in all /\ (time(m) < time(n) \/ (time(m) = time(n) /\ m < n))
    BY <1>2
  <1> HIDE DEF all, lower, time
  <1>6. \A n : IsFiniteSet(lower(n)) /\ Cardinality(lower(n)) \in Nat
    BY <1>1, <1>4, FS_Subset, FS_CardinalityType
  <1>7. ASSUME NEW n \in all PROVE Rank(list, n) \in 0..Len(list) - 1
    <2>1. lower(n) \subseteq all \ {n}
      BY <1>3, <1>4, <1>5
    <2>2. IsFiniteSet(all \ {n}) /\ Cardinality(all \ {n}) = Len(list) - 1
      BY <1>1, FS_RemoveElement
    <2>3. Cardinality(lower(n)) <= Len(list) - 1
      BY <2>1, <2>2, FS_Subset
    <2>4. QED
      BY <1>4, <1>6, <2>3
  <1>8. ASSUME NEW m \in all, NEW n \in all, Earlier(list, m, n) PROVE Rank(list, m) < Rank(list, n)
    <2>1. m \notin lower(m) /\ m \in lower(n)
      BY <1>2, <1>3, <1>5, <1>8
    <2>2. ASSUME NEW c \in lower(m) PROVE c \in lower(n)
      <3>1. c \in all /\ (time(c) < time(m) \/ (time(c) = time(m) /\ c < m))
        BY <1>5
      <3>2. time(m) < time(n) \/ (time(m) = time(n) /\ m < n)
        BY <1>2, <1>8
      <3>3. time(c) < time(n) \/ (time(c) = time(n) /\ c < n)
        BY <1>3, <3>1, <3>2
      <3>4. QED
        BY <1>5, <3>1, <3>3
    <2>3. lower(m) \cup {m} \subseteq lower(n)
      BY <2>1, <2>2
    <2>4. Cardinality(lower(m) \cup {m}) = Cardinality(lower(m)) + 1
      BY <1>6, <2>1, FS_AddElement
    <2>5. Cardinality(lower(m) \cup {m}) <= Cardinality(lower(n))
      BY <1>6, <2>3, FS_Subset
    <2>6. QED
      BY <1>4, <1>6, <2>4, <2>5
  <1>9. QED
    BY <1>7, <1>8 DEF all

\* The sorted list has what the list has, in the order of the times.
LEMMA Sorting ==
  ASSUME NEW list, list \in Seq(Elements(list)), \A e \in Elements(list) : e.time \in Int
  PROVE  /\ Sorted(list) \in Seq(Elements(Sorted(list)))
         /\ Elements(Sorted(list)) = Elements(list) /\ InTime(Sorted(list))
  <1> DEFINE count == Len(list)
             sorted == Sorted(list)
             rank == [n \in 1..count |-> Rank(list, n)]
  <1>1. count \in Nat /\ DOMAIN list = 1..count
    OBVIOUS
  <1>2. \A n \in 1..count : list[n].time \in Int
    BY <1>1 DEF Elements
  <1>3. /\ \A n \in 1..count : Rank(list, n) \in 0..count - 1
        /\ \A m, n \in 1..count : Earlier(list, m, n) => Rank(list, m) < Rank(list, n)
    BY <1>1, <1>2, Ranks
  <1>4. sorted = [c \in 1..count |-> list[CHOOSE n \in 1..count : Rank(list, n) = c - 1]]
    BY DEF Sorted, Rank
  <1> HIDE DEF count, sorted
  <1>5. rank \in Surjection(1..count, 0..count - 1)
    <2>1. rank \in [1..count -> 0..count - 1]
      BY <1>3
    <2>2. ASSUME NEW m \in 1..count, NEW n \in 1..count, Rank(list, m) = Rank(list, n) PROVE m = n
      <3>1. ~Earlier(list, m, n) /\ ~Earlier(list, n, m)
        <4>1. Rank(list, m) \in 0..count - 1 /\ Rank(list, n) \in 0..count - 1
          BY <1>3
        <4>2. ~(Rank(list, m) < Rank(list, n)) /\ ~(Rank(list, n) < Rank(list, m))
          BY <1>1, <2>2, <4>1
        <4>3. QED
          BY <1>3, <4>2
      <3>2. list[m].time \in Int /\ list[n].time \in Int
        BY <1>2
      <3>3. QED
        BY <3>1, <3>2 DEF Earlier
    <2>3. rank \in Injection(1..count, 0..count - 1)
      BY <2>1, <2>2 DEF Injection, IsInjective
    <2>4. /\ IsFiniteSet(1..count) /\ Cardinality(1..count) = count
          /\ IsFiniteSet(0..count - 1) /\ Cardinality(0..count - 1) = count
      BY <1>1, FS_Interval
    <2> HIDE DEF rank
    <2>5. QED
      BY <2>3, <2>4, FS_Injection
  <1>6. \A c \in 1..count : \E n \in 1..count : Rank(list, n) = c - 1
    <2> TAKE c \in 1..count
    <2>1. c - 1 \in 0..count - 1
      BY <1>1
    <2>2. PICK n \in 1..count : rank[n] = c - 1
      BY <1>5, <2>1 DEF Surjection
    <2>3. QED
      BY <2>2
  <1> DEFINE from(c) == CHOOSE n \in 1..count : Rank(list, n) = c - 1
  <1>7. \A c \in 1..count : from(c) \in 1..count /\ Rank(list, from(c)) = c - 1
    BY <1>6
  <1>8. DOMAIN sorted = 1..count /\ \A c \in 1..count : sorted[c] = list[from(c)]
    BY <1>4
  <1> HIDE DEF from
  <1>9. \A n \in 1..count : Rank(list, n) + 1 \in 1..count /\ from(Rank(list, n) + 1) = n
    <2> TAKE n \in 1..count
    <2> DEFINE c == Rank(list, n) + 1
    <2>1. Rank(list, n) \in 0..count - 1
      BY <1>3
    <2>2. c \in 1..count /\ c - 1 = Rank(list, n)
      BY <1>1, <2>1
    <2> HIDE DEF c
    <2>3. from(c) \in 1..count /\ Rank(list, from(c)) = Rank(list, n)
      BY <1>7, <2>2
    <2>4. ~Earlier(list, from(c), n) /\ ~Earlier(list, n, from(c))
      <3>1. ~(Rank(list, from(c)) < Rank(list, n)) /\ ~(Rank(list, n) < Rank(list, from(c)))
        BY <1>1, <2>1, <2>3
      <3>2. QED
        BY <1>3, <2>3, <3>1
    <2>5. list[from(c)].time \in Int /\ list[n].time \in Int
      BY <1>2, <2>3
    <2>6. from(c) = n
      BY <1>1, <2>3, <2>4, <2>5 DEF Earlier
    <2>7. QED
      BY <2>2, <2>6 DEF c
  <1>10. Elements(sorted) = Elements(list)
    <2>1. \A c \in 1..count : sorted[c] \in Elements(list)
      BY <1>1, <1>7, <1>8 DEF Elements
    <2>2. ASSUME NEW n \in 1..count PROVE list[n] \in Elements(sorted)
      <3>1. Rank(list, n) + 1 \in 1..count /\ from(Rank(list, n) + 1) = n
        BY <1>9
      <3>2. sorted[Rank(list, n) + 1] = list[n]
        BY <1>8, <3>1
      <3>3. QED
        BY <1>8, <3>1, <3>2 DEF Elements
    <2>3. QED
      BY <1>1, <1>8, <2>1, <2>2 DEF Elements
  <1>11. sorted \in Seq(Elements(sorted))
    <2>1. sorted = [c \in 1..count |-> sorted[c]]
      BY <1>4
    <2>2. QED
      BY <1>1, <2>1, ListOf
  <1>12. ASSUME NEW c1 \in 1..count, NEW c2 \in 1..count, c1 < c2
         PROVE  sorted[c1].time <= sorted[c2].time
    <2>1. /\ from(c1) \in 1..count /\ Rank(list, from(c1)) = c1 - 1
          /\ from(c2) \in 1..count /\ Rank(list, from(c2)) = c2 - 1
      BY <1>7
    <2>2. ~(Rank(list, from(c2)) < Rank(list, from(c1)))
      BY <1>1, <1>12, <2>1
    <2>3. ~Earlier(list, from(c2), from(c1))
      BY <1>3, <2>1, <2>2
    <2>4. list[from(c1)].time \in Int /\ list[from(c2)].time \in Int
      BY <1>2, <2>1
    <2>5. list[from(c1)].time <= list[from(c2)].time
      BY <2>3, <2>4 DEF Earlier
    <2>6. QED
      BY <1>8, <2>5
  <1>13. InTime(sorted)
    BY <1>8, <1>12 DEF InTime
  <1>14. QED
    BY <1>10, <1>11, <1>13 DEF sorted

-----------------------------------------------------------------------------
(* Who meets whom, and what the filters say of them.                         *)

LEMMA FlowSame ==
  ASSUME UNCHANGED run_vars
  PROVE  /\ query' = query /\ Devices' = Devices /\ Sources' = Sources /\ Sinks' = Sinks /\ Reached' = Reached
         /\ (Exact' <=> Exact)
         /\ \A t : (Good(t)' <=> Good(t)) /\ (Qualifies(t)' <=> Qualifies(t)) /\ (InRange(t)' <=> InRange(t))
         /\ \A p, k, t : Event(p, k, t)' = Event(p, k, t)
         /\ \A e, p, k : IsEntry(e, p, k)' <=> IsEntry(e, p, k)
         /\ \A people : Fill(people)' = Fill(people)
         /\ \A list : Filled(list)' = Filled(list)
         /\ \A f, d : (Contains(f, d)' <=> Contains(f, d)) /\ Insert(f, d)' = Insert(f, d)
         /\ \A d, t : Partner(d, t)' = Partner(d, t)
         /\ \A x : Between(x)' <=> Between(x)
         /\ \A x, t : (MetSource(x, t)' <=> MetSource(x, t)) /\ (Carries(x, t)' <=> Carries(x, t))
  <1>1. query' = query /\ setting' = setting /\ hist' = hist
    BY DEF run_vars
  <1>2. \A p, k : Listed(p, k)' = Listed(p, k)
    BY RunSame
  <1>3. Devices' = Devices /\ Sources' = Sources /\ Sinks' = Sinks
    BY <1>1 DEF Devices, Sources, Sinks, Ids
  <1>4. \A t : (Good(t)' <=> Good(t)) /\ (Qualifies(t)' <=> Qualifies(t)) /\ (InRange(t)' <=> InRange(t))
    BY <1>1 DEF Good, Qualifies, InRange
  <1>5. \A d, t : Partner(d, t)' = Partner(d, t)
    BY <1>1 DEF Partner
  <1>6. \A p, k, t : Event(p, k, t)' = Event(p, k, t)
    BY <1>2, <1>5 DEF Event
  <1>7. \A e, p, k : IsEntry(e, p, k)' <=> IsEntry(e, p, k)
    BY <1>1, <1>2, <1>4, <1>6 DEF IsEntry
  <1>8. \A x : Between(x)' <=> Between(x)
    BY <1>1, <1>3 DEF Between
  <1>9. \A x, t : MetSource(x, t)' <=> MetSource(x, t)
    BY <1>1, <1>3, <1>4 DEF MetSource
  <1>10. \A x, t : Carries(x, t)' <=> Carries(x, t)
    BY <1>1, <1>3, <1>8, <1>9 DEF Carries
  <1>11. Reached' = Reached
    BY <1>1, <1>3, <1>4, <1>5, <1>10 DEF Reached
  <1>12. /\ Exact' <=> Exact
         /\ \A people : Fill(people)' = Fill(people)
         /\ \A list : Filled(list)' = Filled(list)
         /\ \A f, d : (Contains(f, d)' <=> Contains(f, d)) /\ Insert(f, d)' = Insert(f, d)
    BY <1>1, <1>3 DEF Exact, Fill, Filled, Contains, Insert
  <1>13. QED
    BY <1>1, <1>3, <1>4, <1>5, <1>6, <1>7, <1>8, <1>9, <1>10, <1>11, <1>12

LEMMA FlowLists ==
  ASSUME RunInv, query.kind = "flow"
  PROVE  /\ DOMAIN lists = {1, 2}
         /\ \A k \in DOMAIN lists[1] : Listed(1, k) \in Sources
         /\ \A d \in Sources : \E k \in DOMAIN lists[1] : Listed(1, k) = d
         /\ \A k \in DOMAIN lists[2] : Listed(2, k) \in Sinks
         /\ \A d \in Sinks : \E k \in DOMAIN lists[2] : Listed(2, k) = d
         /\ Sources \subseteq Devices /\ Sinks \subseteq Devices
         /\ nobody \notin Sources /\ nobody \notin Sinks
         /\ DistinctDevices => Sources \cap Sinks = {}
  <1>1. lists = <<query.source, query.sink>>
    BY DEF lists, ListsOf
  <1>2. DOMAIN lists = {1, 2} /\ lists[1] = query.source /\ lists[2] = query.sink
    BY <1>1
  <1>3. /\ \A k \in DOMAIN lists[1] : Listed(1, k) \in Sources
        /\ \A d \in Sources : \E k \in DOMAIN lists[1] : Listed(1, k) = d
        /\ \A k \in DOMAIN lists[2] : Listed(2, k) \in Sinks
        /\ \A d \in Sinks : \E k \in DOMAIN lists[2] : Listed(2, k) = d
    BY <1>2 DEF Listed, Sources, Sinks, Ids
  <1>4. Sources \subseteq Devices /\ Sinks \subseteq Devices
    BY DEF Sources, Sinks, Devices
  <1>5. nobody \notin Sources /\ nobody \notin Sinks
    BY QueryAssumption DEF RunInv, Sources, Sinks
  <1>6. ASSUME DistinctDevices, NEW d \in Sources, d \in Sinks PROVE FALSE
    <2>1. PICK k1, k2 : k1 \in DOMAIN lists[1] /\ Listed(1, k1) = d /\ k2 \in DOMAIN lists[2] /\ Listed(2, k2) = d
      BY <1>3, <1>6
    <2>2. 1 \in DOMAIN lists /\ 2 \in DOMAIN lists
      BY <1>2
    <2>3. 1 = 2
      BY <1>6, <2>1, <2>2, OnceListed
    <2>4. QED
      BY <2>3
  <1>7. QED
    BY <1>2, <1>3, <1>4, <1>5, <1>6

\* A meeting is of two.
LEMMA Pair ==
  ASSUME RunInv, NEW t \in Times, NEW d \in hist[t]
  PROVE  /\ hist[t] = {d, Partner(d, t)} /\ Partner(d, t) # d
         /\ d \in Devices /\ Partner(d, t) \in Devices /\ Partner(d, t) # nobody
         /\ Partner(Partner(d, t), t) = d
  <1>1. hist[t] \in query.meetings /\ query \in Queries
    BY DEF RunInv
  <1>2. PICK a, b : a # b /\ hist[t] = {a, b} /\ {a, b} \subseteq Nat \ {nobody}
    BY <1>1, QueryAssumption
  <1>3. Partner(d, t) \in hist[t] /\ Partner(d, t) # d
    BY Meetings
  <1>4. hist[t] = {d, Partner(d, t)}
    BY <1>2, <1>3
  <1>5. Partner(Partner(d, t), t) \in hist[t] /\ Partner(Partner(d, t), t) # Partner(d, t)
    BY <1>3, Meetings
  <1>6. hist[t] \subseteq Devices
    BY <1>1 DEF Devices
  <1>7. QED
    BY <1>2, <1>3, <1>4, <1>5, <1>6

LEMMA ExactIs ==
  ASSUME Exact, NEW d \in Devices, NEW people, people \subseteq Devices \cup {nobody}, Contains(Fill(people), d)
  PROVE  d \in people
  <1>1. ~(setting.positions[d] \subseteq
          UNION {setting.positions[x] : x \in (Devices \cup {nobody}) \ {d}})
    BY DEF Exact
  <1>2. ASSUME d \notin people PROVE FALSE
    <2>1. people \subseteq (Devices \cup {nobody}) \ {d}
      BY <1>2
    <2>2. Fill(people) \subseteq UNION {setting.positions[x] : x \in (Devices \cup {nobody}) \ {d}}
      BY <2>1 DEF Fill
    <2>3. QED
      BY <1>1, <2>2 DEF Contains
  <1>3. QED
    BY <1>2

LEMMA Filling ==
  /\ \A people, d : d \in people => Contains(Fill(people), d)
  /\ \A people, d : Fill(people \cup {d}) = Insert(Fill(people), d)
  /\ \A f, d, e : Contains(f, d) => Contains(Insert(f, e), d)
  /\ \A f, d : Contains(Insert(f, d), d)
  /\ \A f, d : Contains(f, d) => Insert(f, d) = f
  /\ \A list : Filled(list) = Fill(Ids(list))
  <1>1. \A people, d : d \in people => Contains(Fill(people), d)
    BY DEF Contains, Fill
  <1>2. \A people, d : Fill(people \cup {d}) = Insert(Fill(people), d)
    BY DEF Insert, Fill
  <1>3. \A f, d, e : Contains(f, d) => Contains(Insert(f, e), d)
    BY DEF Insert, Contains
  <1>4. \A f, d : Contains(Insert(f, d), d) /\ (Contains(f, d) => Insert(f, d) = f)
    BY DEF Insert, Contains
  <1>5. \A list : Filled(list) = Fill(Ids(list))
    BY DEF Filled, Fill, Ids
  <1>6. QED
    BY <1>1, <1>2, <1>3, <1>4, <1>5

-----------------------------------------------------------------------------
(* The steps of flow() keep its invariant.                                   *)

LEMMA FlowWaits ==
  ASSUME FlowInv, ~Begun, ~Begun', UNCHANGED run_vars,
         encounter_list' = encounter_list, output_count' = output_count
  PROVE  FlowInv'
  <1>1. query' = query
    BY FlowSame
  <1>2. query.kind = "flow" => encounter_list = <<>> /\ output_count = 0
    BY DEF FlowInv, ListInv
  <1>3. ListInv'
    <2>1. Elements(<<>>) = {} /\ <<>> \in Seq({})
      BY DEF Elements
    <2>2. pc' \notin {"fetch", "sort", "walk", "done"}
      BY DEF Begun, Storing
    <2>3. QED
      BY <1>1, <1>2, <2>1, <2>2 DEF ListInv
  <1>4. pc' \notin {"walk", "done"}
    BY DEF Begun, Storing
  <1>5. FilterInv' /\ EncounteredInv' /\ InfectedInv'
    BY <1>4 DEF FilterInv, EncounteredInv, InfectedInv, Walking
  <1>6. QED
    BY <1>3, <1>5 DEF FlowInv

LEMMA FlowStarts ==
  ASSUME IInv, FlowInv, Start
  PROVE  FlowInv'
  <1>1. /\ pc = "start" /\ pc' = "fetch" /\ UNCHANGED run_vars
        /\ encounter_list' = encounter_list /\ output_count' = output_count
        /\ walk_previous' = [p \in DOMAIN lists |->
                                [k \in DOMAIN lists[p] |-> Previous(lists[p][k], T + 1)]]
    BY DEF Start
  <1>2. /\ query' = query /\ lists' = lists /\ hist' = hist /\ RunInv /\ ~Begun /\ Begun'
        /\ (\A p, k : Listed(p, k)' = Listed(p, k))
    BY <1>1, RunSame DEF IInv, Begun, Storing, run_vars
  <1> SUFFICES ASSUME query.kind = "flow" PROVE FlowInv'
    BY <1>1, <1>2 DEF FlowInv, ListInv, FilterInv, EncounteredInv, InfectedInv, Walking
  <1>3. encounter_list = <<>> /\ output_count = 0
    BY <1>2 DEF FlowInv, ListInv
  <1>4. ListInv'
    <2>1. Elements(<<>>) = {} /\ <<>> \in Seq({})
      BY DEF Elements
    <2>2. ASSUME NEW p \in DOMAIN lists, NEW k \in DOMAIN lists[p], NEW t \in Times,
                 Listed(p, k) \in hist[t], Stands(p, k)' < t
          PROVE  FALSE
      <3>1. Stands(p, k)' = Previous(Listed(p, k), T + 1)
        BY <1>1 DEF Stands, Listed
      <3>2. T + 1 \in 1..T + 1 /\ t < T + 1
        BY StoreAssumption DEF Times
      <3>3. QED
        BY <1>2, <2>2, <3>1, <3>2, PreviousIs
    <2>3. QED
      BY <1>1, <1>2, <1>3, <2>1, <2>2 DEF ListInv
  <1>5. FilterInv'
    <2>1. filter' = [source |-> Filled(query.source), sink |-> Filled(query.sink),
                     encountered |-> IF query.direct THEN Filled(query.source) ELSE {},
                     infected |-> setting.positions[nobody]]
      BY DEF Start
    <2>2. setting' = setting /\ \A list : Filled(list)' = Filled(list)
      BY <1>1, FlowSame DEF run_vars
    <2>3. QED
      BY <1>1, <1>2, <1>3, <2>1, <2>2 DEF FilterInv
  <1>6. QED
    BY <1>1, <1>4, <1>5 DEF FlowInv, EncounteredInv, InfectedInv, Walking

\* What a fetch lists.
LEMMA ListedIs ==
  ASSUME IInv, Fetch, query.kind = "flow"
  PROVE  \E e : /\ encounter_list' = Append(encounter_list, e)
                /\ IsEntry(e, pass, i)
                /\ ~fetch_dummy /\ Good(previous) => e = Event(pass, i, previous)
  <1>1. /\ RunInv /\ PlaceInv /\ StoreInv /\ PreviousInv /\ pc = "fetch" /\ found # NotFound
    BY DEF IInv, Fetch
  <1>2. /\ pass \in DOMAIN lists /\ s \in Shuffles /\ i \in DOMAIN lists[pass]
        /\ device = Listed(pass, i)
    BY <1>1, PlaceTypes
  <1> DEFINE lasts == ~fetch_dummy /\ entry.duration > minimum_duration /\ entry.confirmed
             e == [encountered |-> entry.encountered, device |-> device, is_source |-> pass = 1,
                   time |-> IF lasts THEN previous ELSE setting.end_time]
  <1>3. encounter_list' = Append(encounter_list, e)
    BY DEF Fetch, ListEncounter
  <1>4. ASSUME ~fetch_dummy
        PROVE  /\ previous \in Times /\ device \in hist[previous]
               /\ Good(previous) <=> lasts
               /\ entry.encountered = Partner(device, previous)
    <2>1. /\ previous \in Times /\ device \in hist[previous] /\ previous \in Covered(s)
          /\ entry = Recorded(device, previous).payload
      BY <1>1, <1>4, LooksUp
    <2>2. /\ entry.encountered = Partner(device, previous)
          /\ entry.duration = (IF previous \in setting.short THEN minimum_duration ELSE minimum_duration + 1)
          /\ entry.confirmed = (previous \notin setting.unconfirmed)
      BY <2>1 DEF Recorded
    <2>3. entry.duration > minimum_duration <=> previous \notin setting.short
      BY <2>2 DEF minimum_duration
    <2>4. QED
      BY <1>2, <1>4, <2>1, <2>2, <2>3 DEF Good
  <1> HIDE DEF lasts
  <1>5. e.device = Listed(pass, i) /\ e.is_source = (pass = 1)
    BY <1>2
  <1>6. CASE lasts
    <2>1. ~fetch_dummy
      BY <1>6 DEF lasts
    <2>2. e = Event(pass, i, previous) /\ e.time = previous
      BY <1>2, <1>4, <1>6, <2>1 DEF Event
    <2>3. IsEntry(e, pass, i)
      BY <1>2, <1>4, <1>5, <1>6, <2>1, <2>2 DEF IsEntry
    <2>4. QED
      BY <1>3, <2>2, <2>3
  <1>7. CASE ~lasts
    <2>1. e.time = setting.end_time
      BY <1>7
    <2>2. IsEntry(e, pass, i)
      BY <1>5, <2>1 DEF IsEntry
    <2>3. ~(~fetch_dummy /\ Good(previous))
      BY <1>4, <1>7
    <2>4. QED
      BY <1>3, <2>2, <2>3
  <1>8. QED
    BY <1>6, <1>7

LEMMA FlowFetches ==
  ASSUME IInv, FlowInv, Fetch
  PROVE  FlowInv'
  <1>1. /\ RunInv /\ PlaceInv /\ StoreInv /\ PreviousInv /\ pc = "fetch" /\ found # NotFound
        /\ UNCHANGED run_vars /\ filter' = filter /\ Begun
    BY PlaceTypes DEF IInv, Fetch
  <1>2. /\ query' = query /\ lists' = lists /\ hist' = hist /\ setting' = setting
        /\ (\A p, k : Listed(p, k)' = Listed(p, k))
    BY <1>1, RunSame DEF run_vars
  <1>3. pc' \in {"fetch", "sort", "done"} /\ (query.kind = "flow" => pc' \in {"fetch", "sort"})
    BY <1>1 DEF Fetch
  <1> SUFFICES ASSUME query.kind = "flow" PROVE FlowInv'
    BY <1>2 DEF FlowInv, ListInv, FilterInv, EncounteredInv, InfectedInv, Walking
  <1>4. /\ encounter_list \in Seq(Elements(encounter_list))
        /\ \A e \in Elements(encounter_list) : \E p \in DOMAIN lists : \E k \in DOMAIN lists[p] : IsEntry(e, p, k)
        /\ \A p \in DOMAIN lists : \A k \in DOMAIN lists[p] : \A t \in Times :
              Good(t) /\ Listed(p, k) \in hist[t] /\ Stands(p, k) < t =>
                  Event(p, k, t) \in Elements(encounter_list)
    BY <1>1 DEF FlowInv, ListInv
  <1>5. output_count' = output_count
    BY DEF Fetch
  <1>6. /\ pass \in DOMAIN lists /\ i \in DOMAIN lists[pass]
        /\ device = Listed(pass, i) /\ previous = Stands(pass, i)
    BY <1>1, PlaceTypes
  <1>7. PICK e : /\ encounter_list' = Append(encounter_list, e)
                 /\ IsEntry(e, pass, i)
                 /\ ~fetch_dummy /\ Good(previous) => e = Event(pass, i, previous)
    BY ListedIs
  <1>8. /\ encounter_list' \in Seq(Elements(encounter_list'))
        /\ Elements(encounter_list') = Elements(encounter_list) \cup {e}
    BY <1>4, <1>7, Appending
  <1>9. /\ \A t : Good(t)' <=> Good(t)
        /\ \A p, k, t : Event(p, k, t)' = Event(p, k, t)
        /\ \A x, p, k : IsEntry(x, p, k)' <=> IsEntry(x, p, k)
        /\ \A list : Filled(list)' = Filled(list)
    BY <1>1, FlowSame
  <1>10. ASSUME NEW x \in Elements(encounter_list')
         PROVE  \E p \in DOMAIN lists : \E k \in DOMAIN lists[p] : IsEntry(x, p, k)
    BY <1>4, <1>6, <1>7, <1>8
  <1>11. ASSUME NEW p \in DOMAIN lists, NEW k \in DOMAIN lists[p], NEW t \in Times,
                Good(t), Listed(p, k) \in hist[t], Stands(p, k)' < t
         PROVE  Event(p, k, t) \in Elements(encounter_list')
    <2>1. CASE Stands(p, k) < t
      BY <1>4, <1>8, <1>11, <2>1
    <2>2. CASE ~(Stands(p, k) < t)
      <3>1. Stands(p, k) \in Nat /\ Stands(p, k)' \in Nat /\ t \in Nat
        BY <1>1, StandsTypes, Moves DEF Times
      <3>2. Stands(p, k)' # Stands(p, k)
        BY <1>11, <2>2
      <3>3. p = pass /\ k = i /\ ~fetch_dummy
        BY <1>1, <3>2, Moves
      <3>4. \A v \in Times : Stands(p, k)' < v /\ v < previous => device \notin hist[v]
        BY <1>1, <3>3, Moves
      <3>5. t = previous
        BY <1>6, <1>11, <2>2, <3>1, <3>3, <3>4
      <3>6. QED
        BY <1>7, <1>8, <1>11, <3>3, <3>5
    <2>3. QED
      BY <2>1, <2>2
  <1>12. ListInv'
    <2>1. Elements(encounter_list)' = Elements(encounter_list')
      BY DEF Elements
    <2>2. Begun' /\ pc' \notin {"walk", "done"}
      BY <1>3 DEF Begun, Storing
    <2>3. QED
      BY <1>2, <1>8, <1>9, <1>10, <1>11, <2>1, <2>2 DEF ListInv
  <1>13. FilterInv'
    BY <1>1, <1>2, <1>3, <1>5, <1>9 DEF FlowInv, FilterInv
  <1>14. QED
    BY <1>3, <1>12, <1>13 DEF FlowInv, EncounteredInv, InfectedInv, Walking

LEMMA FlowSplits ==
  ASSUME IInv, FlowInv, FetchFails
  PROVE  FlowInv'
  <1>1. /\ pc = "fetch" /\ pc' = "split" /\ UNCHANGED run_vars /\ filter' = filter
        /\ encounter_list' = encounter_list /\ output_count' = output_count
    BY DEF FetchFails
  <1>2. query' = query /\ lists' = lists /\ setting' = setting
    BY <1>1, RunSame DEF run_vars
  <1>3. /\ \A x, p, k : IsEntry(x, p, k)' <=> IsEntry(x, p, k)
        /\ \A list : Filled(list)' = Filled(list)
    BY <1>1, FlowSame
  <1>4. Begun /\ Begun'
    BY <1>1 DEF Begun, Storing
  <1>5. ListInv'
    BY <1>1, <1>2, <1>3, <1>4 DEF FlowInv, ListInv, Elements
  <1>6. FilterInv'
    BY <1>1, <1>2, <1>3, <1>4 DEF FlowInv, FilterInv
  <1>7. QED
    BY <1>1, <1>5, <1>6 DEF FlowInv, EncounteredInv, InfectedInv, Walking

\* After its walks flow() has listed each encounter that it can use.
LEMMA AllListed ==
  ASSUME IInv, FlowInv, query.kind = "flow", pc = "sort", Within,
         NEW p \in DOMAIN lists, NEW k \in DOMAIN lists[p], NEW t \in Times,
         Qualifies(t), Listed(p, k) \in hist[t]
  PROVE  Event(p, k, t) \in Elements(encounter_list)
  <1>1. RunInv /\ PreviousInv /\ WithinInv /\ Begun /\ Ended
    BY DEF IInv, Begun, Storing, Ended
  <1>2. PICK sh \in Shuffles : t \in Covered(sh)
    BY DEF Qualifies
  <1>3. Good(t)
    BY DEF Qualifies, Good
  <1>4. Stands(p, k) <= shuffle_start_times[sh]
    BY <1>1 DEF WithinInv, Finished
  <1>5. Stands(p, k) \in Nat /\ shuffle_start_times[sh] \in Nat /\ t \in Nat /\ shuffle_start_times[sh] < t
    BY <1>1, <1>2, StandsTypes, StoreTypes
  <1>6. Stands(p, k) < t
    BY <1>4, <1>5
  <1>7. QED
    BY <1>3, <1>6 DEF FlowInv, ListInv

LEMMA EntryTime ==
  ASSUME RunInv, NEW e, NEW p, NEW k, IsEntry(e, p, k)
  PROVE  /\ e.time \in Nat
         /\ InRange(e.time) => e.time \in Times /\ Qualifies(e.time) /\ Listed(p, k) \in hist[e.time]
                               /\ e = Event(p, k, e.time)
  <1>1. setting.end_time \in Nat
    BY SettingAssumption DEF RunInv
  <1>2. e.time \in Nat
    BY <1>1, StoreAssumption DEF IsEntry, Times
  <1>3. ASSUME InRange(e.time) PROVE e.time # setting.end_time
    BY <1>1, <1>2, <1>3 DEF InRange
  <1>4. ASSUME Good(e.time), InRange(e.time) PROVE Qualifies(e.time)
    BY <1>4 DEF Good, Qualifies
  <1>5. QED
    BY <1>2, <1>3, <1>4 DEF IsEntry

LEMMA FlowSorts ==
  ASSUME IInv, FlowInv, SortList
  PROVE  FlowInv'
  <1>1. /\ pc = "sort" /\ pc' = "walk" /\ encounter_list' = Sorted(encounter_list) /\ UNCHANGED run_vars
        /\ walk_previous' = walk_previous /\ filter' = filter /\ output_count' = output_count
    BY DEF SortList
  <1>2. /\ query' = query /\ lists' = lists /\ hist' = hist /\ RunInv /\ Begun /\ Begun' /\ Walking' = (query.kind = "flow")
        /\ (Within' <=> Within) /\ (\A p, k : Listed(p, k)' = Listed(p, k))
    BY <1>1, RunSame DEF IInv, Begun, Storing, Walking, run_vars
  <1>3. query.kind = "flow"
    BY <1>1, <1>2, ListTypes DEF IInv, PlaceInv
  <1>4. /\ encounter_list \in Seq(Elements(encounter_list))
        /\ \A e \in Elements(encounter_list) : \E p \in DOMAIN lists : \E k \in DOMAIN lists[p] : IsEntry(e, p, k)
    BY <1>3 DEF FlowInv, ListInv
  <1>5. \A e \in Elements(encounter_list) : e.time \in Int
    BY <1>2, <1>4, EntryTime
  <1>6. /\ encounter_list' \in Seq(Elements(encounter_list'))
        /\ Elements(encounter_list') = Elements(encounter_list) /\ InTime(encounter_list')
    BY <1>1, <1>4, <1>5, Sorting
  <1>7. Elements(encounter_list)' = Elements(encounter_list)
    BY <1>6 DEF Elements
  <1>8. ListInv'
    <2>1. \A x, p, k : IsEntry(x, p, k)' <=> IsEntry(x, p, k)
      BY <1>1, FlowSame
    <2>2. \A m, n \in DOMAIN encounter_list' : m < n => encounter_list'[m].time <= encounter_list'[n].time
      BY <1>6 DEF InTime
    <2>3. QED
      BY <1>1, <1>2, <1>4, <1>6, <1>7, <2>1, <2>2 DEF ListInv
  <1>9. /\ filter = [source |-> filter.source, sink |-> filter.sink,
                     encountered |-> filter.encountered, infected |-> filter.infected]
        /\ filter.source = Filled(query.source) /\ filter.sink = Filled(query.sink)
        /\ filter.encountered = (IF query.direct THEN Filled(query.source) ELSE {})
        /\ filter.infected = setting.positions[nobody] /\ output_count = 0
    BY <1>1, <1>2, <1>3 DEF FlowInv, FilterInv
  <1>10. FilterInv'
    <2>1. \A list : Filled(list)' = Filled(list)
      BY <1>1, FlowSame
    <2>2. QED
      BY <1>1, <1>2, <1>9, <2>1 DEF FilterInv
  <1>11. EncounteredInv'
    <2>0. PICK people : people = IF query.direct THEN Sources ELSE {}
      OBVIOUS
    <2>1. filter.encountered = Fill(people) /\ people \in SUBSET (Devices \cup {nobody})
      <3>1. Fill({}) = {}
        BY DEF Fill
      <3>2. Filled(query.source) = Fill(Sources) /\ Sources \subseteq Devices
        BY <1>2, <1>3, Filling, FlowLists DEF Sources
      <3>3. QED
        BY <1>9, <2>0, <3>1, <3>2
    <2>2. \A x \in people : query.direct /\ x \in Sources
      BY <2>0
    <2>3. \A k \in DOMAIN lists[1] : \A t \in Times :
              Within /\ Qualifies(t) /\ Listed(1, k) \in hist[t] => Event(1, k, t) \in Elements(encounter_list)
      BY <1>1, <1>2, <1>3, AllListed, FlowLists
    <2>4. /\ Fill(people)' = Fill(people) /\ Devices' = Devices /\ Sources' = Sources
          /\ \A t : Qualifies(t)' <=> Qualifies(t)
          /\ \A p, k, t : Event(p, k, t)' = Event(p, k, t)
      BY <1>1, FlowSame
    <2>5. /\ filter'.encountered = Fill(people)' /\ people \in SUBSET (Devices' \cup {nobody})
          /\ \A x \in people : query'.direct /\ x \in Sources'
      BY <1>1, <1>2, <2>1, <2>2, <2>4
    <2>6. \A k \in DOMAIN lists'[1] : \A t \in Times :
              Within' /\ Qualifies(t)' /\ Listed(1, k)' \in hist'[t] => Event(1, k, t)' \in Elements(encounter_list)'
      BY <1>2, <1>7, <2>3, <2>4
    <2>7. QED
      BY <2>5, <2>6 DEF EncounteredInv
  <1>12. InfectedInv'
    <2>1. filter.infected = Fill({} \cup {nobody})
      BY <1>9 DEF Fill
    <2>2. Cardinality({}) = 0
      BY FS_EmptySet
    <2>3. \A k \in DOMAIN lists[2] : \A t \in Times :
              Within /\ Qualifies(t) /\ Listed(2, k) \in hist[t] => Event(2, k, t) \in Elements(encounter_list)
      BY <1>1, <1>2, <1>3, AllListed, FlowLists
    <2>4. /\ \A people : Fill(people)' = Fill(people)
          /\ \A t : Qualifies(t)' <=> Qualifies(t)
          /\ \A p, k, t : Event(p, k, t)' = Event(p, k, t)
      BY <1>1, FlowSame
    <2>5. \A k \in DOMAIN lists'[2] : \A t \in Times :
              Within' /\ Qualifies(t)' /\ Listed(2, k)' \in hist'[t] => Event(2, k, t)' \in Elements(encounter_list)'
      BY <1>2, <1>7, <2>3, <2>4
    <2>6. filter'.infected = Fill({} \cup {nobody})' /\ output_count' = Cardinality({})
      BY <1>1, <1>9, <2>1, <2>2, <2>4
    <2>7. {} \in SUBSET Sinks'
      OBVIOUS
    <2>8. QED
      BY <2>5, <2>6, <2>7 DEF InfectedInv
  <1>13. QED
    BY <1>8, <1>10, <1>11, <1>12 DEF FlowInv

-----------------------------------------------------------------------------
(* A step of the walk of flow() through its list.                            *)

\* The entry e of device k of list p is gone through; "spread" and "reached" are put
\* in the filters.
Goes(e, p, k, spread, reached) ==
    /\ p \in DOMAIN lists /\ k \in DOMAIN lists[p] /\ IsEntry(e, p, k)
    /\ Elements(encounter_list) = Elements(encounter_list') \cup {e}
    /\ \A x \in Elements(encounter_list') : e.time <= x.time
    /\ spread = IF /\ e.is_source /\ InRange(e.time)
                   /\ query.direct \/ ~Contains(filter.source, e.encountered)
                   /\ ~Contains(filter.sink, e.encountered)
                THEN e.encountered ELSE nobody
    /\ filter'.encountered = Insert(filter.encountered, spread)
    /\ reached = IF ~e.is_source /\ InRange(e.time) /\ Contains(filter'.encountered, e.encountered)
                 THEN e.device ELSE nobody
    /\ filter'.infected = Insert(filter.infected, reached)
    /\ output_count' = IF Contains(filter.infected, reached) THEN output_count ELSE output_count + 1

LEMMA WalkIs ==
  ASSUME IInv, FlowInv, WalkThrough
  PROVE  /\ RunInv /\ query.kind = "flow" /\ pc = "walk" /\ pc' \in {"walk", "done"} /\ UNCHANGED run_vars
         /\ query' = query /\ lists' = lists /\ hist' = hist
         /\ filter.source = Fill(Sources) /\ filter.sink = Fill(Sinks)
         /\ ListInv' /\ FilterInv'
         /\ \E e, p, k, spread, reached : Goes(e, p, k, spread, reached)
  <1>1. /\ pc = "walk" /\ pc' \in {"walk", "done"} /\ encounter_list # <<>>
        /\ pc' = (IF Len(encounter_list) = 1 THEN "done" ELSE "walk")
        /\ encounter_list' = Tail(encounter_list) /\ UNCHANGED run_vars
    BY DEF WalkThrough
  <1>2. /\ query' = query /\ lists' = lists /\ hist' = hist /\ RunInv /\ Begun /\ Begun'
    BY <1>1, RunSame DEF IInv, Begun, Storing, run_vars
  <1>3. query.kind = "flow"
    BY <1>1, <1>2, ListTypes DEF IInv, PlaceInv
  <1>4. /\ encounter_list \in Seq(Elements(encounter_list)) /\ InTime(encounter_list)
        /\ \A e \in Elements(encounter_list) : \E p \in DOMAIN lists : \E k \in DOMAIN lists[p] : IsEntry(e, p, k)
    BY <1>1, <1>3 DEF FlowInv, ListInv, InTime
  <1>5. PICK e : e = Head(encounter_list)
    OBVIOUS
  <1>6. /\ encounter_list' \in Seq(Elements(encounter_list'))
        /\ Elements(encounter_list) = Elements(encounter_list') \cup {e}
        /\ Len(encounter_list) = 1 => encounter_list' = <<>>
        /\ InTime(encounter_list') /\ \A x \in Elements(encounter_list') : e.time <= x.time
    BY <1>1, <1>4, <1>5, Removing
  <1>7. ListInv'
    <2>1. \A x, p, k : IsEntry(x, p, k)' <=> IsEntry(x, p, k)
      BY <1>1, FlowSame
    <2>2. \A m, n \in DOMAIN encounter_list' : m < n => encounter_list'[m].time <= encounter_list'[n].time
      BY <1>6 DEF InTime
    <2>3. Elements(encounter_list)' = Elements(encounter_list')
      BY DEF Elements
    <2>4. \A x \in Elements(encounter_list') : \E p \in DOMAIN lists : \E k \in DOMAIN lists[p] : IsEntry(x, p, k)
      BY <1>4, <1>6
    <2>5. pc' = "done" => encounter_list' = <<>>
      BY <1>1, <1>6
    <2>6. QED
      BY <1>1, <1>2, <1>6, <2>1, <2>2, <2>3, <2>4, <2>5 DEF ListInv
  <1>8. PICK p, k : p \in DOMAIN lists /\ k \in DOMAIN lists[p] /\ IsEntry(e, p, k)
    BY <1>4, <1>6
  <1>9. PICK spread : spread = Spread
    OBVIOUS
  <1>10. PICK encountered : encountered = Insert(filter.encountered, spread)
    OBVIOUS
  <1>11. PICK reached : reached = IF ~e.is_source /\ InRange(e.time) /\ Contains(encountered, e.encountered)
                                  THEN e.device ELSE nobody
    OBVIOUS
  <1>12. /\ filter' = [filter EXCEPT !.encountered = encountered, !.infected = Insert(@, reached)]
         /\ output_count' = IF Contains(filter.infected, reached) THEN output_count ELSE output_count + 1
    BY <1>5, <1>9, <1>10, <1>11 DEF WalkThrough
  <1>13. /\ filter = [source |-> filter.source, sink |-> filter.sink,
                      encountered |-> filter.encountered, infected |-> filter.infected]
         /\ filter.source = Filled(query.source) /\ filter.sink = Filled(query.sink)
         /\ query.direct => Filled(query.source) \subseteq filter.encountered
    BY <1>2, <1>3 DEF FlowInv, FilterInv
  <1>14. filter' = [source |-> filter.source, sink |-> filter.sink,
                    encountered |-> encountered, infected |-> Insert(filter.infected, reached)]
    BY <1>12, <1>13
  <1>15. FilterInv'
    <2>1. \A list : Filled(list)' = Filled(list)
      BY <1>1, FlowSame
    <2>2. filter.encountered \subseteq encountered
      BY <1>10 DEF Insert
    <2>3. QED
      BY <1>1, <1>2, <1>13, <1>14, <2>1, <2>2 DEF FilterInv
  <1>16. Goes(e, p, k, spread, reached)
    <2>1. spread = IF /\ e.is_source /\ InRange(e.time)
                      /\ query.direct \/ ~Contains(filter.source, e.encountered)
                      /\ ~Contains(filter.sink, e.encountered)
                   THEN e.encountered ELSE nobody
      BY <1>5, <1>9 DEF Spread
    <2>2. filter'.encountered = encountered /\ filter'.infected = Insert(filter.infected, reached)
      BY <1>14
    <2>3. QED
      BY <1>6, <1>8, <1>10, <1>11, <1>12, <2>1, <2>2 DEF Goes
  <1>17. filter.source = Fill(Sources) /\ filter.sink = Fill(Sinks)
    BY <1>13, Filling DEF Sources, Sinks
  <1>18. QED
    BY <1>1, <1>2, <1>3, <1>7, <1>15, <1>16, <1>17

\* Whom the entry of a source spreads to.
LEMMA SpreadIs ==
  ASSUME IInv, FlowInv, WalkThrough, Exact, NEW e, NEW p, NEW k, NEW spread, NEW reached,
         Goes(e, p, k, spread, reached)
  PROVE  /\ ~e.is_source => spread = nobody
         /\ spread # nobody => /\ spread \in Devices /\ Between(spread)
                               /\ e.time \in Times /\ MetSource(spread, e.time)
         /\ \A t \in Times : e = Event(1, k, t) /\ p = 1 /\ Qualifies(t) /\ Listed(1, k) \in hist[t]
                             /\ Between(Partner(Listed(1, k), t)) => spread = Partner(Listed(1, k), t)
  <1>1. /\ RunInv /\ query.kind = "flow" /\ filter.source = Fill(Sources) /\ filter.sink = Fill(Sinks)
    BY WalkIs
  <1>2. /\ p \in DOMAIN lists /\ k \in DOMAIN lists[p] /\ IsEntry(e, p, k)
        /\ spread = IF /\ e.is_source /\ InRange(e.time)
                       /\ query.direct \/ ~Contains(filter.source, e.encountered)
                       /\ ~Contains(filter.sink, e.encountered)
                    THEN e.encountered ELSE nobody
    BY DEF Goes
  <1>3. \A x : /\ x \in Sources => Contains(filter.source, x)
               /\ x \in Sinks => Contains(filter.sink, x)
               /\ x \in Devices /\ Contains(filter.source, x) => x \in Sources
               /\ x \in Devices /\ Contains(filter.sink, x) => x \in Sinks
    <2>1. Sources \subseteq Devices \cup {nobody} /\ Sinks \subseteq Devices \cup {nobody}
      BY <1>1, FlowLists
    <2>2. QED
      BY <1>1, <2>1, Filling, ExactIs
  <1>4. ~e.is_source => spread = nobody
    BY <1>2
  <1>5. ASSUME spread # nobody
        PROVE  /\ spread \in Devices /\ Between(spread)
               /\ e.time \in Times /\ MetSource(spread, e.time)
    <2>1. /\ e.is_source /\ InRange(e.time) /\ spread = e.encountered
          /\ query.direct \/ ~Contains(filter.source, spread)
          /\ ~Contains(filter.sink, spread)
      BY <1>2, <1>5
    <2>2. /\ e.time \in Times /\ Qualifies(e.time) /\ Listed(p, k) \in hist[e.time] /\ e = Event(p, k, e.time)
      BY <1>1, <1>2, <2>1, EntryTime
    <2>3. p = 1
      BY <1>2, <2>1 DEF IsEntry
    <2>4. spread = Partner(Listed(1, k), e.time)
      <3>1. Event(p, k, e.time).encountered = Partner(Listed(p, k), e.time)
        BY DEF Event
      <3>2. QED
        BY <2>1, <2>2, <2>3, <3>1
    <2>5. /\ spread \in Devices /\ spread # Listed(1, k) /\ hist[e.time] = {Listed(1, k), spread}
      BY <1>1, <2>2, <2>3, <2>4, Pair
    <2>6. Listed(1, k) \in Sources
      BY <1>1, <1>2, <2>3, FlowLists
    <2>7. Between(spread)
      BY <1>3, <2>1 DEF Between
    <2>8. MetSource(spread, e.time)
      BY <2>2, <2>5, <2>6 DEF MetSource
    <2>9. QED
      BY <2>2, <2>5, <2>7, <2>8
  <1>6. ASSUME NEW t \in Times, e = Event(1, k, t), p = 1, Qualifies(t), Listed(1, k) \in hist[t],
               Between(Partner(Listed(1, k), t))
        PROVE  spread = Partner(Listed(1, k), t)
    <2>1. e.is_source /\ e.time = t /\ e.encountered = Partner(Listed(1, k), t)
      BY <1>6 DEF Event
    <2>2. InRange(t)
      BY <1>6 DEF Qualifies
    <2>3. Partner(Listed(1, k), t) \in Devices
      BY <1>1, <1>6, Pair
    <2>4. /\ ~Contains(filter.sink, e.encountered)
          /\ query.direct \/ ~Contains(filter.source, e.encountered)
      BY <1>3, <1>6, <2>1, <2>3 DEF Between
    <2>5. QED
      BY <1>2, <2>1, <2>2, <2>4
  <1>7. QED
    BY <1>4, <1>5, <1>6

LEMMA EncounteredKept ==
  ASSUME IInv, FlowInv, WalkThrough
  PROVE  EncounteredInv'
  <1>1. /\ RunInv /\ query.kind = "flow" /\ pc = "walk" /\ pc' \in {"walk", "done"} /\ UNCHANGED run_vars
        /\ query' = query /\ lists' = lists /\ hist' = hist
    BY WalkIs
  <1>2. PICK e, p, k, spread, reached : Goes(e, p, k, spread, reached)
    BY WalkIs
  <1>3. /\ Elements(encounter_list) = Elements(encounter_list') \cup {e}
        /\ \A x \in Elements(encounter_list') : e.time <= x.time
        /\ filter'.encountered = Insert(filter.encountered, spread)
    BY <1>2 DEF Goes
  <1> SUFFICES ASSUME Exact PROVE EncounteredInv'
    BY <1>1, FlowSame DEF EncounteredInv
  <1>4. /\ spread # nobody => /\ spread \in Devices /\ Between(spread)
                              /\ e.time \in Times /\ MetSource(spread, e.time)
        /\ \A t \in Times : e = Event(1, k, t) /\ p = 1 /\ Qualifies(t) /\ Listed(1, k) \in hist[t]
                            /\ Between(Partner(Listed(1, k), t)) => spread = Partner(Listed(1, k), t)
    BY <1>2, SpreadIs
  <1>5. Walking
    BY <1>1 DEF Walking
  <1>6. PICK people \in SUBSET (Devices \cup {nobody}) :
              /\ filter.encountered = Fill(people)
              /\ \A x \in people : x = nobody \/ (query.direct /\ x \in Sources) \/ (Between(x) /\ Past(x))
    BY <1>5 DEF FlowInv, EncounteredInv
  <1>7. Elements(encounter_list)' = Elements(encounter_list')
    BY DEF Elements
  <1>8. /\ Devices' = Devices /\ Sources' = Sources
        /\ \A set : Fill(set)' = Fill(set)
        /\ \A f, d : Contains(f, d)' <=> Contains(f, d)
        /\ \A t : Qualifies(t)' <=> Qualifies(t)
        /\ \A q, n, t : Event(q, n, t)' = Event(q, n, t)
        /\ \A d, t : Partner(d, t)' = Partner(d, t)
        /\ \A x : Between(x)' <=> Between(x)
        /\ \A x, t : MetSource(x, t)' <=> MetSource(x, t)
        /\ \A q, n : Listed(q, n)' = Listed(q, n)
    BY <1>1, FlowSame, RunSame
  <1>9. \A x : Past(x)' <=> \E u \in Times : MetSource(x, u) /\ \A y \in Elements(encounter_list') : u <= y.time
    BY <1>7, <1>8 DEF Past
  <1>10. PICK more : more = people \cup {spread}
    OBVIOUS
  <1>11. filter'.encountered = Fill(more)' /\ more \in SUBSET (Devices' \cup {nobody})
    BY <1>3, <1>4, <1>6, <1>8, <1>10, Filling
  <1>12. ASSUME NEW x \in more
         PROVE  x = nobody \/ (query'.direct /\ x \in Sources') \/ (Between(x)' /\ Past(x)')
    <2>1. CASE x \in people
      <3>1. Past(x) => Past(x)'
        BY <1>3, <1>9 DEF Past
      <3>2. QED
        BY <1>1, <1>6, <1>8, <2>1, <3>1
    <2>2. CASE x = spread /\ spread # nobody
      <3>1. Past(x)'
        BY <1>3, <1>4, <1>9, <2>2
      <3>2. QED
        BY <1>4, <1>8, <2>2, <3>1
    <2>3. QED
      BY <1>10, <2>1, <2>2
  <1>13. ASSUME Within, NEW n \in DOMAIN lists[1], NEW t \in Times,
                Qualifies(t), Listed(1, n) \in hist[t], Between(Partner(Listed(1, n), t))
         PROVE  \/ Event(1, n, t) \in Elements(encounter_list')
                \/ Contains(filter'.encountered, Partner(Listed(1, n), t))
    <2>1. \/ Event(1, n, t) \in Elements(encounter_list)
          \/ Contains(filter.encountered, Partner(Listed(1, n), t))
      BY <1>5, <1>13 DEF FlowInv, EncounteredInv
    <2>2. CASE Contains(filter.encountered, Partner(Listed(1, n), t))
      BY <1>3, <2>2, Filling
    <2>3. CASE e = Event(1, n, t)
      <3>1. IsEntry(e, p, k) /\ p \in DOMAIN lists /\ k \in DOMAIN lists[p]
        BY <1>2 DEF Goes
      <3>2. e.is_source /\ e.device = Listed(1, n) /\ e.time = t /\ e.encountered = Partner(Listed(1, n), t)
        BY <2>3 DEF Event
      <3>3. p = 1 /\ Listed(1, k) = Listed(1, n)
        BY <3>1, <3>2 DEF IsEntry
      <3>4. e = Event(1, k, t)
        BY <2>3, <3>3 DEF Event
      <3>5. spread = Partner(Listed(1, n), t)
        BY <1>4, <1>13, <3>3, <3>4
      <3>6. QED
        BY <1>3, <3>5, Filling
    <2>4. QED
      BY <1>3, <2>1, <2>2, <2>3
  <1>14. Within' => \A n \in DOMAIN lists'[1] : \A t \in Times :
              Qualifies(t)' /\ Listed(1, n)' \in hist'[t] /\ Between(Partner(Listed(1, n), t))' =>
                  \/ Event(1, n, t)' \in Elements(encounter_list)'
                  \/ Contains(filter.encountered, Partner(Listed(1, n), t))'
    <2>1. Within' <=> Within
      BY <1>1, RunSame
    <2> SUFFICES ASSUME Within, NEW n \in DOMAIN lists[1], NEW t \in Times,
                        Qualifies(t), Listed(1, n) \in hist[t], Between(Partner(Listed(1, n), t))'
                 PROVE  \/ Event(1, n, t) \in Elements(encounter_list')
                        \/ Contains(filter.encountered, Partner(Listed(1, n), t))'
      BY <1>1, <1>7, <1>8, <2>1
    <2>2. PICK x : x = Partner(Listed(1, n), t)
      OBVIOUS
    <2>3. Partner(Listed(1, n), t)' = x
      BY <1>8, <2>2
    <2>4. Between(Partner(Listed(1, n), t))' <=> Between(x)'
      BY <2>3 DEF Between
    <2>5. Contains(filter.encountered, Partner(Listed(1, n), t))' <=> Contains(filter'.encountered, x)
      BY <1>1, <2>3 DEF Contains, run_vars
    <2>6. QED
      BY <1>8, <1>13, <2>2, <2>4, <2>5
  <1>15. QED
    BY <1>11, <1>12, <1>14 DEF EncounteredInv

\* A sink that is put in the filter was reached: who it met then had met a source before.
LEMMA ReachedIs ==
  ASSUME IInv, FlowInv, WalkThrough, DistinctDevices, NEW e, NEW p, NEW k, NEW spread, NEW reached,
         Goes(e, p, k, spread, reached), reached # nobody
  PROVE  reached \in Sinks /\ (Exact => reached \in Reached)
  <1>1. /\ RunInv /\ query.kind = "flow" /\ pc = "walk" /\ filter.source = Fill(Sources)
    BY WalkIs
  <1>2. /\ p \in DOMAIN lists /\ k \in DOMAIN lists[p] /\ IsEntry(e, p, k)
        /\ Elements(encounter_list) = Elements(encounter_list') \cup {e}
        /\ filter'.encountered = Insert(filter.encountered, spread)
        /\ reached = IF ~e.is_source /\ InRange(e.time) /\ Contains(filter'.encountered, e.encountered)
                     THEN e.device ELSE nobody
    BY DEF Goes
  <1>3. ~e.is_source /\ InRange(e.time) /\ Contains(filter'.encountered, e.encountered) /\ reached = e.device
    BY <1>2
  <1>4. p = 2 /\ reached = Listed(2, k) /\ reached \in Sinks
    <2>1. p # 1 /\ reached = Listed(p, k)
      BY <1>2, <1>3 DEF IsEntry
    <2>2. QED
      BY <1>1, <1>2, <2>1, FlowLists
  <1>5. ASSUME Exact PROVE reached \in Reached
    <2>1. PICK t : t = e.time
      OBVIOUS
    <2>2. t \in Times /\ Qualifies(t) /\ reached \in hist[t] /\ e = Event(2, k, t)
      BY <1>1, <1>2, <1>3, <1>4, <2>1, EntryTime
    <2>3. PICK x : x = Partner(reached, t)
      OBVIOUS
    <2>4. x \in Devices /\ x # nobody /\ hist[t] = {reached, x} /\ x # reached
      BY <1>1, <2>2, <2>3, Pair
    <2>5. e.encountered = x
      BY <1>4, <2>2, <2>3 DEF Event
    <2>6. Walking
      BY <1>1 DEF Walking
    <2>7. PICK people \in SUBSET (Devices \cup {nobody}) :
              /\ filter.encountered = Fill(people)
              /\ \A y \in people : y = nobody \/ (query.direct /\ y \in Sources) \/ (Between(y) /\ Past(y))
      BY <1>5, <2>6 DEF FlowInv, EncounteredInv
    <2>8. spread = nobody
      BY <1>3, <1>5, SpreadIs
    <2>9. x \in people
      <3>1. Contains(Fill(people \cup {nobody}), x)
        BY <1>2, <1>3, <2>5, <2>7, <2>8, Filling
      <3>2. x \in people \cup {nobody}
        BY <1>5, <2>4, <2>7, <3>1, ExactIs
      <3>3. QED
        BY <2>4, <3>2
    <2>10. CASE query.direct /\ x \in Sources
      <3>1. Carries(x, t)
        BY <2>10 DEF Carries
      <3>2. QED
        BY <1>4, <2>2, <2>3, <3>1 DEF Reached
    <2>11. CASE Between(x) /\ Past(x)
      <3>1. PICK u \in Times : MetSource(x, u) /\ \A y \in Elements(encounter_list) : u <= y.time
        BY <2>11 DEF Past
      <3>2. u <= t
        BY <1>2, <2>1, <3>1
      <3>3. u # t
        <4>1. ASSUME u = t PROVE FALSE
          <5>1. (hist[t] \ {x}) \cap Sources # {}
            BY <3>1, <4>1 DEF MetSource
          <5>2. reached \in Sources
            BY <2>4, <5>1
          <5>3. QED
            BY <1>1, <1>4, <5>2, FlowLists
        <4>2. QED
          BY <4>1
      <3>4. u \in 1..t - 1
        BY <2>2, <3>2, <3>3, StoreAssumption DEF Times
      <3>5. Carries(x, t)
        BY <2>11, <3>1, <3>4 DEF Carries
      <3>6. QED
        BY <1>4, <2>2, <2>3, <3>5 DEF Reached
    <2>12. QED
      BY <2>4, <2>7, <2>9, <2>10, <2>11
  <1>6. QED
    BY <1>4, <1>5

\* And whoever was reached is put in it: those it met are in the filter by then.
LEMMA Reaches ==
  ASSUME IInv, FlowInv, WalkThrough, Exact, Within, NEW e, NEW p, NEW k, NEW spread, NEW reached,
         Goes(e, p, k, spread, reached), NEW n \in DOMAIN lists[2], NEW t \in Times, Qualifies(t),
         Listed(2, n) \in hist[t], Carries(Partner(Listed(2, n), t), t), e = Event(2, n, t)
  PROVE  reached = Listed(2, n)
  <1>1. /\ RunInv /\ query.kind = "flow" /\ pc = "walk" /\ Walking /\ Begun
    BY WalkIs DEF Walking, Begun, Storing
  <1>2. /\ Elements(encounter_list) = Elements(encounter_list') \cup {e}
        /\ \A x \in Elements(encounter_list') : e.time <= x.time
        /\ filter'.encountered = Insert(filter.encountered, spread)
        /\ reached = IF ~e.is_source /\ InRange(e.time) /\ Contains(filter'.encountered, e.encountered)
                     THEN e.device ELSE nobody
    BY DEF Goes
  <1>3. PICK x : x = Partner(Listed(2, n), t)
    OBVIOUS
  <1>4. ~e.is_source /\ e.time = t /\ InRange(e.time) /\ e.device = Listed(2, n) /\ e.encountered = x
    <2>1. e.is_source = (2 = 1)
      BY DEF Event
    <2>2. e.time = t /\ e.device = Listed(2, n) /\ e.encountered = x
      BY <1>3 DEF Event
    <2>3. InRange(t)
      BY DEF Qualifies
    <2>4. 2 # 1
      OBVIOUS
    <2>5. QED
      BY <2>1, <2>2, <2>3, <2>4
  <1>5. CASE query.direct /\ x \in Sources
    <2>1. Filled(query.source) \subseteq filter.encountered
      BY <1>1, <1>5 DEF FlowInv, FilterInv
    <2>2. Contains(Filled(query.source), x)
      BY <1>5, Filling DEF Sources
    <2>3. Contains(filter.encountered, x)
      BY <2>1, <2>2 DEF Contains
    <2>4. QED
      BY <1>2, <1>4, <2>3, Filling
  <1>6. CASE Between(x) /\ \E u \in 1..t - 1 : MetSource(x, u)
    <2>1. PICK u : u \in 1..t - 1 /\ MetSource(x, u)
      BY <1>6
    <2>2. u \in Times /\ u < t
      BY <2>1, StoreAssumption DEF Times
    <2>3. Qualifies(u) /\ x \in hist[u]
      BY <2>1 DEF MetSource
    <2>4. PICK d : d \in hist[u] /\ d # x /\ d \in Sources
      BY <2>1 DEF MetSource
    <2>5. PICK m \in DOMAIN lists[1] : Listed(1, m) = d
      BY <1>1, <2>4, FlowLists
    <2>6. Partner(d, u) = x
      BY <1>1, <2>2, <2>3, <2>4, Pair
    <2>7. \/ Event(1, m, u) \in Elements(encounter_list)
          \/ Contains(filter.encountered, x)
      BY <1>1, <1>6, <2>2, <2>3, <2>4, <2>5, <2>6 DEF FlowInv, EncounteredInv
    <2>8. Event(1, m, u) \notin Elements(encounter_list)
      <3>1. Event(1, m, u).time = u
        BY DEF Event
      <3>2. ~(t <= u)
        BY <2>2 DEF Times
      <3>3. \A y \in Elements(encounter_list) : t <= y.time
        <4>1. t <= t
          BY DEF Times
        <4>2. QED
          BY <1>2, <1>4, <4>1
      <3>4. QED
        BY <3>1, <3>2, <3>3
    <2>9. QED
      BY <1>2, <1>4, <2>7, <2>8, Filling
  <1>7. QED
    BY <1>3, <1>5, <1>6 DEF Carries

LEMMA InfectedKept ==
  ASSUME IInv, FlowInv, WalkThrough, DistinctDevices
  PROVE  InfectedInv'
  <1>1. /\ RunInv /\ query.kind = "flow" /\ pc = "walk" /\ UNCHANGED run_vars
        /\ query' = query /\ lists' = lists /\ hist' = hist /\ Walking
    BY WalkIs DEF Walking
  <1>2. PICK e, p, k, spread, reached : Goes(e, p, k, spread, reached)
    BY WalkIs
  <1>3. /\ p \in DOMAIN lists /\ k \in DOMAIN lists[p] /\ IsEntry(e, p, k)
        /\ Elements(encounter_list) = Elements(encounter_list') \cup {e}
        /\ filter'.infected = Insert(filter.infected, reached)
        /\ output_count' = IF Contains(filter.infected, reached) THEN output_count ELSE output_count + 1
    BY <1>2 DEF Goes
  <1>4. reached # nobody => reached \in Sinks /\ (Exact => reached \in Reached)
    BY <1>2, ReachedIs
  <1>5. PICK people \in SUBSET Sinks :
            /\ filter.infected = Fill(people \cup {nobody}) /\ output_count = Cardinality(people)
            /\ Exact => people \subseteq Reached
            /\ Exact /\ Within => \A n \in DOMAIN lists[2] : \A t \in Times :
                  Qualifies(t) /\ Listed(2, n) \in hist[t] /\ Carries(Partner(Listed(2, n), t), t) =>
                      Event(2, n, t) \in Elements(encounter_list) \/ Listed(2, n) \in people
    BY <1>1 DEF FlowInv, InfectedInv
  <1>6. IsFiniteSet(Sinks)
    <2>1. query.sink \in Seq(Nat)
      BY <1>1, QueryAssumption DEF RunInv
    <2>2. Len(query.sink) \in Nat /\ DOMAIN query.sink = 1..Len(query.sink)
      BY <2>1
    <2>3. IsFiniteSet(DOMAIN query.sink)
      BY <2>2, FS_Interval
    <2>4. Sinks = {query.sink[n] : n \in DOMAIN query.sink}
      BY DEF Sinks, Ids
    <2> DEFINE f == [n \in DOMAIN query.sink |-> query.sink[n]]
    <2>5. f \in Surjection(DOMAIN query.sink, Sinks)
      BY <2>4 DEF Surjection
    <2>6. QED
      BY <2>3, <2>5, FS_Surjection
  <1>7. PICK more : more = IF Contains(filter.infected, reached) THEN people ELSE people \cup {reached}
    OBVIOUS
  <1>8. /\ more \subseteq Sinks /\ people \subseteq more /\ (Exact => more \subseteq Reached)
        /\ filter'.infected = Fill(more \cup {nobody}) /\ output_count' = Cardinality(more)
    <2>1. CASE Contains(filter.infected, reached)
      BY <1>3, <1>5, <1>7, <2>1, Filling
    <2>2. CASE ~Contains(filter.infected, reached)
      <3>1. reached \notin people \cup {nobody}
        BY <1>5, <2>2, Filling
      <3>2. reached \in Sinks /\ (Exact => reached \in Reached)
        BY <1>4, <3>1
      <3>3. more \cup {nobody} = (people \cup {nobody}) \cup {reached}
        BY <1>7, <2>2
      <3>4. filter'.infected = Fill(more \cup {nobody})
        BY <1>3, <1>5, <3>3, Filling
      <3>5. IsFiniteSet(people)
        BY <1>6, FS_Subset
      <3>6. Cardinality(people \cup {reached}) = Cardinality(people) + 1
        BY <3>1, <3>5, FS_AddElement
      <3>7. QED
        BY <1>3, <1>5, <1>7, <2>2, <3>2, <3>4, <3>6
    <2>3. QED
      BY <2>1, <2>2
  <1>9. ASSUME Exact PROVE reached \in more \cup {nobody}
    <2>1. CASE Contains(filter.infected, reached)
      <3>1. people \cup {nobody} \subseteq Devices \cup {nobody}
        BY <1>1, FlowLists
      <3>2. reached # nobody => reached \in Devices
        BY <1>1, <1>4, FlowLists
      <3>3. reached # nobody => reached \in people \cup {nobody}
        BY <1>5, <1>9, <2>1, <3>1, <3>2, ExactIs
      <3>4. QED
        BY <1>8, <3>3
    <2>2. QED
      BY <1>7, <2>1
  <1>10. ASSUME Exact, Within, NEW n \in DOMAIN lists[2], NEW t \in Times,
                Qualifies(t), Listed(2, n) \in hist[t], Carries(Partner(Listed(2, n), t), t)
         PROVE  Event(2, n, t) \in Elements(encounter_list') \/ Listed(2, n) \in more
    <2>1. Event(2, n, t) \in Elements(encounter_list) \/ Listed(2, n) \in people
      BY <1>5, <1>10
    <2>2. CASE e = Event(2, n, t)
      <3>1. reached = Listed(2, n)
        BY <1>2, <1>10, <2>2, Reaches
      <3>2. Listed(2, n) # nobody
        BY <1>1, <1>10, FlowLists
      <3>3. QED
        BY <1>9, <1>10, <3>1, <3>2
    <2>3. QED
      BY <1>3, <1>8, <2>1, <2>2
  <1>11. /\ Sinks' = Sinks /\ Reached' = Reached /\ (Exact' <=> Exact) /\ (Within' <=> Within)
         /\ \A set : Fill(set)' = Fill(set)
         /\ \A t : Qualifies(t)' <=> Qualifies(t)
         /\ \A q, n, t : Event(q, n, t)' = Event(q, n, t)
         /\ \A d, t : Partner(d, t)' = Partner(d, t)
         /\ \A x, t : Carries(x, t)' <=> Carries(x, t)
         /\ \A q, n : Listed(q, n)' = Listed(q, n)
         /\ Elements(encounter_list)' = Elements(encounter_list')
    BY <1>1, FlowSame, RunSame DEF Elements
  <1>12. \A n, t : Carries(Partner(Listed(2, n), t), t)' <=> Carries(Partner(Listed(2, n), t), t)
    <2> TAKE n, t
    <2>1. PICK x : x = Partner(Listed(2, n), t)
      OBVIOUS
    <2>2. Partner(Listed(2, n), t)' = x
      BY <1>11, <2>1
    <2>3. Carries(Partner(Listed(2, n), t), t)' <=> Carries(x, t)'
      BY <2>2 DEF Carries, Between
    <2>4. QED
      BY <1>11, <2>1, <2>3
  <1>13. Exact' /\ Within' => \A n \in DOMAIN lists'[2] : \A t \in Times :
              Qualifies(t)' /\ Listed(2, n)' \in hist'[t] /\ Carries(Partner(Listed(2, n), t), t)' =>
                  Event(2, n, t)' \in Elements(encounter_list)' \/ Listed(2, n)' \in more
    BY <1>1, <1>10, <1>11, <1>12
  <1>14. /\ more \in SUBSET Sinks' /\ filter'.infected = Fill(more \cup {nobody})'
         /\ output_count' = Cardinality(more) /\ (Exact' => more \subseteq Reached')
    BY <1>8, <1>11
  <1>15. QED
    BY <1>13, <1>14 DEF InfectedInv

LEMMA FlowWalks ==
  ASSUME IInv, FlowInv, WalkThrough, DistinctDevices
  PROVE  FlowInv'
  BY WalkIs, EncounteredKept, InfectedKept DEF FlowInv

LEMMA FlowStays ==
  ASSUME FlowInv, UNCHANGED vars
  PROVE  FlowInv'
  <1>1. /\ UNCHANGED run_vars /\ pc' = pc /\ walk_previous' = walk_previous /\ filter' = filter
        /\ encounter_list' = encounter_list /\ output_count' = output_count
    BY DEF vars
  <1>2. query' = query /\ setting' = setting /\ hist' = hist
    BY <1>1 DEF run_vars
  <1>3. /\ lists' = lists /\ Devices' = Devices /\ Sources' = Sources /\ Sinks' = Sinks /\ Reached' = Reached
        /\ (Exact' <=> Exact) /\ (Within' <=> Within) /\ Elements(encounter_list)' = Elements(encounter_list)
        /\ \A set : Fill(set)' = Fill(set)
        /\ \A list : Filled(list)' = Filled(list)
        /\ \A t : (Good(t)' <=> Good(t)) /\ (Qualifies(t)' <=> Qualifies(t))
        /\ \A p, k, t : Event(p, k, t)' = Event(p, k, t)
        /\ \A e, p, k : IsEntry(e, p, k)' <=> IsEntry(e, p, k)
        /\ \A p, k : Listed(p, k)' = Listed(p, k) /\ Stands(p, k)' = Stands(p, k)
    BY <1>1, FlowSame, RunSame DEF Elements, Stands
  <1>4. (Begun' <=> Begun) /\ (Walking' <=> Walking)
    BY <1>1, <1>2 DEF Begun, Walking, Storing
  <1>5. ListInv'
    BY <1>1, <1>2, <1>3, <1>4 DEF FlowInv, ListInv
  <1>6. FilterInv'
    BY <1>1, <1>2, <1>3, <1>4 DEF FlowInv, FilterInv
  <1>7. \A k, t : Between(Partner(Listed(1, k), t))' <=> Between(Partner(Listed(1, k), t))
    <2> TAKE k, t
    <2>1. PICK x : x = Partner(Listed(1, k), t)
      OBVIOUS
    <2>2. Partner(Listed(1, k), t)' = x
      BY <1>2, <1>3, <2>1 DEF Partner
    <2>3. Between(Partner(Listed(1, k), t))' <=> Between(x)'
      BY <2>2 DEF Between
    <2>4. QED
      BY <1>1, <2>1, <2>3, FlowSame
  <1>8. \A k, t : Contains(filter.encountered, Partner(Listed(1, k), t))' <=>
                  Contains(filter.encountered, Partner(Listed(1, k), t))
    BY <1>1, <1>2, <1>3 DEF Contains, Partner
  <1>9. \A x : (Between(x)' <=> Between(x)) /\ (Past(x)' <=> Past(x))
    BY <1>1, <1>3, FlowSame DEF Past
  <1>10. EncounteredInv'
    BY <1>1, <1>2, <1>3, <1>4, <1>7, <1>8, <1>9 DEF FlowInv, EncounteredInv
  <1>11. \A k, t : Carries(Partner(Listed(2, k), t), t)' <=> Carries(Partner(Listed(2, k), t), t)
    <2>1. \A x, u : MetSource(x, u)' <=> MetSource(x, u)
      BY <1>1, FlowSame
    <2> TAKE k, t
    <2>2. PICK x : x = Partner(Listed(2, k), t)
      OBVIOUS
    <2>3. Partner(Listed(2, k), t)' = x
      BY <1>2, <1>3, <2>2 DEF Partner
    <2>4. Carries(Partner(Listed(2, k), t), t)' <=> Carries(x, t)'
      BY <2>3 DEF Carries, Between
    <2>5. Carries(x, t)' <=> Carries(x, t)
      BY <1>1, FlowSame
    <2>6. QED
      BY <2>2, <2>4, <2>5
  <1>12. InfectedInv'
    <2>1. \A people : Fill(people \cup {nobody})' = Fill(people \cup {nobody})
      BY <1>3
    <2>2. QED
      BY <1>1, <1>2, <1>3, <1>4, <1>11, <2>1 DEF FlowInv, InfectedInv
  <1>13. QED
    BY <1>5, <1>6, <1>10, <1>12 DEF FlowInv

LEMMA FlowStep ==
  ASSUME DistinctDevices
  PROVE  IInv /\ FlowInv /\ [Next]_vars => FlowInv'
  <1> SUFFICES ASSUME IInv, FlowInv, [Next]_vars PROVE FlowInv'
    OBVIOUS
  <1>1. CASE StoreEpoch \/ SendShuffle \/ ReceiveShuffle
    <2>1. /\ UNCHANGEDQuery /\ pc \in {"store", "send", "receive"}
          /\ pc' \in {"send", "receive", "store", "start"}
      BY <1>1 DEF StoreEpoch, SendShuffle, ReceiveShuffle
    <2>2. ~Begun /\ ~Begun'
      BY <2>1 DEF Begun, Storing
    <2>3. UNCHANGED run_vars /\ encounter_list' = encounter_list /\ output_count' = output_count
      BY <2>1 DEF UNCHANGEDQuery
    <2>4. QED
      BY <2>2, <2>3, FlowWaits
  <1>2. CASE Start
    BY <1>2, FlowStarts
  <1>3. CASE Fetch
    BY <1>3, FlowFetches
  <1>4. CASE FetchFails
    BY <1>4, FlowSplits
  <1>5. CASE SortList
    BY <1>5, FlowSorts
  <1>6. CASE WalkThrough
    BY <1>6, FlowWalks
  <1>7. CASE UNCHANGED vars
    BY <1>7, FlowStays
  <1>8. QED
    BY <1>1, <1>2, <1>3, <1>4, <1>5, <1>6, <1>7 DEF Next

\* flow() never counts a sink twice, and counts exactly those that were reached when the
\* Bloom filters do not err: what it lists in one order of the walks and sorts by time
\* follows every path through one other device, whatever the histories and the number
\* of shuffles (flow_path_query.hpp).
THEOREM FlowCountedAlways ==
  ASSUME DistinctDevices
  PROVE  Spec => []FlowCounted
  <1>1. Init => FlowInv
    <2> SUFFICES ASSUME Init PROVE FlowInv
      OBVIOUS
    <2>1. pc = "store" /\ encounter_list = <<>> /\ output_count = 0
      BY DEF Init
    <2>2. Elements(<<>>) = {} /\ <<>> \in Seq({}) /\ ~Begun
      BY <2>1 DEF Elements, Begun, Storing
    <2>3. QED
      BY <2>1, <2>2 DEF FlowInv, ListInv, FilterInv, EncounteredInv, InfectedInv, Walking
  <1>2. IInv /\ FlowInv /\ [Next]_vars => FlowInv'
    BY FlowStep
  <1>3. IInv /\ FlowInv => FlowCounted
    <2> SUFFICES ASSUME IInv, FlowInv, query.kind = "flow"
                 PROVE  /\ output_count <= Len(query.sink)
                        /\ pc = "done" /\ Exact /\ Within => output_count = Cardinality(Reached)
      BY DEF FlowCounted
    <2>1. RunInv /\ query.sink \in Seq(Nat)
      BY QueryAssumption DEF IInv, RunInv
    <2>2. Len(query.sink) \in Nat /\ DOMAIN query.sink = 1..Len(query.sink)
      BY <2>1
    <2>3. IsFiniteSet(Sinks) /\ Cardinality(Sinks) <= Len(query.sink)
      <3>1. IsFiniteSet(DOMAIN query.sink) /\ Cardinality(DOMAIN query.sink) = Len(query.sink)
        BY <2>2, FS_Interval
      <3>2. Sinks = {query.sink[n] : n \in DOMAIN query.sink}
        BY DEF Sinks, Ids
      <3> DEFINE f == [n \in DOMAIN query.sink |-> query.sink[n]]
      <3>3. f \in Surjection(DOMAIN query.sink, Sinks)
        BY <3>2 DEF Surjection
      <3>4. QED
        BY <3>1, <3>3, FS_Surjection
    <2>4. CASE Walking
      <3>1. PICK people \in SUBSET Sinks :
              /\ output_count = Cardinality(people) /\ (Exact => people \subseteq Reached)
              /\ Exact /\ Within => \A k \in DOMAIN lists[2] : \A t \in Times :
                    Qualifies(t) /\ Listed(2, k) \in hist[t] /\ Carries(Partner(Listed(2, k), t), t) =>
                        Event(2, k, t) \in Elements(encounter_list) \/ Listed(2, k) \in people
        BY <2>4 DEF FlowInv, InfectedInv
      <3>2. Cardinality(people) \in Nat /\ Cardinality(Sinks) \in Nat /\ Cardinality(people) <= Cardinality(Sinks)
        BY <2>3, FS_Subset, FS_CardinalityType
      <3>3. ASSUME pc = "done", Exact, Within PROVE Reached \subseteq people
        <4>1. encounter_list = <<>>
          BY <3>3 DEF FlowInv, ListInv
        <4>2. Elements(encounter_list) = {}
          BY <4>1 DEF Elements
        <4> SUFFICES ASSUME NEW d \in Reached PROVE d \in people
          OBVIOUS
        <4>3. PICK t \in Times : d \in Sinks /\ Qualifies(t) /\ d \in hist[t] /\ Carries(Partner(d, t), t)
          BY DEF Reached
        <4>4. PICK k \in DOMAIN lists[2] : Listed(2, k) = d
          BY <2>1, <4>3, FlowLists
        <4>5. QED
          BY <3>1, <3>3, <4>2, <4>3, <4>4
      <3>4. pc = "done" /\ Exact /\ Within => people = Reached
        BY <3>1, <3>3
      <3>5. QED
        BY <2>2, <2>3, <3>1, <3>2, <3>4
    <2>5. CASE ~Walking
      <3>1. output_count = 0
        BY <2>5 DEF FlowInv, ListInv, FilterInv, Walking
      <3>2. QED
        BY <2>2, <2>5, <3>1 DEF Walking
    <2>6. QED
      BY <2>4, <2>5
  <1>4. QED
    BY <1>1, <1>2, <1>3, InvariantAlways, PTL DEF Spec
=============================================================================
