-------------------------- MODULE ReducerEqProofs ---------------------------
(* What TLAPS proves of ReducerEq, for lists of every length and any number   *)
(* of processes killed anywhere.                                              *)
EXTENDS ReducerEq, TLAPS

\* The four processes: machine and round tell them apart.
LEMMA Processes ==
    /\ \A p \in Process : p[1] \in Machine /\ RoundOf(p) \in Round /\ Peer(p) \in Process
    /\ \A p, q \in Process : p[1] = q[1] /\ RoundOf(p) = RoundOf(q) => p = q
    /\ \A m \in Machine : /\ Parent(m) \in Process /\ Child(m) \in Process
                          /\ Parent(m) # Child(m)
                          /\ Parent(m)[1] = m /\ RoundOf(Parent(m)) = 1
                          /\ Child(m)[1] = m /\ RoundOf(Child(m)) = 2
    /\ \A p \in Process : p[2] = "parent" => p = Parent(p[1])
    /\ \A p \in Process : p[2] # "parent" => p = Child(p[1])
    /\ \A m, c \in Machine : Parent(m) # Child(c) /\ (Parent(m) = Parent(c) => m = c)
  BY DEF Process, Machine, RoundOf, Round, Peer, OtherMachine, Parent, Child

\* In each round one machine generates.
LEMMA Generators ==
    /\ IsGenerator(Parent("A")) /\ ~IsGenerator(Parent("B"))
    /\ ~IsGenerator(Child("A")) /\ IsGenerator(Child("B"))
  BY DEF IsGenerator, Generator, RoundOf, Parent, Child

\* What is stored for a wire is two words.
LEMMA WordsType ==
    ASSUME NEW r \in Round, NEW i \in Wire, NEW g, v \in [Round -> Bits]
    PROVE  Words(r, i, g) \in [lo : Word, hi : Word]
  BY DEF Words, Word, Label, Bits

\* The hash is over one word for each wire, twice.
LEMMA HashedType ==
    ASSUME NEW m \in Machine, TypeOK PROVE Hashed(m) \in [Wire -> Word] \X [Wire -> Word]
  <1>1. \A c \in Machine, r \in Round : labels[c][r] \in [Wire -> [lo : Word, hi : Word]]
    BY DEF TypeOK
  <1>2. ASSUME NEW w \in [Wire -> [lo : Word, hi : Word]], NEW b
        PROVE  Held(w) \in [Wire -> Word] /\ apply_labels(w, b) \in [Wire -> Word]
    BY DEF Held, apply_labels
  <1>3. m \in {"A", "B"} /\ "A" \in Machine /\ "B" \in Machine /\ 1 \in Round /\ 2 \in Round
    BY DEF Machine, Round
  <1>4. QED
    BY <1>1, <1>2, <1>3 DEF Hashed
-----------------------------------------------------------------------------
\* Types hold at the start and after every step.
LEMMA TypeInit == Init => TypeOK
  BY EqAssumption DEF Init, TypeOK, Running, Ended, Wire, Word, Bits, NoDigest

\* Every step keeps the types.
LEMMA TypeStep == TypeOK /\ [Next]_vars => TypeOK'
  <1> SUFFICES ASSUME TypeOK, [Next]_vars PROVE TypeOK'
    OBVIOUS
  <1> USE EqAssumption, Processes DEF TypeOK, Running, Ended
  <1>1. ASSUME NEW r \in Round, Setup(r) PROVE TypeOK'
    <2>1. Generator(r) \in Process
      BY DEF Generator, Round, Machine
    <2>2. QED
      BY <1>1, <2>1 DEF Setup
  <1>2. ASSUME NEW p \in Process, RevealOut(p) \/ RevealIn(p) \/ PeerLost(p) \/ Kill(p) PROVE TypeOK'
    <2>1. CASE RevealOut(p)
      BY <2>1 DEF RevealOut
    <2>2. CASE RevealIn(p)
      BY <2>2 DEF RevealIn
    <2>3. CASE PeerLost(p)
      BY <2>3 DEF PeerLost
    <2>4. CASE Kill(p)
      BY <2>4 DEF Kill
    <2>5. QED
      BY <1>2, <2>1, <2>2, <2>3, <2>4
  <1>3. ASSUME NEW p \in Process, StoreLabel(p) PROVE TypeOK'
    <2>1. k[p] \in Wire /\ RoundOf(p) \in Round /\ p[1] \in Machine
      OBVIOUS
    <2>2. Words(RoundOf(p), k[p], IsGenerator(p)) \in [lo : Word, hi : Word]
      BY <2>1, WordsType
    <2>3. labels' \in [Machine -> [Round -> [Wire -> [lo : Word, hi : Word]]]]
      BY <1>3, <2>1, <2>2 DEF StoreLabel
    <2>4. k' \in [Process -> Wire] /\ pc' \in [Process -> Running \cup Ended]
      <3>1. CASE k[p] < Wires
        <4>1. k' = [k EXCEPT ![p] = k[p] + 1] /\ pc' = pc
          BY <1>3, <3>1 DEF StoreLabel
        <4>2. k[p] + 1 \in Wire
          BY <2>1, <3>1 DEF Wire
        <4>3. QED
          BY <4>1, <4>2
      <3>2. CASE ~(k[p] < Wires)
        <4>1. 1 \in Wire /\ Stored(p) \in Running \cup {"exited"}
          BY DEF Wire, Stored
        <4>2. /\ k' = [k EXCEPT ![p] = 1]
              /\ pc' = [pc EXCEPT ![p] = IF IsGenerator(p) THEN Stored(p) ELSE "store_bools"]
          BY <1>3, <3>2 DEF StoreLabel
        <4>3. k' \in [Process -> Wire]
          BY <4>1, <4>2
        <4>4. pc' \in [Process -> Running \cup Ended]
          BY <4>1, <4>2
        <4>5. QED
          BY <4>3, <4>4
      <3>3. QED
        BY <3>1, <3>2
    <2>5. QED
      BY <1>3, <2>3, <2>4 DEF StoreLabel
  <1>4. ASSUME NEW p \in Process, StoreBool(p) PROVE TypeOK'
    <2>1. k[p] \in Wire /\ RoundOf(p) \in Round /\ p[1] \in Machine
      OBVIOUS
    <2>2. v[RoundOf(p)][k[p]] \in {0, 1}
      BY <2>1 DEF Bits
    <2>3. bools' \in [Machine -> [Round -> Bits]]
      BY <1>4, <2>1, <2>2 DEF StoreBool, Bits
    <2>4. k' \in [Process -> Wire] /\ pc' \in [Process -> Running \cup Ended]
      <3>1. CASE k[p] < Wires
        <4>1. k' = [k EXCEPT ![p] = k[p] + 1] /\ pc' = pc
          BY <1>4, <3>1 DEF StoreBool
        <4>2. k[p] + 1 \in Wire
          BY <2>1, <3>1 DEF Wire
        <4>3. QED
          BY <4>1, <4>2
      <3>2. CASE ~(k[p] < Wires)
        <4>1. Stored(p) \in Running \cup {"exited"}
          BY DEF Stored
        <4>2. k' = k /\ pc' = [pc EXCEPT ![p] = Stored(p)]
          BY <1>4, <3>2 DEF StoreBool
        <4>3. QED
          BY <4>1, <4>2
      <3>3. QED
        BY <3>1, <3>2
    <2>5. QED
      BY <1>4, <2>3, <2>4 DEF StoreBool
  <1>5. ASSUME NEW m \in Machine, Wait(m) PROVE TypeOK'
    BY <1>5 DEF Wait
  <1>6. ASSUME NEW m \in Machine, Apply(m) PROVE TypeOK'
    <2>1. Hashed(m) \in [Wire -> Word] \X [Wire -> Word]
      BY HashedType
    <2>2. QED
      BY <1>6, <2>1 DEF Apply
  <1>7. CASE EqualityCheck
    BY <1>7 DEF EqualityCheck
  <1>8. CASE UNCHANGED vars
    BY <1>8 DEF vars
  <1>9. QED
    BY <1>1, <1>2, <1>3, <1>4, <1>5, <1>6, <1>7, <1>8 DEF Next, Step
-----------------------------------------------------------------------------
\* Steps at which process p stores nothing.
Quiet(p) ==
    /\ v' = v /\ k'[p] = k[p]
    /\ labels'[p[1]][RoundOf(p)] = labels[p[1]][RoundOf(p)]
    /\ bools'[p[1]][RoundOf(p)] = bools[p[1]][RoundOf(p)]
    /\ \/ pc'[p] = pc[p] \/ pc'[p] \in {"killed", "failed"}
       \/ pc[p] = "setup" /\ pc'[p] = "reduce"
       \/ pc[p] = "reduce" /\ pc'[p] = "store"
       \/ pc[p] = "wait" /\ pc'[p] = "apply"
       \/ pc[p] = "apply" /\ pc'[p] = "check"
       \/ pc[p] = "check" /\ pc'[p] = "exited"

\* What is known of the memory of p is still known after such a step.
LEMMA QuietKeeps ==
    ASSUME TypeOK, NEW p \in Process, Quiet(p), StoredBy(p), MemoryOf(p)
    PROVE  StoredBy(p)' /\ MemoryOf(p)'
  <1>1. \A i, g : Words(RoundOf(p), i, g)' = Words(RoundOf(p), i, g)
    BY DEF Quiet, Words, Label
  <1>2. MemoryOf(p)'
    BY DEF MemoryOf, Quiet, Words, Label
  <1>3. ASSUME pc'[p] \notin {"killed", "failed"} PROVE StoredBy(p)'
    <2>1. pc[p] \notin {"killed", "failed"}
      BY <1>3 DEF Quiet
    <2>2. CASE pc[p] = "reduce" /\ pc'[p] = "store"
      <3>1. k[p] = 1 /\ Labelled(p)' = 0 /\ Kept(p)' = 0
        BY <2>2 DEF StoredBy, Labelled, Kept, Quiet
      <3>2. QED
        BY <2>2, <3>1 DEF StoredBy
    <2>3. CASE ~(pc[p] = "reduce" /\ pc'[p] = "store")
      <3>1. Labelled(p)' = Labelled(p) /\ Kept(p)' = Kept(p)
        BY <1>3, <2>3 DEF Labelled, Kept, Quiet
      <3>2. pc'[p] \in {"setup", "reduce"} => pc[p] \in {"setup", "reduce"}
        BY DEF Quiet
      <3>3. QED
        BY <1>1, <2>1, <3>1, <3>2 DEF StoredBy, Quiet
    <2>4. QED
      BY <2>2, <2>3
  <1>4. QED
    BY <1>2, <1>3 DEF StoredBy

\* Storing the labels of a wire.
LEMMA StoreLabelKeeps ==
    ASSUME TypeOK, NEW p \in Process, StoreLabel(p), StoredBy(p), MemoryOf(p)
    PROVE  StoredBy(p)' /\ MemoryOf(p)'
  <1> DEFINE m == p[1]
             r == RoundOf(p)
             w(i) == Words(r, i, IsGenerator(p))
  <1>1. m \in Machine /\ r \in Round /\ k[p] \in Wire
    BY Processes DEF TypeOK
  <1>2. \A i, g : Words(r, i, g)' = Words(r, i, g)
    BY DEF StoreLabel, Words, Label
  <1>3. \A i \in Wire : labels'[m][r][i] = IF i = k[p] THEN w(i) ELSE labels[m][r][i]
    BY <1>1 DEF StoreLabel, TypeOK
  <1>4. bools' = bools /\ v' = v /\ pc[p] = "store"
    BY DEF StoreLabel
  <1>5. \A i \in 1..k[p] - 1 : labels[m][r][i] = w(i)
    BY <1>4 DEF StoredBy, Labelled
  <1>6. \A i \in 1..k[p] : labels'[m][r][i] = w(i)
    BY <1>1, <1>3, <1>5, EqAssumption DEF Wire
  <1>7. MemoryOf(p)'
    <2>1. \A i \in Wire : labels'[m][r][i] \in {[lo |-> Zero, hi |-> Zero], w(i)}
      BY <1>3 DEF MemoryOf
    <2>2. ASSUME NEW c \in Wire, bools[m][r][c] # Fresh[c], NEW i \in Wire
          PROVE  labels'[m][r][i] = Words(r, i, FALSE)
      <3>1. ~IsGenerator(p)
        BY <2>2 DEF MemoryOf
      <3>2. w(i) = Words(r, i, FALSE)
        BY <3>1 DEF Words
      <3>3. labels[m][r][i] = Words(r, i, FALSE)
        BY <2>2 DEF MemoryOf
      <3>4. QED
        BY <1>3, <3>2, <3>3
    <2>3. QED
      BY <1>2, <1>4, <2>1, <2>2 DEF MemoryOf, Words, Label
  <1>8. StoredBy(p)'
    <2>1. CASE k[p] < Wires
      <3>1. k'[p] = k[p] + 1 /\ pc'[p] = "store"
        BY <1>1, <1>4, <2>1 DEF StoreLabel, TypeOK
      <3>2. Labelled(p)' = k[p] /\ Kept(p)' = 0
        BY <1>1, <3>1 DEF Labelled, Kept, Wire
      <3>3. QED
        BY <1>2, <1>6, <3>1, <3>2 DEF StoredBy
    <2>2. CASE ~(k[p] < Wires)
      <3>1. k[p] = Wires
        BY <1>1, <2>2, EqAssumption DEF Wire
      <3>2. k'[p] = 1 /\ pc'[p] = IF IsGenerator(p) THEN Stored(p) ELSE "store_bools"
        BY <1>1, <2>2 DEF StoreLabel, TypeOK
      <3>3. Stored(p) \in {"wait", "exited"}
        BY DEF Stored
      <3>4. Labelled(p)' = Wires /\ (~IsGenerator(p) => Kept(p)' = 0)
        BY <3>2, <3>3 DEF Labelled, Kept
      <3>5. pc'[p] \notin {"setup", "reduce"} /\ (pc'[p] = "store_bools" => ~IsGenerator(p))
        BY <3>2, <3>3
      <3>6. QED
        BY <1>2, <1>6, <3>1, <3>4, <3>5 DEF StoredBy
    <2>3. QED
      BY <2>1, <2>2
  <1>9. QED
    BY <1>7, <1>8

\* Storing the bit of a wire.
LEMMA StoreBoolKeeps ==
    ASSUME TypeOK, NEW p \in Process, StoreBool(p), StoredBy(p), MemoryOf(p)
    PROVE  StoredBy(p)' /\ MemoryOf(p)'
  <1> DEFINE m == p[1]
             r == RoundOf(p)
  <1>1. m \in Machine /\ r \in Round /\ k[p] \in Wire
    BY Processes DEF TypeOK
  <1>2. \A i, g : Words(r, i, g)' = Words(r, i, g)
    BY DEF StoreBool, Words, Label
  <1>3. \A i \in Wire : bools'[m][r][i] = IF i = k[p] THEN v[r][i] ELSE bools[m][r][i]
    BY <1>1 DEF StoreBool, TypeOK, Bits
  <1>4. labels' = labels /\ v' = v /\ pc[p] = "store_bools" /\ ~IsGenerator(p)
    BY DEF StoreBool, StoredBy
  <1>5. /\ \A i \in Wire : labels[m][r][i] = Words(r, i, FALSE)
        /\ \A i \in 1..k[p] - 1 : bools[m][r][i] = v[r][i]
    BY <1>4 DEF StoredBy, Labelled, Kept, Wire, Words
  <1>6. \A i \in 1..k[p] : bools'[m][r][i] = v[r][i]
    BY <1>1, <1>3, <1>5, EqAssumption DEF Wire
  <1>7. MemoryOf(p)'
    <2>1. \A i \in Wire : bools'[m][r][i] \in {Fresh[i], v[r][i]}
      BY <1>3 DEF MemoryOf
    <2>2. \A i \in Wire : labels'[m][r][i] = Words(r, i, FALSE) /\ Words(r, i, IsGenerator(p)) = Words(r, i, FALSE)
      BY <1>4, <1>5 DEF Words
    <2>3. QED
      BY <1>2, <1>4, <2>1, <2>2 DEF MemoryOf, Words, Label
  <1>8. StoredBy(p)'
    <2>1. CASE k[p] < Wires
      <3>1. k'[p] = k[p] + 1 /\ pc'[p] = "store_bools"
        BY <1>1, <1>4, <2>1 DEF StoreBool, TypeOK
      <3>2. Labelled(p)' = Labelled(p) /\ Kept(p)' = k[p]
        BY <1>1, <1>4, <3>1 DEF Labelled, Kept, Wire
      <3>3. QED
        BY <1>2, <1>4, <1>6, <3>1, <3>2 DEF StoredBy
    <2>2. CASE ~(k[p] < Wires)
      <3>1. k[p] = Wires
        BY <1>1, <2>2, EqAssumption DEF Wire
      <3>2. pc'[p] = Stored(p) /\ Stored(p) \in {"wait", "exited"}
        BY <1>1, <2>2 DEF StoreBool, TypeOK, Stored
      <3>3. Labelled(p)' = Labelled(p) /\ Kept(p)' = Wires
        BY <1>4, <3>2 DEF Labelled, Kept
      <3>4. QED
        BY <1>2, <1>4, <1>6, <3>1, <3>2, <3>3 DEF StoredBy
    <2>3. QED
      BY <2>1, <2>2
  <1>9. QED
    BY <1>7, <1>8
-----------------------------------------------------------------------------
\* Every step keeps what is known of the memory of every process.
LEMMA MemoryStep ==
    ASSUME TypeOK, StoredUpTo, OnlyStored, [Next]_vars, NEW p \in Process
    PROVE  StoredBy(p)' /\ MemoryOf(p)'
  <1>0. StoredBy(p) /\ MemoryOf(p)
    BY DEF StoredUpTo, OnlyStored
  <1>1. Quiet(p) => StoredBy(p)' /\ MemoryOf(p)'
    BY <1>0, QuietKeeps
  <1>2. pc \in [Process -> Running \cup Ended] /\ k \in [Process -> Wire]
    BY DEF TypeOK
  <1>3. ASSUME NEW r \in Round, Setup(r) PROVE Quiet(p)
    <2>1. Generator(r) \in Process /\ Peer(Generator(r)) \in Process
      BY Processes DEF Generator, Machine
    <2>2. QED
      BY <1>2, <1>3, <2>1 DEF Setup, Quiet
  <1>4. ASSUME NEW q \in Process, RevealOut(q) \/ RevealIn(q) PROVE Quiet(p)
    BY <1>2, <1>4 DEF RevealOut, RevealIn, Quiet
  <1>5. ASSUME NEW q \in Process, PeerLost(q) \/ Kill(q) PROVE Quiet(p)
    BY <1>2, <1>5 DEF PeerLost, Kill, Quiet
  <1>6. ASSUME NEW q \in Process, StoreLabel(q), q # p PROVE Quiet(p)
    <2>1. p[1] \in Machine /\ RoundOf(p) \in Round /\ (p[1] # q[1] \/ RoundOf(p) # RoundOf(q))
      BY <1>6, Processes
    <2>2. labels'[p[1]][RoundOf(p)] = labels[p[1]][RoundOf(p)]
      BY <1>6, <2>1 DEF StoreLabel, TypeOK
    <2>3. pc'[p] = pc[p] /\ k'[p] = k[p]
      BY <1>2, <1>6 DEF StoreLabel
    <2>4. QED
      BY <1>6, <2>2, <2>3 DEF StoreLabel, Quiet
  <1>7. ASSUME NEW q \in Process, StoreBool(q), q # p PROVE Quiet(p)
    <2>1. p[1] \in Machine /\ RoundOf(p) \in Round /\ (p[1] # q[1] \/ RoundOf(p) # RoundOf(q))
      BY <1>7, Processes
    <2>2. bools'[p[1]][RoundOf(p)] = bools[p[1]][RoundOf(p)]
      BY <1>7, <2>1 DEF StoreBool, TypeOK
    <2>3. pc'[p] = pc[p] /\ k'[p] = k[p]
      BY <1>2, <1>7 DEF StoreBool
    <2>4. QED
      BY <1>7, <2>2, <2>3 DEF StoreBool, Quiet
  <1>8. ASSUME NEW m \in Machine, Wait(m) \/ Apply(m) PROVE Quiet(p)
    BY <1>2, <1>8, Processes DEF Wait, Apply, Quiet
  <1>9. ASSUME EqualityCheck PROVE Quiet(p)
    <2>1. p[2] = "parent" => pc[p] = "check"
      BY <1>9, Processes DEF EqualityCheck
    <2>2. QED
      BY <1>9, <2>1 DEF EqualityCheck, Quiet
  <1>10. ASSUME UNCHANGED vars PROVE Quiet(p)
    BY <1>10 DEF vars, Quiet
  <1>11. StoreLabel(p) => StoredBy(p)' /\ MemoryOf(p)'
    BY <1>0, StoreLabelKeeps
  <1>12. StoreBool(p) => StoredBy(p)' /\ MemoryOf(p)'
    BY <1>0, StoreBoolKeeps
  <1>13. QED
    BY <1>1, <1>3, <1>4, <1>5, <1>6, <1>7, <1>8, <1>9, <1>10, <1>11, <1>12 DEF Next, Step

\* Without a kill, no connection breaks.
LEMMA LostStep ==
    ASSUME TypeOK, Lost, [Next]_vars PROVE Lost'
  <1> SUFFICES ASSUME NEW p \in Process, pc'[p] \in {"killed", "failed"} PROVE killed' # {}
    BY DEF Lost
  <1>1. killed \subseteq killed'
    BY DEF Next, Step, vars, Setup, RevealOut, RevealIn, PeerLost, StoreLabel, StoreBool, Wait, Apply, EqualityCheck, Kill
  <1>2. CASE pc[p] \in {"killed", "failed"}
    BY <1>1, <1>2 DEF Lost
  <1>3. ASSUME NEW q \in Process, PeerLost(q) PROVE killed' # {}
    BY <1>1, <1>3, Processes DEF PeerLost, Lost
  <1>4. ASSUME NEW q \in Process, Kill(q) PROVE killed' # {}
    BY <1>4 DEF Kill
  <1>5. ASSUME pc[p] \notin {"killed", "failed"}, \A q \in Process : ~PeerLost(q) /\ ~Kill(q) PROVE FALSE
    <2> USE <1>5 DEF TypeOK, Running, Ended
    <2>1. ASSUME NEW r \in Round, Setup(r) PROVE FALSE
      BY <2>1, Processes DEF Setup, Generator, Machine
    <2>2. ASSUME NEW q \in Process, RevealOut(q) \/ RevealIn(q) PROVE FALSE
      BY <2>2 DEF RevealOut, RevealIn
    <2>3. ASSUME NEW q \in Process, StoreLabel(q) PROVE FALSE
      BY <2>3 DEF StoreLabel, Stored
    <2>4. ASSUME NEW q \in Process, StoreBool(q) PROVE FALSE
      BY <2>4 DEF StoreBool, Stored
    <2>5. ASSUME NEW m \in Machine, Wait(m) \/ Apply(m) PROVE FALSE
      BY <2>5, Processes DEF Wait, Apply
    <2>6. ASSUME EqualityCheck PROVE FALSE
      BY <2>6 DEF EqualityCheck
    <2>7. ASSUME UNCHANGED vars PROVE FALSE
      BY <2>7 DEF vars
    <2>8. QED
      BY <2>1, <2>2, <2>3, <2>4, <2>5, <2>6, <2>7 DEF Next, Step
  <1>6. QED
    BY <1>2, <1>3, <1>4, <1>5

\* Once a parent has waited for its child, nothing on its machine is written.
LEMMA Frozen ==
    ASSUME TypeOK, ChildFirst, [Next]_vars, NEW m \in Machine,
           pc[Parent(m)] \in {"apply", "check", "exited"}
    PROVE  labels'[m] = labels[m] /\ bools'[m] = bools[m] /\ pc'[Child(m)] \in Ended
  <1> USE DEF Ended
  <1>0. pc[Child(m)] \in Ended
    BY DEF ChildFirst
  <1>1. \A q \in Process : pc[q] \in {"store", "store_bools"} => q[1] # m /\ q # Child(m)
    BY <1>0, Processes
  <1>2. pc \in [Process -> Running \cup Ended] /\ Child(m) \in Process
    BY Processes DEF TypeOK
  <1>3. ASSUME NEW r \in Round, Setup(r) PROVE pc'[Child(m)] = pc[Child(m)]
    BY <1>0, <1>2, <1>3, Processes DEF Setup
  <1>4. ASSUME NEW q \in Process, RevealOut(q) \/ RevealIn(q) \/ PeerLost(q) \/ Kill(q)
        PROVE  pc'[Child(m)] = pc[Child(m)]
    BY <1>0, <1>2, <1>4 DEF RevealOut, RevealIn, PeerLost, Kill
  <1>5. ASSUME NEW q \in Process, StoreLabel(q)
        PROVE  pc'[Child(m)] = pc[Child(m)] /\ labels'[m] = labels[m]
    BY <1>1, <1>2, <1>5, Processes DEF StoreLabel, TypeOK
  <1>6. ASSUME NEW q \in Process, StoreBool(q)
        PROVE  pc'[Child(m)] = pc[Child(m)] /\ bools'[m] = bools[m]
    BY <1>1, <1>2, <1>6, Processes DEF StoreBool, TypeOK
  <1>7. ASSUME NEW c \in Machine, Wait(c) \/ Apply(c) PROVE pc'[Child(m)] = pc[Child(m)]
    BY <1>2, <1>7, Processes DEF Wait, Apply
  <1>8. ASSUME EqualityCheck PROVE pc'[Child(m)] = pc[Child(m)]
    BY <1>2, <1>8, Processes DEF EqualityCheck, Child
  <1>9. pc'[Child(m)] = pc[Child(m)]
    BY <1>3, <1>4, <1>5, <1>6, <1>7, <1>8 DEF Next, Step, vars
  <1>10. labels'[m] = labels[m]
    BY <1>5 DEF Next, Step, vars, Setup, RevealOut, RevealIn, PeerLost, Kill, StoreBool, Wait, Apply, EqualityCheck
  <1>11. bools'[m] = bools[m]
    BY <1>6 DEF Next, Step, vars, Setup, RevealOut, RevealIn, PeerLost, Kill, StoreLabel, Wait, Apply, EqualityCheck
  <1>12. QED
    BY <1>0, <1>9, <1>10, <1>11

\* How a parent gets to where it waits for the check, and what it does there.
LEMMA ParentMoves ==
    ASSUME TypeOK, [Next]_vars, NEW m \in Machine
    PROVE  /\ pc'[Parent(m)] = "apply" => pc[Parent(m)] = "apply" \/ Wait(m)
           /\ pc'[Parent(m)] = "check" =>
                  (pc[Parent(m)] = "check" /\ digest'[m] = digest[m]) \/ Apply(m)
           /\ pc'[Parent(m)] = "exited" =>
                  /\ digest'[m] = digest[m]
                  /\ pc[Parent(m)] = "exited" \/ (pc[Parent(m)] = "check" /\ EqualityCheck)
           /\ pc[Parent(m)] = "exited" => pc'[Parent(m)] = "exited"
  <1>1. pc \in [Process -> Running \cup Ended] /\ Parent(m) \in Process /\ digest \in [Machine -> {NoDigest} \cup ([Wire -> Word] \X [Wire -> Word])]
    BY Processes DEF TypeOK
  <1>2. Parent(m)[2] = "parent"
    BY DEF Parent
  <1> USE DEF Ended
  <1>3. ASSUME NEW r \in Round, Setup(r)
        PROVE  digest' = digest /\ (pc'[Parent(m)] = pc[Parent(m)] \/ (pc[Parent(m)] = "setup" /\ pc'[Parent(m)] = "reduce"))
    BY <1>1, <1>3 DEF Setup
  <1>4. ASSUME NEW q \in Process, RevealOut(q) \/ RevealIn(q)
        PROVE  digest' = digest /\ (pc'[Parent(m)] = pc[Parent(m)] \/ (pc[Parent(m)] = "reduce" /\ pc'[Parent(m)] = "store"))
    BY <1>1, <1>4 DEF RevealOut, RevealIn
  <1>5. ASSUME NEW q \in Process, PeerLost(q) \/ Kill(q)
        PROVE  digest' = digest /\ (pc'[Parent(m)] = pc[Parent(m)] \/ (pc[Parent(m)] # "exited" /\ pc'[Parent(m)] \in {"failed", "killed"}))
    BY <1>1, <1>5 DEF PeerLost, Kill
  <1>6. ASSUME NEW q \in Process, StoreLabel(q)
        PROVE  digest' = digest /\ (pc'[Parent(m)] = pc[Parent(m)] \/ (pc[Parent(m)] = "store" /\ pc'[Parent(m)] \in {"wait", "store_bools"}))
    BY <1>1, <1>2, <1>6 DEF StoreLabel, Stored
  <1>7. ASSUME NEW q \in Process, StoreBool(q)
        PROVE  digest' = digest /\ (pc'[Parent(m)] = pc[Parent(m)] \/ (pc[Parent(m)] = "store_bools" /\ pc'[Parent(m)] = "wait"))
    BY <1>1, <1>2, <1>7 DEF StoreBool, Stored
  <1>8. ASSUME NEW c \in Machine, Wait(c), ~Wait(m) PROVE digest' = digest /\ pc'[Parent(m)] = pc[Parent(m)]
    BY <1>1, <1>8, Processes DEF Wait
  <1>9. ASSUME NEW c \in Machine, Apply(c), ~Apply(m) PROVE digest'[m] = digest[m] /\ pc'[Parent(m)] = pc[Parent(m)]
    BY <1>1, <1>9, Processes DEF Apply
  <1>10. ASSUME Wait(m) PROVE pc[Parent(m)] = "wait" /\ pc'[Parent(m)] = "apply"
    BY <1>1, <1>10 DEF Wait
  <1>11. ASSUME Apply(m) PROVE pc[Parent(m)] = "apply" /\ pc'[Parent(m)] = "check"
    BY <1>1, <1>11 DEF Apply
  <1>12. ASSUME EqualityCheck PROVE digest' = digest /\ pc[Parent(m)] = "check" /\ pc'[Parent(m)] = "exited"
    BY <1>1, <1>2, <1>12 DEF EqualityCheck
  <1>13. ASSUME UNCHANGED vars PROVE digest' = digest /\ pc' = pc
    BY <1>13 DEF vars
  <1>14. QED
    BY <1>3, <1>4, <1>5, <1>6, <1>7, <1>8, <1>9, <1>10, <1>11, <1>12, <1>13 DEF Next, Step

\* The result appears with the check and stays.
LEMMA ResultMoves ==
    ASSUME TypeOK, [Next]_vars
    PROVE  result' = result \/ EqualityCheck
  BY DEF Next, Step, vars, Setup, RevealOut, RevealIn, PeerLost, Kill, StoreLabel, StoreBool, Wait, Apply

\* Parents go on after their children, with what is in memory.
LEMMA ChildFirstStep ==
    ASSUME TypeOK, ChildFirst, [Next]_vars PROVE ChildFirst'
  <1> SUFFICES ASSUME NEW m \in Machine
      PROVE /\ pc'[Parent(m)] \in {"apply", "check", "exited"} => pc'[Child(m)] \in Ended
            /\ pc'[Parent(m)] \in {"check", "exited"} => digest'[m] = Hashed(m)'
            /\ result'[m] # "none" =>
                  /\ \A c \in Machine : pc'[Parent(c)] = "exited"
                  /\ result'[m] = IF digest'["A"] = digest'["B"] THEN "equal" ELSE "different"
    BY DEF ChildFirst, Parent, Child
  <1>0. TypeOK' /\ "A" \in Machine /\ "B" \in Machine
    BY TypeStep DEF Machine
  <1>1. ASSUME pc[Parent(m)] \in {"apply", "check", "exited"}
        PROVE  pc'[Child(m)] \in Ended /\ Hashed(m)' = Hashed(m)
    <2>1. labels'[m] = labels[m] /\ bools'[m] = bools[m] /\ pc'[Child(m)] \in Ended
      BY <1>1, Frozen
    <2>2. QED
      BY <2>1 DEF Hashed, Held, apply_labels
  <1>2. ASSUME Wait(m) PROVE pc'[Child(m)] \in Ended
    BY <1>2, Processes DEF Wait, TypeOK
  <1>3. pc'[Parent(m)] \in {"apply", "check", "exited"} => pc'[Child(m)] \in Ended
    BY <1>1, <1>2, ParentMoves DEF Apply
  <1>4. ASSUME pc'[Parent(m)] \in {"check", "exited"} PROVE digest'[m] = Hashed(m)'
    <2>1. CASE Apply(m)
      BY <1>1, <2>1 DEF Apply, TypeOK
    <2>2. CASE ~Apply(m)
      <3>1. pc[Parent(m)] \in {"check", "exited"} /\ digest'[m] = digest[m]
        BY <1>4, <2>2, ParentMoves
      <3>2. QED
        BY <1>1, <3>1 DEF ChildFirst
    <2>3. QED
      BY <2>1, <2>2
  <1>5. ASSUME result'[m] # "none"
        PROVE  /\ \A c \in Machine : pc'[Parent(c)] = "exited"
               /\ result'[m] = IF digest'["A"] = digest'["B"] THEN "equal" ELSE "different"
    <2>1. CASE EqualityCheck
      <3>1. \A c \in Machine : pc'[Parent(c)] = "exited"
        BY <2>1, Processes DEF EqualityCheck, Parent
      <3>2. QED
        BY <2>1, <3>1 DEF EqualityCheck
    <2>2. CASE result' = result
      <3>1. /\ \A c \in Machine : pc[Parent(c)] = "exited"
            /\ result[m] = IF digest["A"] = digest["B"] THEN "equal" ELSE "different"
        BY <1>5, <2>2 DEF ChildFirst
      <3>2. \A c \in Machine : pc'[Parent(c)] = "exited" /\ digest'[c] = digest[c]
        BY <3>1, ParentMoves
      <3>3. QED
        BY <1>0, <2>2, <3>1, <3>2
    <2>3. QED
      BY <2>1, <2>2, ResultMoves
  <1>6. QED
    BY <1>3, <1>4, <1>5
-----------------------------------------------------------------------------
\* Nothing is stored at first, and nobody is lost.
LEMMA InitInv == Init => IInv
  <1> SUFFICES ASSUME Init PROVE IInv
    OBVIOUS
  <1>1. TypeOK
    BY TypeInit
  <1>2. ASSUME NEW p \in Process PROVE StoredBy(p) /\ MemoryOf(p)
    <2>1. Labelled(p) = 0 /\ Kept(p) = 0 /\ pc[p] = "setup" /\ k[p] = 1
      BY <1>2 DEF Init, Labelled, Kept
    <2>2. /\ \A i \in Wire : labels[p[1]][RoundOf(p)][i] = [lo |-> Zero, hi |-> Zero]
          /\ \A i \in Wire : bools[p[1]][RoundOf(p)][i] = Fresh[i]
      BY <1>2, Processes DEF Init
    <2>3. \A i \in 1..0 : FALSE
      OBVIOUS
    <2>4. StoredBy(p)
      BY <2>1, <2>3 DEF StoredBy
    <2>5. MemoryOf(p)
      <3>1. \A i \in Wire : labels[p[1]][RoundOf(p)][i] \in
                {[lo |-> Zero, hi |-> Zero], Words(RoundOf(p), i, IsGenerator(p))}
        BY <2>2
      <3>2. \A i \in Wire : bools[p[1]][RoundOf(p)][i] \in
                {Fresh[i], IF IsGenerator(p) THEN Fresh[i] ELSE v[RoundOf(p)][i]}
        BY <2>2
      <3>3. ~ \E i \in Wire : bools[p[1]][RoundOf(p)][i] # Fresh[i]
        BY <2>2
      <3>4. QED
        BY <3>1, <3>2, <3>3 DEF MemoryOf
    <2>6. QED
      BY <2>4, <2>5
  <1>3. ChildFirst /\ Lost
    BY Processes DEF Init, ChildFirst, Lost
  <1>4. QED
    BY <1>1, <1>2, <1>3 DEF IInv, StoredUpTo, OnlyStored

\* Every step keeps the invariant.
LEMMA StepInv == IInv /\ [Next]_vars => IInv'
  <1> SUFFICES ASSUME IInv, [Next]_vars PROVE IInv'
    OBVIOUS
  <1>1. TypeOK /\ StoredUpTo /\ OnlyStored /\ ChildFirst /\ Lost
    BY DEF IInv
  <1>2. TypeOK'
    BY <1>1, TypeStep
  <1>3. StoredUpTo' /\ OnlyStored'
    BY <1>1, MemoryStep DEF StoredUpTo, OnlyStored
  <1>4. ChildFirst'
    BY <1>1, ChildFirstStep
  <1>5. Lost'
    BY <1>1, LostStep
  <1>6. QED
    BY <1>2, <1>3, <1>4, <1>5 DEF IInv

\* The invariant holds for every length of the list and any number of kills:
\* the parents hash what the four processes stored (reducer_eq.cpp:131-157,
\* 311-370).
THEOREM Inductive == SafetySpec => []IInv
  BY InitInv, StepInv, PTL DEF SafetySpec
-----------------------------------------------------------------------------
\* Labels are equal only for the same bit of the same wire and round, and no
\* label is what fresh memory holds.
LEMMA LabelFacts ==
    /\ \A r \in Round : \A i, b, c : Label(r, i, b) = Label(r, i, c) => b = c
    /\ \A r \in Round : \A i, b : Label(r, i, b) # Zero
  <1>1. ASSUME NEW r, NEW i, NEW b, NEW c, Label(r, i, b) = Label(r, i, c) PROVE b = c
    <2>1. Label(r, i, b)[3] = b /\ Label(r, i, c)[3] = c
      BY DEF Label
    <2>2. QED
      BY <1>1, <2>1
  <1>2. ASSUME NEW r \in Round, NEW i, NEW b PROVE Label(r, i, b) # Zero
    <2>1. Label(r, i, b)[1] = r /\ Zero[1] = 0
      BY DEF Label, Zero
    <2>2. QED
      BY <2>1 DEF Round
  <1>3. QED
    BY <1>1, <1>2

\* What a process has stored when it is through.
LEMMA StoredAll ==
    ASSUME IInv, NEW p \in Process, NEW m, NEW r, m = p[1], r = RoundOf(p),
           pc[p] = "exited", NEW i \in Wire
    PROVE  /\ IsGenerator(p) => labels[m][r][i].lo = Label(r, i, 0) /\ labels[m][r][i].hi = Label(r, i, 1)
           /\ ~IsGenerator(p) => labels[m][r][i].lo = Label(r, i, v[r][i]) /\ bools[m][r][i] = v[r][i]
  <1>1. StoredBy(p)
    BY DEF IInv, StoredUpTo
  <1>2. Labelled(p) = Wires /\ Kept(p) = Wires
    BY DEF Labelled, Kept
  <1>3. labels[m][r][i] = Words(r, i, IsGenerator(p)) /\ (~IsGenerator(p) => bools[m][r][i] = v[r][i])
    BY <1>1, <1>2 DEF StoredBy, Wire
  <1>4. QED
    BY <1>3 DEF Words

\* What there is of it otherwise.
LEMMA StoredSome ==
    ASSUME IInv, NEW p \in Process, NEW m, NEW r, m = p[1], r = RoundOf(p), NEW i \in Wire
    PROVE  /\ IsGenerator(p) =>
                  labels[m][r][i].lo \in {Zero, Label(r, i, 0)} /\ labels[m][r][i].hi \in {Zero, Label(r, i, 1)}
           /\ ~IsGenerator(p) =>
                  /\ labels[m][r][i].lo \in {Zero, Label(r, i, v[r][i])}
                  /\ bools[m][r][i] \in {Fresh[i], v[r][i]}
           /\ bools[m][r][i] # Fresh[i] => \A j \in Wire : labels[m][r][j].lo = Label(r, j, v[r][j])
  <1>1. MemoryOf(p)
    BY DEF IInv, OnlyStored
  <1>2. /\ labels[m][r][i] \in {[lo |-> Zero, hi |-> Zero], Words(r, i, IsGenerator(p))}
        /\ ~IsGenerator(p) => bools[m][r][i] \in {Fresh[i], v[r][i]}
        /\ bools[m][r][i] # Fresh[i] => \A j \in Wire : labels[m][r][j] = Words(r, j, FALSE)
    BY <1>1 DEF MemoryOf
  <1>3. ASSUME NEW j PROVE Words(r, j, FALSE).lo = Label(r, j, v[r][j])
    BY DEF Words
  <1>4. CASE IsGenerator(p)
    <2>1. labels[m][r][i] \in {[lo |-> Zero, hi |-> Zero], [lo |-> Label(r, i, 0), hi |-> Label(r, i, 1)]}
      BY <1>2, <1>4 DEF Words
    <2>2. labels[m][r][i].lo \in {Zero, Label(r, i, 0)} /\ labels[m][r][i].hi \in {Zero, Label(r, i, 1)}
      BY <2>1
    <2>3. QED
      BY <1>2, <1>3, <1>4, <2>2
  <1>5. CASE ~IsGenerator(p)
    <2>1. labels[m][r][i] \in {[lo |-> Zero, hi |-> Zero], [lo |-> Label(r, i, v[r][i]), hi |-> Zero]}
      BY <1>2, <1>5 DEF Words
    <2>2. labels[m][r][i].lo \in {Zero, Label(r, i, v[r][i])}
      BY <2>1
    <2>3. QED
      BY <1>2, <1>3, <1>5, <2>2
  <1>6. QED
    BY <1>4, <1>5

\* When the parents have checked, they have stored all of the first round: the
\* generator both labels of every wire, the evaluator its label and its bit.
LEMMA ParentsStored ==
    ASSUME IInv, pc[Parent("A")] = "exited", pc[Parent("B")] = "exited", NEW i \in Wire
    PROVE  /\ labels["A"][1][i].lo = Label(1, i, 0) /\ labels["A"][1][i].hi = Label(1, i, 1)
           /\ labels["B"][1][i].lo = Label(1, i, v[1][i])
           /\ bools["B"][1][i] = v[1][i]
  <1>1. /\ Parent("A") \in Process /\ Parent("A")[1] = "A" /\ RoundOf(Parent("A")) = 1
        /\ Parent("B") \in Process /\ Parent("B")[1] = "B" /\ RoundOf(Parent("B")) = 1
    BY Processes DEF Machine
  <1>2. QED
    BY <1>1, StoredAll, Generators

\* A child that has returned has stored all of the second round.
LEMMA ChildrenStored ==
    ASSUME IInv, NEW i \in Wire
    PROVE  /\ pc[Child("A")] = "exited" =>
                  labels["A"][2][i].lo = Label(2, i, v[2][i]) /\ bools["A"][2][i] = v[2][i]
           /\ pc[Child("B")] = "exited" =>
                  labels["B"][2][i].lo = Label(2, i, 0) /\ labels["B"][2][i].hi = Label(2, i, 1)
  <1>1. /\ Child("A") \in Process /\ Child("A")[1] = "A" /\ RoundOf(Child("A")) = 2
        /\ Child("B") \in Process /\ Child("B")[1] = "B" /\ RoundOf(Child("B")) = 2
    BY Processes DEF Machine
  <1>2. QED
    BY <1>1, StoredAll, Generators

\* A lost child left words and bits of its own round, or nothing.
LEMMA ChildrenLeft ==
    ASSUME IInv, NEW i \in Wire
    PROVE  /\ labels["A"][2][i].lo \in {Zero, Label(2, i, v[2][i])}
           /\ bools["A"][2][i] \in {Fresh[i], v[2][i]}
           /\ bools["A"][2][i] # Fresh[i] => \A j \in Wire : labels["A"][2][j].lo = Label(2, j, v[2][j])
           /\ labels["B"][2][i].lo \in {Zero, Label(2, i, 0)}
           /\ labels["B"][2][i].hi \in {Zero, Label(2, i, 1)}
  <1>1. /\ Child("A") \in Process /\ Child("A")[1] = "A" /\ RoundOf(Child("A")) = 2
        /\ Child("B") \in Process /\ Child("B")[1] = "B" /\ RoundOf(Child("B")) = 2
    BY Processes DEF Machine
  <1>2. QED
    BY <1>1, StoredSome, Generators

\* When there is a result, it compares these words.
LEMMA Compared ==
    ASSUME IInv, NEW m \in Machine, result[m] # "none"
    PROVE  /\ pc[Parent("A")] = "exited" /\ pc[Parent("B")] = "exited"
           /\ pc[Child("A")] \in Ended /\ pc[Child("B")] \in Ended
           /\ result[m] = "equal" => digest["A"] = digest["B"]
           /\ result[m] = "different" => digest["A"] # digest["B"]
           /\ digest["A"] = <<Held(labels["A"][2]), apply_labels(labels["A"][1], bools["A"][2])>>
           /\ digest["B"] = <<apply_labels(labels["B"][2], bools["B"][1]), Held(labels["B"][1])>>
  <1>1. "A" \in Machine /\ "B" \in Machine /\ "A" # "B"
    BY DEF Machine
  <1>2. QED
    BY <1>1 DEF IInv, ChildFirst, Hashed

\* The check says "equal" only of executions that computed the same list,
\* whatever children were lost, except of the list that fresh memory reads like
\* when both were (reducer_eq.cpp:311-319).
LEMMA EqualFromInv == IInv => EqualMeansEqual
  <1> SUFFICES ASSUME IInv, NEW m \in Machine, result[m] = "equal"
      PROVE v[1] = v[2] \/ (v[1] = Fresh /\ \A c \in Machine : pc[Child(c)] \in {"killed", "failed"})
    BY DEF EqualMeansEqual
  <1>1. /\ pc[Parent("A")] = "exited" /\ pc[Parent("B")] = "exited"
        /\ pc[Child("A")] \in Ended /\ pc[Child("B")] \in Ended
    BY Compared
  <1>2. /\ Held(labels["A"][2]) = apply_labels(labels["B"][2], bools["B"][1])
        /\ apply_labels(labels["A"][1], bools["A"][2]) = Held(labels["B"][1])
    BY Compared
  <1>3. v[1] \in [Wire -> {0, 1}] /\ v[2] \in [Wire -> {0, 1}]
    BY DEF IInv, TypeOK, Round, Bits
  <1>4. ASSUME NEW i \in Wire
        PROVE  /\ labels["A"][2][i].lo = IF v[1][i] = 1 THEN labels["B"][2][i].hi ELSE labels["B"][2][i].lo
               /\ bools["A"][2][i] = v[1][i]
    <2>1. labels["A"][2][i].lo = IF bools["B"][1][i] = 1 THEN labels["B"][2][i].hi ELSE labels["B"][2][i].lo
      BY <1>2 DEF Held, apply_labels
    <2>2. (IF bools["A"][2][i] = 1 THEN labels["A"][1][i].hi ELSE labels["A"][1][i].lo) = labels["B"][1][i].lo
      BY <1>2 DEF Held, apply_labels
    <2>3. bools["A"][2][i] \in {0, 1}
      <3>1. Fresh[i] \in {0, 1}
        BY EqAssumption DEF Wire
      <3>2. QED
        BY <1>3, <3>1, ChildrenLeft
    <2>4. /\ labels["A"][1][i].lo = Label(1, i, 0) /\ labels["A"][1][i].hi = Label(1, i, 1)
          /\ labels["B"][1][i].lo = Label(1, i, v[1][i])
          /\ bools["B"][1][i] = v[1][i]
      BY <1>1, ParentsStored
    <2>5. Label(1, i, bools["A"][2][i]) = Label(1, i, v[1][i])
      BY <2>2, <2>3, <2>4
    <2>6. bools["A"][2][i] = v[1][i]
      BY <2>5, LabelFacts DEF Round
    <2>7. QED
      BY <2>1, <2>4, <2>6
  <1>5. ASSUME \A i \in Wire : labels["A"][2][i].lo = Label(2, i, v[2][i]) PROVE v[1] = v[2]
    <2>1. ASSUME NEW i \in Wire PROVE v[1][i] = v[2][i]
      <3>1. Label(2, i, v[2][i]) # Zero
        BY LabelFacts DEF Round
      <3>2. labels["A"][2][i].lo \in {Zero, Label(2, i, v[1][i])}
        BY <1>3, <1>4, ChildrenLeft
      <3>3. Label(2, i, v[2][i]) = Label(2, i, v[1][i])
        BY <1>5, <3>1, <3>2
      <3>4. QED
        BY <3>3, LabelFacts DEF Round
    <2>2. QED
      BY <1>3, <2>1
  <1>6. ASSUME NEW c \in Wire, v[1][c] # Fresh[c] PROVE v[1] = v[2]
    BY <1>4, <1>5, <1>6, ChildrenLeft
  <1>7. ASSUME pc[Child("A")] = "exited" PROVE v[1] = v[2]
    BY <1>5, <1>7, ChildrenStored
  <1>8. ASSUME pc[Child("B")] = "exited" PROVE v[1] = v[2]
    <2>1. ASSUME NEW i \in Wire PROVE labels["A"][2][i].lo = Label(2, i, v[2][i])
      <3>1. labels["A"][2][i].lo = Label(2, i, v[1][i])
        BY <1>3, <1>4, <1>8, ChildrenStored
      <3>2. Label(2, i, v[1][i]) # Zero
        BY LabelFacts DEF Round
      <3>3. QED
        BY <3>1, <3>2, ChildrenLeft
    <2>2. QED
      BY <1>5, <2>1
  <1>9. ASSUME \A i \in Wire : v[1][i] = Fresh[i] PROVE v[1] = Fresh
    BY <1>3, <1>9, EqAssumption DEF Wire
  <1>10. QED
    BY <1>1, <1>6, <1>7, <1>8, <1>9 DEF Ended, Machine

\* "Equal" is only said of equal lists, but for fresh memory of two lost children.
THEOREM EqualAlways == SafetySpec => []EqualMeansEqual
  BY Inductive, EqualFromInv, PTL

\* Two executions that agree are found equal when no process is lost.
LEMMA AgreementFromInv == IInv => AgreementIsSeen
  <1> SUFFICES ASSUME IInv, killed = {}, v[1] = v[2], NEW m \in Machine, result[m] = "different"
      PROVE FALSE
    BY DEF AgreementIsSeen
  <1>1. /\ pc[Parent("A")] = "exited" /\ pc[Parent("B")] = "exited"
        /\ pc[Child("A")] \in Ended /\ pc[Child("B")] \in Ended
    BY Compared
  <1>2. Child("A") \in Process /\ Child("B") \in Process
    BY Processes DEF Machine
  <1>3. pc[Child("A")] = "exited" /\ pc[Child("B")] = "exited"
    BY <1>1, <1>2 DEF IInv, Lost, Ended
  <1>4. v[1] \in [Wire -> {0, 1}]
    BY DEF IInv, TypeOK, Round, Bits
  <1>5. ASSUME NEW i \in Wire
        PROVE  /\ labels["A"][2][i].lo = IF bools["B"][1][i] = 1 THEN labels["B"][2][i].hi ELSE labels["B"][2][i].lo
               /\ (IF bools["A"][2][i] = 1 THEN labels["A"][1][i].hi ELSE labels["A"][1][i].lo) = labels["B"][1][i].lo
    <2>1. v[1][i] \in {0, 1}
      BY <1>4
    <2>2. /\ labels["A"][1][i].lo = Label(1, i, 0) /\ labels["A"][1][i].hi = Label(1, i, 1)
          /\ labels["B"][1][i].lo = Label(1, i, v[1][i])
          /\ bools["B"][1][i] = v[1][i]
      BY <1>1, ParentsStored
    <2>3. /\ labels["B"][2][i].lo = Label(2, i, 0) /\ labels["B"][2][i].hi = Label(2, i, 1)
          /\ labels["A"][2][i].lo = Label(2, i, v[2][i])
          /\ bools["A"][2][i] = v[2][i]
      BY <1>3, ChildrenStored
    <2>4. QED
      BY <2>1, <2>2, <2>3
  <1>6. Held(labels["A"][2]) = apply_labels(labels["B"][2], bools["B"][1])
    BY <1>5 DEF Held, apply_labels
  <1>7. apply_labels(labels["A"][1], bools["A"][2]) = Held(labels["B"][1])
    BY <1>5 DEF Held, apply_labels
  <1>8. QED
    BY <1>6, <1>7, Compared

\* The words that four processes keep, and their bits, fit together
\* (reducer_eq.cpp:117-150 and 346-369).
THEOREM AgreementAlways == SafetySpec => []AgreementIsSeen
  BY Inductive, AgreementFromInv, PTL
=============================================================================
