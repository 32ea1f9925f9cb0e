------------------------- MODULE SwappableRamProofs -------------------------
(* What TLAPS proves of SwappableRam, for every set of contents and every    *)
(* number of swaps.                                                          *)
EXTENDS SwappableRam, TLAPS

\* init() locks the two patches' mutexes before the fork, so the invariant holds
\* whatever swapped starts with.
LEMMA InitInv == Init => IInv
  <1> USE SwapAssumption DEF Side, Patch, Mutex
  <1> SUFFICES ASSUME Init PROVE IInv
    OBVIOUS
  <1>1. TypeOK
    BY DEF Init, TypeOK
  <1>2. ChosenFirst
    BY DEF Init, ChosenFirst
  <1>3. LockedByHolder
    BY DEF Init, LockedByHolder, Holds, Turn, my_mutex, Mine
  <1>4. Level
    BY DEF Init, Level, Turn
  <1>5. QED
    BY <1>1, <1>2, <1>3, <1>4 DEF IInv

\* Every lock() and unlock() of swap(), and every call between, keeps it.
LEMMA StepInv == IInv /\ [Next]_vars => IInv'
  <1> USE SwapAssumption DEF Side, Patch, Mutex, Other
  <1> DEFINE Paced == Level \/ \E t \in Side : Ahead(t)
  <1> SUFFICES ASSUME IInv, [Next]_vars PROVE IInv'
    OBVIOUS
  <1>0. TypeOK /\ ChosenFirst /\ LockedByHolder /\ Paced
    BY DEF IInv
  <1>1. ASSUME NEW s \in Side, choose_side(s) PROVE IInv'
    <2>1. TypeOK'
      BY <1>0, <1>1 DEF TypeOK, choose_side
    <2>2. ChosenFirst'
      BY <1>0, <1>1 DEF TypeOK, ChosenFirst, choose_side
    <2>3. Turn(0)' = Turn(0) /\ Turn(1)' = Turn(1)
      BY <1>0, <1>1 DEF TypeOK, choose_side, Turn
    <2>4. LockedByHolder'
      BY <1>0, <1>1, <2>3 DEF choose_side, LockedByHolder, Holds
    <2>5. Paced'
      BY <1>0, <1>1, <2>3 DEF choose_side, Level, Ahead
    <2>6. QED
      BY <2>1, <2>2, <2>4, <2>5 DEF IInv
  <1>2. ASSUME NEW s \in Side, CallSwap(s) PROVE IInv'
    <2>1. TypeOK'
      BY <1>0, <1>2 DEF TypeOK, CallSwap
    <2>2. ChosenFirst'
      BY <1>0, <1>2 DEF TypeOK, ChosenFirst, CallSwap
    <2>3. LockedByHolder'
      BY <1>0, <1>2 DEF TypeOK, LockedByHolder, Holds, Turn, my_mutex, Mine, CallSwap
    <2>4. Paced'
      BY <1>0, <1>2 DEF TypeOK, Level, Ahead, Turn, CallSwap
    <2>5. QED
      BY <2>1, <2>2, <2>3, <2>4 DEF IInv
  <1>3. ASSUME NEW s \in Side, LockNext(s) PROVE IInv'
    <2>1. TypeOK'
      BY <1>0, <1>3 DEF TypeOK, LockNext, next_intermediate
    <2>2. ChosenFirst'
      BY <1>0, <1>3 DEF TypeOK, ChosenFirst, LockNext
    <2>3. LockedByHolder'
      BY <1>0, <1>3 DEF TypeOK, LockedByHolder, ChosenFirst, Holds, Turn, my_mutex, next_intermediate, old_intermediate, Mine, LockNext
    <2>4. Paced'
      BY <1>0, <1>3 DEF TypeOK, LockedByHolder, ChosenFirst, Level, Ahead, Turn, Holds, my_mutex, next_intermediate, old_intermediate, Mine, LockNext
    <2>5. QED
      BY <2>1, <2>2, <2>3, <2>4 DEF IInv
  <1>4. ASSUME NEW s \in Side, UnlockMine(s) PROVE IInv'
    <2>0. 1 - swapped[s] \in {0, 1} /\ swaps[s] + 1 \in Nat
      BY <1>0 DEF TypeOK
    <2>1. TypeOK'
      BY <1>0, <1>4, <2>0 DEF TypeOK, UnlockMine
    <2>2. ChosenFirst'
      BY <1>0, <1>4 DEF TypeOK, ChosenFirst, UnlockMine
    <2>3. LockedByHolder'
      BY <1>0, <1>4 DEF TypeOK, LockedByHolder, ChosenFirst, Level, Ahead, Holds, Turn, my_mutex, next_intermediate, old_intermediate, Mine, UnlockMine
    <2>4. Paced'
      BY <1>0, <1>4 DEF TypeOK, ChosenFirst, Level, Ahead, Turn, UnlockMine
    <2>5. QED
      BY <2>1, <2>2, <2>3, <2>4 DEF IInv
  <1>5. ASSUME NEW s \in Side, LockMine(s) PROVE IInv'
    <2>1. TypeOK'
      BY <1>0, <1>5 DEF TypeOK, LockMine, my_mutex, Mine
    <2>2. ChosenFirst'
      BY <1>0, <1>5 DEF TypeOK, ChosenFirst, LockMine
    <2>3. LockedByHolder'
      BY <1>0, <1>5 DEF TypeOK, LockedByHolder, ChosenFirst, Level, Ahead, Holds, Turn, my_mutex, next_intermediate, old_intermediate, Mine, LockMine
    <2>4. Paced'
      BY <1>0, <1>5 DEF TypeOK, LockedByHolder, ChosenFirst, Level, Ahead, Holds, Turn, my_mutex, next_intermediate, old_intermediate, Mine, LockMine
    <2>5. QED
      BY <2>1, <2>2, <2>3, <2>4 DEF IInv
  <1>6. ASSUME NEW s \in Side, UnlockOld(s) PROVE IInv'
    <2>1. TypeOK'
      BY <1>0, <1>6 DEF TypeOK, UnlockOld
    <2>2. ChosenFirst'
      BY <1>0, <1>6 DEF TypeOK, ChosenFirst, UnlockOld
    <2>3. LockedByHolder'
      BY <1>0, <1>6 DEF TypeOK, LockedByHolder, ChosenFirst, Level, Ahead, Holds, Turn, my_mutex, next_intermediate, old_intermediate, Mine, UnlockOld
    <2>4. Paced'
      BY <1>0, <1>6 DEF TypeOK, ChosenFirst, Level, Ahead, Turn, UnlockOld
    <2>5. QED
      BY <2>1, <2>2, <2>3, <2>4 DEF IInv
  <1>7. ASSUME NEW s \in Side, NEW v \in Values, Write(s, v) PROVE IInv'
    <2>1. TypeOK'
      BY <1>0, <1>7 DEF TypeOK, Write, Mine
    <2>2. Turn(0)' = Turn(0) /\ Turn(1)' = Turn(1)
      BY <1>7 DEF Write, Turn
    <2>3. ChosenFirst' /\ LockedByHolder'
      BY <1>0, <1>7, <2>2 DEF Write, ChosenFirst, LockedByHolder, Holds
    <2>4. Paced'
      BY <1>0, <1>7, <2>2 DEF Write, Level, Ahead
    <2>5. QED
      BY <2>1, <2>3, <2>4 DEF IInv
  <1>8. CASE UNCHANGED vars
    <2>1. Turn(0)' = Turn(0) /\ Turn(1)' = Turn(1)
      BY <1>8 DEF vars, Turn
    <2>2. QED
      BY <1>0, <1>8, <2>1 DEF IInv, vars, TypeOK, ChosenFirst, LockedByHolder, Holds, Level, Ahead
  <1>9. QED
    BY <1>1, <1>2, <1>3, <1>4, <1>5, <1>6, <1>7, <1>8 DEF Next, SwapStep

\* Type correctness and the lock discipline of swap() hold in every run.
THEOREM Inductive == SafetySpec => []IInv
  <1>1. QED
    BY InitInv, StepInv, PTL DEF SafetySpec
-----------------------------------------------------------------------------
\* Outside swap() the toggles of the two sides point at different patches.
LEMMA InvExclusive == IInv => Exclusive
  BY DEF IInv, TypeOK, Exclusive, Level, Ahead, Turn, Mine, Side, Other

\* A side that is ahead of the other has not left swap() yet.
LEMMA InvBlocks == IInv => BlocksForOther
  <1> USE DEF Side, Other
  <1> SUFFICES ASSUME IInv PROVE BlocksForOther
    OBVIOUS
  <1>1. CASE Level
    BY <1>1 DEF IInv, TypeOK, Level, BlocksForOther, Called, Returned
  <1>2. CASE \E s \in Side : Ahead(s)
    BY <1>2 DEF IInv, TypeOK, Ahead, BlocksForOther, Called, Returned
  <1>3. QED
    BY <1>1, <1>2 DEF IInv

\* No two processes outside swap() ever have the same patch of RAM.
THEOREM ExclusiveAlways == SafetySpec => []Exclusive
  <1>1. QED
    BY Inductive, InvExclusive, PTL

\* No swap() returns before the other side has called its own.
THEOREM BlocksAlways == SafetySpec => []BlocksForOther
  <1>1. QED
    BY Inductive, InvBlocks, PTL

-----------------------------------------------------------------------------
\* The parent's patches are the initial slots of the exchange.
LEMMA InitAbs == Init => Abs!ExchangeInit
  <1> SUFFICES ASSUME Init PROVE Abs!ExchangeInit
    OBVIOUS
  <1> USE DEF Side, Patch, Mine, Turn, Init
  <1>1. slotBar = [s \in Side |-> Zero]
    BY DEF slotBar, Traded
  <1>2. atBar = [s \in Side |-> "out"]
    BY DEF atBar
  <1>3. QED
    BY <1>1, <1>2 DEF Abs!ExchangeInit, Abs!Side
\* The refinement mapping while the sides are level: a side that waits has traded.
LevelMap ==
    /\ slotBar = [s \in Side |-> patch[Mine(Turn(s))]]
    /\ atBar = [s \in Side |-> IF pc[s] = "out" THEN "out"
                               ELSE IF pc[s] \in {"lock_mine", "unlock_old"} THEN "done" ELSE "in"]

\* The refinement mapping while side a is ahead: it has offered, and its slot
\* is still the patch it gave up.
AheadMap(a) ==
    /\ slotBar = [s \in Side |-> patch[Mine(IF s = a THEN 1 - Turn(a) ELSE Turn(a))]]
    /\ atBar = [s \in Side |-> IF pc[s] = "out" THEN "out" ELSE "in"]

\* While the sides have toggled equally often, each has the patch it points at.
LEMMA LevelBar == IInv /\ Level => LevelMap
  <1> USE DEF Side, Other
  <1> SUFFICES ASSUME IInv, Level PROVE LevelMap
    OBVIOUS
  <1>1. ASSUME NEW s \in Side, pc[s] = "lock_mine" PROVE Traded(s)
    BY <1>1 DEF IInv, TypeOK, ChosenFirst, LockedByHolder, Holds, Level, Turn, Traded, Mutex,
                my_mutex, Mine, next_intermediate, old_intermediate
  <1>2. QED
    BY <1>1 DEF IInv, TypeOK, LevelMap, slotBar, atBar, Traded

\* While one side has toggled once more, it still has, in the exchange, the
\* patch it gave up.
LEMMA AheadBar == \A a \in Side : IInv /\ Ahead(a) => AheadMap(a)
  <1> USE DEF Side, Other
  <1> SUFFICES ASSUME NEW a \in Side, IInv, Ahead(a) PROVE AheadMap(a)
    OBVIOUS
  <1>1. ~Traded(a)
    BY DEF IInv, TypeOK, ChosenFirst, LockedByHolder, Holds, Ahead, Turn, Traded, Mutex,
           my_mutex, Mine, next_intermediate, old_intermediate
  <1>2. Turn(a) = swapped[a]
    BY DEF IInv, ChosenFirst, Ahead, Turn
  <1>3. QED
    BY <1>1, <1>2 DEF IInv, TypeOK, Ahead, AheadMap, slotBar, atBar, Traded

\* Every statement of swap() is a step of the exchange or changes nothing in it.
LEMMA StepAbs == IInv /\ IInv' /\ [Next]_vars => [Abs!ExchangeNext]_<<slotBar, atBar>>
  <1> USE DEF Side, Other, Abs!Side
  <1> SUFFICES ASSUME IInv, IInv', [Next]_vars PROVE [Abs!ExchangeNext]_<<slotBar, atBar>>
    OBVIOUS
  <1>a. /\ Level => LevelMap
        /\ \A a \in Side : Ahead(a) => AheadMap(a)
        /\ Level \/ \E a \in Side : Ahead(a)
    BY LevelBar, AheadBar DEF IInv
  <1>b. (IInv /\ Level => LevelMap)' /\ (\A a \in Side : IInv /\ Ahead(a) => AheadMap(a))'
    BY LevelBar, AheadBar, PTL
  <1>c. /\ Level' => LevelMap'
        /\ \A a \in Side : Ahead(a)' => AheadMap(a)'
        /\ Level' \/ \E a \in Side : Ahead(a)'
    BY <1>b DEF IInv
  <1>t. TypeOK /\ ChosenFirst /\ TypeOK'
    BY DEF IInv
  <1>1. ASSUME NEW s \in Side, choose_side(s) PROVE UNCHANGED <<slotBar, atBar>>
    <2>1. Turn(0)' = Turn(0) /\ Turn(1)' = Turn(1)
      BY <1>t, <1>1 DEF TypeOK, choose_side, Turn
    <2>2. Level' = Level /\ \A a \in Side : Ahead(a)' = Ahead(a)
      BY <1>1, <2>1 DEF choose_side, Level, Ahead
    <2>3. QED
      BY <1>a, <1>c, <1>1, <2>1, <2>2 DEF choose_side, LevelMap, AheadMap
  <1>2. ASSUME NEW s \in Side, CallSwap(s) PROVE Abs!Offer(s)
    <2>1. Turn(0)' = Turn(0) /\ Turn(1)' = Turn(1)
      BY <1>2 DEF CallSwap, Turn
    <2>2. CASE Level
      <3>1. Level'
        BY <1>t, <1>2, <2>1, <2>2 DEF TypeOK, CallSwap, Level
      <3>2. QED
        BY <1>t, <1>a, <1>c, <1>2, <2>1, <2>2, <3>1 DEF TypeOK, CallSwap, LevelMap, Abs!Offer
    <2>3. ASSUME NEW a \in Side, Ahead(a) PROVE Abs!Offer(s)
      <3>1. Ahead(a)'
        BY <1>t, <1>2, <2>1, <2>3 DEF TypeOK, CallSwap, Ahead
      <3>2. QED
        BY <1>t, <1>a, <1>c, <1>2, <2>1, <2>3, <3>1 DEF TypeOK, CallSwap, AheadMap, Abs!Offer
    <2>4. QED
      BY <1>a, <2>2, <2>3
  <1>3. ASSUME NEW s \in Side, LockNext(s) PROVE UNCHANGED <<slotBar, atBar>>
    <2>1. Turn(0)' = Turn(0) /\ Turn(1)' = Turn(1)
      BY <1>3 DEF LockNext, Turn
    <2>2. CASE Level
      <3>1. Level'
        BY <1>t, <1>c, <1>3, <2>1, <2>2 DEF TypeOK, LockNext, Level, Ahead
      <3>2. QED
        BY <1>t, <1>a, <1>c, <1>3, <2>1, <2>2, <3>1 DEF TypeOK, LockNext, LevelMap
    <2>3. ASSUME NEW a \in Side, Ahead(a) PROVE UNCHANGED <<slotBar, atBar>>
      <3>1. Ahead(a)'
        BY <1>t, <1>3, <2>1, <2>3 DEF TypeOK, LockNext, Ahead
      <3>2. QED
        BY <1>t, <1>a, <1>c, <1>3, <2>1, <2>3, <3>1 DEF TypeOK, LockNext, AheadMap
    <2>4. QED
      BY <1>a, <2>2, <2>3
  <1>4. ASSUME NEW s \in Side, UnlockMine(s) PROVE UNCHANGED <<slotBar, atBar>> \/ Abs!Trade
    <2>1. Turn(s) = swapped[s] /\ Turn(s)' = 1 - Turn(s) /\ Turn(Other(s))' = Turn(Other(s))
      BY <1>t, <1>4 DEF TypeOK, ChosenFirst, UnlockMine, Turn
    <2>2. CASE Level
      <3>1. Ahead(s)'
        BY <1>t, <1>c, <1>4, <2>1, <2>2 DEF TypeOK, UnlockMine, Level, Ahead
      <3>2. AheadMap(s)' /\ LevelMap
        BY <1>a, <1>c, <2>2, <3>1
      <3>3. Turn(s) \in {0, 1} /\ Turn(Other(s)) = 1 - Turn(s)
        BY <1>t, <2>2 DEF TypeOK, Level, Turn
      <3>4. \A t \in Side : (IF t = s THEN 1 - Turn(s)' ELSE Turn(s)') = Turn(t)
        BY <2>1, <3>3
      <3>5. slotBar' = slotBar
        BY <1>4, <3>2, <3>4 DEF UnlockMine, LevelMap, AheadMap
      <3>6. pc[Other(s)] \notin {"lock_mine", "unlock_old"}
        BY <1>4, <2>2 DEF UnlockMine, Level
      <3>7. atBar' = atBar
        BY <1>t, <1>4, <3>2, <3>6 DEF TypeOK, UnlockMine, LevelMap, AheadMap
      <3>8. QED
        BY <3>5, <3>7
    <2>3. ASSUME Ahead(Other(s)) PROVE Abs!Trade
      <3>1. Level'
        BY <1>t, <1>c, <1>4, <2>1, <2>3 DEF TypeOK, UnlockMine, Ahead
      <3>2. QED
        BY <1>t, <1>a, <1>c, <1>4, <2>1, <2>3, <3>1 DEF TypeOK, UnlockMine, Ahead, LevelMap, AheadMap, Abs!Trade
    <2>4. ~Ahead(s)
      BY <1>4 DEF UnlockMine, Ahead
    <2>5. QED
      BY <1>a, <2>2, <2>3, <2>4
  <1>5. ASSUME NEW s \in Side, LockMine(s) PROVE UNCHANGED <<slotBar, atBar>>
    <2>1. Turn(0)' = Turn(0) /\ Turn(1)' = Turn(1)
      BY <1>5 DEF LockMine, Turn
    <2>2. Level' /\ Level
      BY <1>t, <1>a, <1>c, <1>5, <2>1 DEF TypeOK, LockMine, Level, Ahead
    <2>3. QED
      BY <1>t, <1>a, <1>c, <1>5, <2>1, <2>2 DEF TypeOK, LockMine, LevelMap
  <1>6. ASSUME NEW s \in Side, UnlockOld(s) PROVE Abs!Return(s)
    <2>1. Turn(0)' = Turn(0) /\ Turn(1)' = Turn(1)
      BY <1>6 DEF UnlockOld, Turn
    <2>2. Level' /\ Level
      BY <1>t, <1>a, <1>c, <1>6, <2>1 DEF TypeOK, UnlockOld, Level, Ahead
    <2>3. QED
      BY <1>t, <1>a, <1>c, <1>6, <2>1, <2>2 DEF TypeOK, UnlockOld, LevelMap, Abs!Return
  <1>7. ASSUME NEW s \in Side, NEW v \in Values, Write(s, v) PROVE Abs!WriteSlot(s, v)
    <2>1. Turn(0)' = Turn(0) /\ Turn(1)' = Turn(1) /\ Turn(s) = swapped[s]
      BY <1>7 DEF Write, Turn
    <2>2. Level' = Level /\ \A a \in Side : Ahead(a)' = Ahead(a)
      BY <1>7, <2>1 DEF Write, Level, Ahead
    <2>3. Turn(0) \in {0, 1} /\ Turn(1) \in {0, 1}
      BY <1>t DEF TypeOK, Turn
    <2>4. CASE Level
      <3>1. LevelMap /\ LevelMap'
        BY <1>a, <1>c, <2>2, <2>4
      <3>2. slotBar' = [slotBar EXCEPT ![s] = v]
        BY <1>t, <1>7, <2>1, <2>3, <2>4, <3>1 DEF TypeOK, Write, Level, LevelMap, Patch, Mine
      <3>3. QED
        BY <1>7, <3>1, <3>2 DEF Write, LevelMap, Abs!WriteSlot
    <2>5. ASSUME NEW a \in Side, Ahead(a) PROVE Abs!WriteSlot(s, v)
      <3>1. AheadMap(a) /\ AheadMap(a)'
        BY <1>a, <1>c, <2>2, <2>5
      <3>2. s # a
        BY <1>7, <2>5 DEF Write, Ahead
      <3>3. Turn(a) = swapped[s] /\ Turn(a)' = Turn(a) /\ Turn(a) \in {0, 1}
        BY <2>1, <2>3, <2>5, <3>2 DEF Ahead
      <3>4. slotBar' = [slotBar EXCEPT ![s] = v]
        BY <1>t, <1>7, <3>1, <3>2, <3>3 DEF TypeOK, Write, AheadMap, Patch, Mine
      <3>5. QED
        BY <1>7, <3>1, <3>4 DEF Write, AheadMap, Abs!WriteSlot
    <2>6. QED
      BY <1>a, <2>4, <2>5
  <1>8. CASE UNCHANGED vars
    BY <1>8 DEF vars, slotBar, atBar, Traded, Turn
  <1>9. QED
    BY <1>1, <1>2, <1>3, <1>4, <1>5, <1>6, <1>7, <1>8 DEF Next, SwapStep, Abs!ExchangeNext

\* The lock dance implements the atomic exchange of the two patches.
THEOREM Implements == SafetySpec => ImplementsExchange
  <1>1. QED
    BY Inductive, InitAbs, StepAbs, PTL
       DEF SafetySpec, ImplementsExchange, Abs!ExchangeSafety, Abs!exchangeVars
=============================================================================
