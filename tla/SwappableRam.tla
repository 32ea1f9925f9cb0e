---------------------------- MODULE SwappableRam ----------------------------
(***************************************************************************)
(* class dualex::SwappableRam (include/dualex_reveal.hpp, lines 39-183):    *)
(* two patches of shared memory "a" and "b", four process-shared mutexes    *)
(* made before the fork, and two processes that exchange the patches with   *)
(* the lock dance of swap().  A side is named by the argument its process   *)
(* gives to choose_side(): the class comment asks that exactly one process  *)
(* passes true and exactly one passes false.                                *)
(*                                                                          *)
(* Each lock() and unlock() of swap() is an action, so the two processes    *)
(* interleave between any two of them.  A mutex is what the class uses it   *)
(* for: a flag that lock() waits for and that either process may clear      *)
(* (the mutexes of the patches are locked by the parent before the fork).   *)
(***************************************************************************)
EXTENDS Naturals

CONSTANTS Values,    \* what a patch of RAM can hold
          Zero,      \* the contents of fresh anonymous shared memory
          MaxSwaps   \* bound: the number of swaps a side starts

ASSUME SwapAssumption == Zero \in Values /\ MaxSwaps \in Nat

Side  == {0, 1}          \* a C++ bool: 0 is false, 1 is true
Other(s) == 1 - s
Patch == {"a", "b"}
Mutex == {"a", "b", "ab", "ba"}

VARIABLES patch,     \* patch[m]: contents of the memory region m
          locked,    \* the mutexes that are locked
          swap_set,  \* the sides whose process has called choose_side
          swapped,   \* swapped[s]: its member swapped (per process after the fork)
          pc,        \* pc[s]: the statement of swap() the process is about to run
          swaps      \* swaps[s]: how many times side s has toggled swapped

vars == <<patch, locked, swap_set, swapped, pc, swaps>>

-----------------------------------------------------------------------------
(* Pointers and mutexes as functions of the member swapped.                 *)

\* get(): the patch a process reads and writes.
Mine(sw) == IF sw = 1 THEN "a" ELSE "b"

\* my_mutex(), next_intermediate() and old_intermediate().
my_mutex(sw)          == Mine(sw)
next_intermediate(sw) == IF sw = 1 THEN "ab" ELSE "ba"
OldIntermediateMixedUp(sw) == next_intermediate(sw)     \* mutant: the two mixed up
old_intermediate(sw)  == IF sw = 1 THEN "ba" ELSE "ab"

-----------------------------------------------------------------------------
\* The constructor and init(), run by the parent before the fork.  The member
\* swapped is not set by them: it has any value until choose_side.
Init ==
    /\ patch    = [m \in Patch |-> Zero]
    /\ locked   = Patch
    /\ swap_set = {}
    /\ swapped  \in [Side -> {0, 1}]
    /\ pc       = [s \in Side |-> "out"]
    /\ swaps    = [s \in Side |-> 0]

\* choose_side(s), once per process: a second call returns false and changes
\* nothing, as do get() and swap() before it.
choose_side(s) ==
    /\ s \notin swap_set
    /\ swap_set' = swap_set \cup {s}
    /\ swapped'  = [swapped EXCEPT ![s] = s]
    /\ UNCHANGED <<patch, locked, pc, swaps>>

\* The owner writes through get().
Write(s, v) ==
    /\ s \in swap_set /\ pc[s] = "out"
    /\ patch' = [patch EXCEPT ![Mine(swapped[s])] = v]
    /\ UNCHANGED <<locked, swap_set, swapped, pc, swaps>>

\* swap() is called and passes the check of swap_set.
CallSwap(s) ==
    /\ s \in swap_set /\ pc[s] = "out"
    /\ swaps[s] < MaxSwaps
    /\ pc' = [pc EXCEPT ![s] = "lock_next"]
    /\ UNCHANGED <<patch, locked, swap_set, swapped, swaps>>

\* Mutant: swap() without the two intermediate mutexes.
LockNextDropped(s) ==
    /\ pc[s] = "lock_next"
    /\ pc' = [pc EXCEPT ![s] = "unlock_mine"]
    /\ UNCHANGED <<patch, locked, swap_set, swapped, swaps>>

\* next_intermediate()->lock()
LockNext(s) ==
    LET m == next_intermediate(swapped[s]) IN
    /\ pc[s] = "lock_next"
    /\ m \notin locked
    /\ locked' = locked \cup {m}
    /\ pc' = [pc EXCEPT ![s] = "unlock_mine"]
    /\ UNCHANGED <<patch, swap_set, swapped, swaps>>

\* Mutant: swapped toggled before my_mutex()->unlock(), not after.
UnlockAfterToggle(s) ==
    /\ pc[s] = "unlock_mine"
    /\ locked'  = locked \ {my_mutex(1 - swapped[s])}
    /\ swapped' = [swapped EXCEPT ![s] = 1 - @]
    /\ swaps'   = [swaps EXCEPT ![s] = @ + 1]
    /\ pc' = [pc EXCEPT ![s] = "lock_mine"]
    /\ UNCHANGED <<patch, swap_set>>

\* my_mutex()->unlock(); swapped = !swapped
UnlockMine(s) ==
    /\ pc[s] = "unlock_mine"
    /\ locked'  = locked \ {my_mutex(swapped[s])}
    /\ swapped' = [swapped EXCEPT ![s] = 1 - @]
    /\ swaps'   = [swaps EXCEPT ![s] = @ + 1]
    /\ pc' = [pc EXCEPT ![s] = "lock_mine"]
    /\ UNCHANGED <<patch, swap_set>>

\* Mutant: swap() returns without waiting for the other patch.
LockMineDropped(s) ==
    /\ pc[s] = "lock_mine"
    /\ pc' = [pc EXCEPT ![s] = "unlock_old"]
    /\ UNCHANGED <<patch, locked, swap_set, swapped, swaps>>

\* my_mutex()->lock(), now the mutex of the other patch
LockMine(s) ==
    LET m == my_mutex(swapped[s]) IN
    /\ pc[s] = "lock_mine"
    /\ m \notin locked
    /\ locked' = locked \cup {m}
    /\ pc' = [pc EXCEPT ![s] = "unlock_old"]
    /\ UNCHANGED <<patch, swap_set, swapped, swaps>>

\* Mutant: swap() returns with the intermediate mutex still locked.
UnlockOldDropped(s) ==
    /\ pc[s] = "unlock_old"
    /\ pc' = [pc EXCEPT ![s] = "out"]
    /\ UNCHANGED <<patch, locked, swap_set, swapped, swaps>>

\* old_intermediate()->unlock(); return true
UnlockOld(s) ==
    /\ pc[s] = "unlock_old"
    /\ locked' = locked \ {old_intermediate(swapped[s])}
    /\ pc' = [pc EXCEPT ![s] = "out"]
    /\ UNCHANGED <<patch, swap_set, swapped, swaps>>

SwapStep(s) == LockNext(s) \/ UnlockMine(s) \/ LockMine(s) \/ UnlockOld(s)

Next ==
    \E s \in Side :
        \/ choose_side(s)
        \/ CallSwap(s)
        \/ SwapStep(s)
        \/ \E v \in Values : Write(s, v)

\* A process inside swap() is not stopped by its caller, only by a mutex:
\* the scheduler runs it whenever its next statement can run.
Fairness == \A s \in Side : WF_vars(SwapStep(s))

SafetySpec == Init /\ [][Next]_vars
Spec       == SafetySpec /\ Fairness
-----------------------------------------------------------------------------
(* The inductive invariant.                                                  *)

TypeOK ==
    /\ patch    \in [Patch -> Values]
    /\ locked   \subseteq Mutex
    /\ swap_set \subseteq Side
    /\ swapped  \in [Side -> {0, 1}]
    /\ pc       \in [Side -> {"out", "lock_next", "unlock_mine", "lock_mine", "unlock_old"}]
    /\ swaps    \in [Side -> Nat]

\* swapped as it counts: a process that has not chosen owns its first patch.
Turn(s) == IF s \in swap_set THEN swapped[s] ELSE s

\* The mutexes side s has locked (the parent locked the first one for it).
Holds(s) ==
    LET sw == Turn(s) IN
    CASE pc[s] \in {"out", "lock_next"} -> {my_mutex(sw)}
      [] pc[s] = "unlock_mine"          -> {my_mutex(sw), next_intermediate(sw)}
      [] pc[s] = "lock_mine"            -> {old_intermediate(sw)}
      [] pc[s] = "unlock_old"           -> {my_mutex(sw), old_intermediate(sw)}

\* A mutex is locked exactly when one of the two sides holds it.
LockedByHolder ==
    \A m \in Mutex : m \in locked <=> \E s \in Side : m \in Holds(s)

\* s has given up its patch and waits for a side that is one swap behind.
Ahead(s) ==
    /\ swaps[s] = swaps[Other(s)] + 1
    /\ Turn(s) = Turn(Other(s))
    /\ pc[s] = "lock_mine"
    /\ pc[Other(s)] \in {"out", "lock_next", "unlock_mine"}

\* Both sides have toggled equally often, and no side is about to give up its
\* patch for the next swap while the other has not finished this one.
Level ==
    /\ swaps[0] = swaps[1]
    /\ Turn(0) # Turn(1)
    /\ \A s \in Side : pc[s] = "unlock_mine" => pc[Other(s)] \notin {"lock_mine", "unlock_old"}

\* swap() runs only in a process that has chosen its side.
ChosenFirst == \A s \in Side : pc[s] # "out" \/ swaps[s] > 0 => s \in swap_set

\* Invariant: every mutex is locked by exactly the side whose place in swap()
\* says so, and the sides are level or one is a single swap ahead, waiting
\* (swap(), include/dualex_reveal.hpp:170-182).
IInv == TypeOK /\ ChosenFirst /\ LockedByHolder /\ (Level \/ \E s \in Side : Ahead(s))

-----------------------------------------------------------------------------
(* Properties.                                                               *)

\* Safety: two processes that are both outside swap() never have the same
\* patch, so neither reads what the other is writing ("gives 2 different
\* processes each a (fixed size) patch of RAM", dualex_reveal.hpp:35).
Exclusive ==
    (\A s \in Side : s \in swap_set /\ pc[s] = "out") => Mine(swapped[0]) # Mine(swapped[1])

\* How many swaps a side has called, and how many have returned.
Called(s)   == swaps[s] + (IF pc[s] \in {"lock_next", "unlock_mine"} THEN 1 ELSE 0)
Returned(s) == swaps[s] - (IF pc[s] \in {"lock_mine", "unlock_old"} THEN 1 ELSE 0)

\* Safety: swap() "blocks until both sides call swap()" (dualex_reveal.hpp:167):
\* no side returns from its k-th swap before the other has called its k-th.
BlocksForOther == \A s \in Side : Returned(s) <= Called(Other(s))

\* Liveness: once both sides have called swap() k times, both have k returns;
\* the four mutexes never leave the two waiting on each other.
SwapReturns ==
    \A k \in 1..MaxSwaps :
        (\A s \in Side : Called(s) >= k) ~> (\A s \in Side : Returned(s) >= k)

\* A side has traded once the patch it waits for is free or its own.
Traded(s) == pc[s] = "unlock_old" \/ (pc[s] = "lock_mine" /\ my_mutex(swapped[s]) \notin locked)

atBar == [s \in Side |->
    IF pc[s] = "out" THEN "out" ELSE IF Traded(s) THEN "done" ELSE "in"]

slotBar == [s \in Side |->
    patch[Mine(IF pc[s] = "lock_mine" /\ ~Traded(s) THEN 1 - swapped[s] ELSE Turn(s))]]

Abs == INSTANCE Exchange WITH slot <- slotBar, at <- atBar

\* Refinement: the lock dance is an atomic exchange of what the two sides
\* wrote ("the following dance ensures that we have atomic swaps",
\* dualex_reveal.hpp:175).
ImplementsExchange == Abs!ExchangeSafety
=============================================================================
