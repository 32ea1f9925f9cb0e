------------------------------ MODULE Exchange ------------------------------
(***************************************************************************)
(* What a SwappableRam promises to the two processes that share it          *)
(* (include/dualex_reveal.hpp, the class comment and the comment of swap):  *)
(* each side owns one patch of RAM, and "when they BOTH call swap(), they   *)
(* swap which one owns which patch of RAM (and everything in it)".  There   *)
(* are no locks, no regions and no pointers here: a side simply has some    *)
(* contents, offers them, and gets the contents the other side offered.     *)
(***************************************************************************)
EXTENDS Naturals

CONSTANTS Values,    \* what a patch of RAM can hold
          Zero       \* what the operating system hands out: zeroed memory

Side == {0, 1}

VARIABLES slot,      \* slot[s]: the contents of the patch that side s owns
          at         \* at[s]: "out" of a swap, "in" one, or "done" with it

exchangeVars == <<slot, at>>

ExchangeInit ==
    /\ slot = [s \in Side |-> Zero]
    /\ at   = [s \in Side |-> "out"]

\* A side that is not in a swap writes its own patch.
WriteSlot(s, v) ==
    /\ at[s] = "out"
    /\ slot' = [slot EXCEPT ![s] = v]
    /\ UNCHANGED at

\* A side calls swap(): from here on its patch is frozen.
Offer(s) ==
    /\ at[s] = "out"
    /\ at' = [at EXCEPT ![s] = "in"]
    /\ UNCHANGED slot

\* Both sides are in swap(): the patches change hands, for both at once.
Trade ==
    /\ \A s \in Side : at[s] = "in"
    /\ at'   = [s \in Side |-> "done"]
    /\ slot' = [s \in Side |-> slot[1 - s]]

\* swap() returns on one side, at a time of its own.
Return(s) ==
    /\ at[s] = "done"
    /\ at' = [at EXCEPT ![s] = "out"]
    /\ UNCHANGED slot

ExchangeNext ==
    \/ Trade
    \/ \E s \in Side : Offer(s) \/ Return(s) \/ \E v \in Values : WriteSlot(s, v)

\* Both sides having called is enough: the trade happens and both calls return.
ExchangeFairness == WF_exchangeVars(Trade) /\ \A s \in Side : WF_exchangeVars(Return(s))

ExchangeSafety == ExchangeInit /\ [][ExchangeNext]_exchangeVars
ExchangeSpec   == ExchangeSafety /\ ExchangeFairness
=============================================================================
