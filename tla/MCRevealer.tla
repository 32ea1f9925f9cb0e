----------------------------- MODULE MCRevealer -----------------------------
(* Values of the constants for Revealer.  The programs are chosen so that    *)
(* every kind of reveal occurs (to both machines, to one, with equal and     *)
(* with different values in the two executions) and any order of calls.      *)
EXTENDS Revealer

CONSTANTS v1, v2

Reveal(r, side, left, right) ==
    [op |-> "reveal", r |-> r, side |-> side,
     val |-> [e \in Machine |-> IF e = "LEFT" THEN left ELSE right]]

Ask(r) == {[op |-> "results", r |-> r], [op |-> "stop", r |-> r]}

\* The two Revealers of test/dualex_reveal_test.cpp, whose checkers garble on
\* different machines.
TwoEqGarbler == [r \in Revealers |-> IF r = 0 THEN "RIGHT" ELSE "LEFT"]

\* One Revealer: test/dualex_reveal_test.cpp reveals to one machine, the
\* clients of store_path_encounter.hpp and the queries to both.
First   == {Reveal(0, "BOTH", v1, v1), Reveal(0, "LEFT", v1, v2)}
Second  == {Reveal(0, "LEFT", v1, v2), Reveal(0, "RIGHT", v2, v2)}
OneCall == First \cup Second \cup Ask(0)

\* Both Revealers; the program may leave the first checker running.
TwoCall ==
    {Reveal(0, "BOTH", v1, v1), Reveal(1, "LEFT", v1, v2), [op |-> "results", r |-> 0]} \cup Ask(1)

\* Two reveals of one Revealer, any call after each; any three calls of two.
MCPrograms == {<<First, OneCall, Second, Second \cup Ask(0)>>, <<TwoCall, TwoCall, TwoCall>>}
BlockPrograms == {<<OneCall, OneCall>>}
=============================================================================
