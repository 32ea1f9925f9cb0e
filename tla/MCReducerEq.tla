---------------------------- MODULE MCReducerEq -----------------------------
(* Two wires, of which fresh memory holds a 0 and a 1.                       *)
EXTENDS ReducerEq

MCFresh == <<0, 1>>
=============================================================================
