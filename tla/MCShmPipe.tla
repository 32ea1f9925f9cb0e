----------------------------- MODULE MCShmPipe ------------------------------
(* Values of the constants for ShmPipe: lists of two cells that fit, in both *)
(* orders, and one of three cells that does not.                             *)
EXTENDS ShmPipe

CONSTANTS a, b, zero

MCValues == {a, b, zero}
MCLists  == {<<a, b>>, <<b, a>>, <<a, b, b>>}
=============================================================================
