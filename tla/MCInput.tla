------------------------------ MODULE MCInput ------------------------------
(***************************************************************************)
(* Instances of Input.                                                     *)
(***************************************************************************)
EXTENDS Input

CONSTANTS w, small, large

Positions == 0 .. 1
Still == {0}
=============================================================================
