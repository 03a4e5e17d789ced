----------------------------- MODULE MCPicking -----------------------------
(***************************************************************************)
(* A small window, of one or two pixels each way, and mouse positions in   *)
(* and outside of it.                                                      *)
(***************************************************************************)
EXTENDS Picking

MCSize == {<<2, 1>>, <<1, 2>>, <<2, 2>>}
MCFirstSize == <<2, 1>>
MCPosition == {<<0, 1>>, <<1, 2>>, <<2, 1>>}
=============================================================================
