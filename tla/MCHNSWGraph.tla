---------------------------- MODULE MCHNSWGraph -----------------------------
(***************************************************************************)
(* Small instances of HNSWGraph for TLC.                                   *)
(***************************************************************************)
EXTENDS HNSWGraph

Corners == {<<0, 0>>, <<3, 0>>, <<0, 4>>}
=============================================================================
