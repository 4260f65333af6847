---------------------------- MODULE MCBlockCache ----------------------------
(***************************************************************************)
(* Two readers, two files of two blocks.                                   *)
(***************************************************************************)
EXTENDS BlockCache, TLC

Symmetric == Permutations(Readers)
=============================================================================
