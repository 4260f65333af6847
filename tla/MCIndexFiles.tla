---------------------------- MODULE MCIndexFiles ----------------------------
(***************************************************************************)
(* Small instances of IndexFiles for TLC.                                  *)
(***************************************************************************)
EXTENDS IndexFiles, TLC

IndexSymmetry == Permutations(Vectors) \cup Permutations(Keys)
=============================================================================
