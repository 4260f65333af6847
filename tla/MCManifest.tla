----------------------------- MODULE MCManifest -----------------------------
(***************************************************************************)
(* Small instances of Manifest for TLC.                                    *)
(***************************************************************************)
EXTENDS Manifest, TLC

\* An empty directory, or one of an older release with two tables.
MCFirstTables == {{}, {1, 2}}

InstanceSymmetry == Permutations(Instances)
=============================================================================
