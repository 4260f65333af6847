-------------------------------- MODULE MCDB --------------------------------
(***************************************************************************)
(* Small instances of DB for TLC.                                          *)
(***************************************************************************)
EXTENDS DBRefinement

Put(k) == <<[key |-> k, deleted |-> FALSE]>>
Delete(k) == <<[key |-> k, deleted |-> TRUE]>>

OneKeyBatches == {Put(1), Delete(1)}
TwoKeyBatches == {Put(1), Put(2), Delete(1)}
GroupedBatches == {Put(1) \o Put(2), Delete(1)}
=============================================================================
