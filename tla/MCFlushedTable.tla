--------------------------- MODULE MCFlushedTable ---------------------------
(***************************************************************************)
(* Small MemTables whose keys are prefixes of each other.                  *)
(***************************************************************************)
EXTENDS FlushedTable

MCKeys == {<<1>>, <<1, 1>>, <<2>>}

MCHash1 == [k \in MCKeys |-> 7 * Len(k) + 20 * k[Len(k)]]
MCHash2 == [k \in MCKeys |-> 3 * k[1] + 11]
=============================================================================
