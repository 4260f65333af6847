----------------------------- MODULE MCVectorDB -----------------------------
(***************************************************************************)
(* Small instances of VectorDB for TLC.                                    *)
(***************************************************************************)
EXTENDS VectorDB

CONSTANTS k1, k2, v1, v2, bad, plain, t1, t2, s1

Put(k, v) == [key |-> k, deleted |-> FALSE, value |-> v]
Delete(k) == [key |-> k, deleted |-> TRUE, value |-> NotFound]

Empty == [k \in Keys |-> NotFound]

\* One vector to start with, or a value only the plain database would accept.
StoredViews == {[Empty EXCEPT ![k1] = v1], [Empty EXCEPT ![k1] = bad]}

SomeBatches == {<<Put(k1, v2), Put(k2, v1)>>, <<Put(k1, plain)>>, <<Delete(k1), Put(k1, v1)>>,
                <<Put(k1, bad)>>}
=============================================================================
