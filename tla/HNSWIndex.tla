------------------------------ MODULE HNSWIndex -----------------------------
(***************************************************************************)
(* The versioned vector index.  The graph keeps one node for every vector  *)
(* ever inserted; versions_by_key_ says, for each key, at which sequence   *)
(* numbers it was inserted or deleted, and so which node is visible.       *)
(*                                                                         *)
(* A node id stands for the insertion that created the node, so a node is  *)
(* identified by its key and sequence number; the distances and links that *)
(* only decide how close to the true neighbours a search gets are left to  *)
(* module HNSWGraph.                                                       *)
(***************************************************************************)
EXTENDS Integers, FiniteSets

CONSTANTS Keys, Vectors

EmptyIndex == [nodes |-> {}, versions |-> [k \in Keys |-> {}]]

Nodes == [key : Keys, seq : Nat, vec : Vectors]
Indexes == [nodes : SUBSET Nodes,
            versions : [Keys -> SUBSET [seq : Nat, deleted : BOOLEAN]]]

\* The version of k that a read at sequence number s sees: upper_bound, then one
\* step back.
VisibleVersions(idx, k, s) ==
  {v \in idx.versions[k] : /\ v.seq <= s
                           /\ \A w \in idx.versions[k] : w.seq <= s => w.seq <= v.seq}

IsVisibleAt(idx, n, s) ==
  \E v \in VisibleVersions(idx, n.key, s) : ~v.deleted /\ v.seq = n.seq

\* What a search may return: the graph is searched approximately, but only nodes
\* that pass the visibility test are collected, at most topK of them.
Visible(idx, s) == {n \in idx.nodes : IsVisibleAt(idx, n, s)}

Findings(idx, s, topK) == {R \in SUBSET Visible(idx, s) : Cardinality(R) <= topK}

\* (variant: an existing key is never overwritten)
InsertRefusedAlways(idx, k, s, vec, existing) == idx.versions[k] # {}

\* InsertVersion is refused when the version exists with other contents, Insert
\* (existing = FALSE) also when the key exists at all.
InsertRefused(idx, k, s, vec, existing) ==
  \/ ~existing /\ idx.versions[k] # {}
  \/ \E v \in idx.versions[k] :
       v.seq = s /\ (v.deleted \/ [key |-> k, seq |-> s, vec |-> vec] \notin idx.nodes)

InsertVersionLocked(idx, k, s, vec) ==
  IF \E v \in idx.versions[k] : v.seq = s THEN idx
  ELSE [nodes |-> idx.nodes \cup {[key |-> k, seq |-> s, vec |-> vec]},
        versions |-> [idx.versions EXCEPT ![k] = @ \cup {[seq |-> s, deleted |-> FALSE]}]]

MarkDeletedRefused(idx, k, s) == \E v \in idx.versions[k] : v.seq = s /\ ~v.deleted

\* (variant: no tombstone is kept for a key that has versions)
MarkDeletedNew(idx, k, s) ==
  [idx EXCEPT !.versions[k] = IF @ = {} THEN {[seq |-> s, deleted |-> TRUE]} ELSE @]

MarkDeleted(idx, k, s) ==
  [idx EXCEPT !.versions[k] = @ \cup {[seq |-> s, deleted |-> TRUE]}]
=============================================================================
