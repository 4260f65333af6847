----------------------------- MODULE MCIterator -----------------------------
(***************************************************************************)
(* Every way to spread NumVersions versions, numbered 1 to NumVersions,    *)
(* over two tables cut into blocks of one or two keys, a version being in  *)
(* one table or in both, and at most one block unreadable.                *)
(***************************************************************************)
EXTENDS Iterator, SequencesExt

CONSTANTS NumVersions, ReadSeqs

Histories ==
  {[s \in 1..NumVersions |-> [key |-> k[s], seq |-> s, deleted |-> d[s]]] :
     k \in [1..NumVersions -> Keys], d \in [1..NumVersions -> BOOLEAN]}

\* Blocks of size keys each: the versions of a key are never split.
Blocks(E, size) ==
  LET ks == SetToSortSeq({e.key : e \in E}, <)
      group(b) == {ks[i] : i \in {i \in DOMAIN ks : (i - 1) \div size = b - 1}}
  IN  [b \in 1..((Len(ks) + size - 1) \div size) |->
         SetToSortSeq({e \in E : e.key \in group(b)}, InternalOrder)]

MCLayouts ==
  {l \in {[children |-> <<[blocks |-> Blocks({h[s] : s \in {v \in 1..NumVersions : 1 \in at[v]}}, size),
                           bad |-> IF bad[1] = 1 THEN {bad[2]} ELSE {}],
                          [blocks |-> Blocks({h[s] : s \in {v \in 1..NumVersions : 2 \in at[v]}}, size),
                           bad |-> IF bad[1] = 2 THEN {bad[2]} ELSE {}]>>,
           readSeq |-> r] :
            h \in Histories,
            at \in [1..NumVersions -> {{1}, {2}, {1, 2}}],
            size \in {1, 2},
            bad \in {<<0, 0>>} \cup {1, 2} \X (1..NumVersions),
            r \in ReadSeqs} :
     \A c \in Range(l.children) : c.bad \subseteq DOMAIN c.blocks}
=============================================================================
