------------------------------ MODULE HNSWGraph -----------------------------
(***************************************************************************)
(* The navigable graph behind the vector index: every node lives on the    *)
(* layers 0 .. level, new nodes are linked to the best of the nodes a      *)
(* search finds on each layer, reverse links are pruned to the degree      *)
(* limit, and searches descend greedily from the entry point.              *)
(*                                                                         *)
(* Vectors are points of the plane and distances are squared, which orders *)
(* them as the code's L2 distances do.  The level of a node is random in   *)
(* the code and any level up to MaxLevel here.  Node ids start at 1.       *)
(***************************************************************************)
EXTENDS Integers, Sequences, FiniteSets, SequencesExt

CONSTANTS Points,          \* the vectors that may be added or asked for
          MaxNeighbors,    \* options_.max_neighbors, M
          EfConstruction,  \* options_.ef_construction
          MaxLevel,        \* bound on the random level
          MaxNodes         \* bound on the size of the graph

ASSUME OptionsAreValid == MaxNeighbors \in Nat \ {0, 1} /\ EfConstruction \in Nat \ {0}

VARIABLES nodes,           \* nodes_: vector and, for each level, the neighbours
          entryPoint,      \* entry_point_
          maxLevel         \* max_level_, -1 when the graph is empty

vars == <<nodes, entryPoint, maxLevel>>

Graph == [nodes |-> nodes, entry |-> entryPoint, top |-> maxLevel]

Distance(p, q) ==
  (p[1] - q[1]) * (p[1] - q[1]) + (p[2] - q[2]) * (p[2] - q[2])

LevelOf(ns, id) == Len(ns[id].neighbors) - 1
NeighborsOf(ns, id, level) == ns[id].neighbors[level + 1]

-----------------------------------------------------------------------------
(***************************************************************************)
(* Searching one layer.                                                    *)
(***************************************************************************)

\* CandidateIsBetter: closer to q, ties broken by node id.
IsBetter(ns, q, a, b) ==
  LET da == Distance(q, ns[a].vec)
      db == Distance(q, ns[b].vec)
  IN  da < db \/ (da = db /\ a < b)

Best(ns, q, S) == CHOOSE a \in S : \A b \in S \ {a} : IsBetter(ns, q, a, b)
Worst(ns, q, S) == CHOOSE a \in S : \A b \in S \ {a} : IsBetter(ns, q, b, a)

\* S sorted, best first.
Ranked(ns, q, S) ==
  [i \in 1..Cardinality(S) |->
     CHOOSE a \in S : Cardinality({b \in S : IsBetter(ns, q, b, a)}) = i - 1]

\* The heap of results after a node is offered to it.
Offered(ns, q, ef, visible, near, id) ==
  LET all == IF id \in visible THEN near \cup {id} ELSE near
  IN  IF Cardinality(all) > ef THEN all \ {Worst(ns, q, all)} ELSE all

\* (variant: invisible nodes are not explored)
ReachVisible(ns, q, ef, level, visible, st, id, always) ==
  IF id \in st.visited \/ level > LevelOf(ns, id) \/ id \notin visible THEN st
  ELSE [candidates |-> st.candidates \cup {id},
        near |-> Offered(ns, q, ef, visible, st.near, id),
        visited |-> st.visited \cup {id}]

\* The search reaches a node: an entry point, or a neighbour of an explored node
\* that is worth exploring.  Invisible nodes are explored but never collected.
Reach(ns, q, ef, level, visible, st, id, always) ==
  IF id \in st.visited \/ level > LevelOf(ns, id) THEN st
  ELSE IF \/ always
          \/ Cardinality(st.near) < ef
          \/ IsBetter(ns, q, id, Worst(ns, q, st.near))
       THEN [candidates |-> st.candidates \cup {id},
             near |-> Offered(ns, q, ef, visible, st.near, id),
             visited |-> st.visited \cup {id}]
       ELSE [st EXCEPT !.visited = @ \cup {id}]

RECURSIVE Explore(_, _, _, _, _, _)
Explore(ns, q, ef, level, visible, st) ==
  IF st.candidates = {} THEN st.near
  ELSE LET c == Best(ns, q, st.candidates)
           tooFar == /\ Cardinality(st.near) >= ef
                     /\ Distance(q, ns[c].vec)
                          > Distance(q, ns[Worst(ns, q, st.near)].vec)
           Visit(s, id) == Reach(ns, q, ef, level, visible, s, id, FALSE)
       IN  IF tooFar THEN st.near
           ELSE Explore(ns, q, ef, level, visible,
                        FoldLeft(Visit, [st EXCEPT !.candidates = @ \ {c}],
                                 NeighborsOf(ns, c, level)))

\* The ids found, best first.
SearchLayer(ns, q, entries, ef, level, visible) ==
  LET Enter(s, id) == Reach(ns, q, ef, level, visible, s, id, TRUE)
      start == FoldLeft(Enter, [candidates |-> {}, near |-> {}, visited |-> {}], entries)
  IN  Ranked(ns, q, Explore(ns, q, ef, level, visible, start))

-----------------------------------------------------------------------------
(***************************************************************************)
(* Linking a new node.                                                     *)
(***************************************************************************)

\* Of the candidates, best first, those that are closer to v than to any one
\* chosen before; the others fill up what is left of limit.
SelectNeighbors(ns, v, candidates, limit) ==
  LET Choose(acc, c) ==
        IF \E i \in DOMAIN acc.selected :
             Distance(ns[c].vec, ns[acc.selected[i]].vec) < Distance(v, ns[c].vec)
        THEN [acc EXCEPT !.pruned = Append(@, c)]
        ELSE [acc EXCEPT !.selected = Append(@, c)]
      all == FoldLeft(Choose, [selected |-> <<>>, pruned |-> <<>>], candidates)
      ranked == all.selected \o all.pruned
  IN  IF Len(ranked) <= limit THEN ranked ELSE SubSeq(ranked, 1, limit)

NeighborLimit(level) == IF level = 0 THEN 2 * MaxNeighbors ELSE MaxNeighbors

\* (variant: no pruning)
PruneNothing(ns, id, level) == ns

PruneNeighbors(ns, id, level) ==
  LET links == NeighborsOf(ns, id, level)
      limit == NeighborLimit(level)
      v == ns[id].vec
  IN  IF Len(links) <= limit THEN ns
      ELSE [ns EXCEPT ![id].neighbors[level + 1] =
              SelectNeighbors(ns, v, Ranked(ns, v, ToSet(links)), limit)]

\* The reverse links of id on one level, each followed by pruning.
Connect(ns, id, level) ==
  LET Link(m, n) ==
        IF id \in ToSet(NeighborsOf(m, n, level)) THEN m
        ELSE PruneNeighbors([m EXCEPT ![n].neighbors[level + 1] = Append(@, id)], n, level)
  IN  FoldLeft(Link, ns, NeighborsOf(ns, id, level))

\* Greedy descent through the levels above bottom: the entry points for bottom.
Descend(g, q, bottom) ==
  LET levels == [i \in 1..(IF g.top > bottom THEN g.top - bottom ELSE 0) |-> g.top + 1 - i]
      Down(entries, level) ==
        LET found == SearchLayer(g.nodes, q, entries, 1, level, DOMAIN g.nodes)
        IN  IF found = <<>> THEN <<>> ELSE <<found[1]>>
  IN  FoldLeft(Down, <<g.entry>>, levels)

\* The levels that a new node shares with the graph, from the top.
SharedLevels(g, level) ==
  LET first == IF level < g.top THEN level ELSE g.top
  IN  [i \in 1..(first + 1) |-> first + 1 - i]

\* What is found for v on each shared level (found) and linked there (links).
ChosenLinks(g, v, level) ==
  LET ef == IF EfConstruction > MaxNeighbors THEN EfConstruction ELSE MaxNeighbors
      OneLevel(acc, l) ==
        LET found == SearchLayer(g.nodes, v, acc.entries, ef, l, DOMAIN g.nodes)
        IN  [entries |-> found,
             links |-> [acc.links EXCEPT ![l + 1] =
                          SelectNeighbors(g.nodes, v, found, MaxNeighbors)],
             failed |-> acc.failed \/ found = <<>>]
      none == [i \in 1..(level + 1) |-> <<>>]
      start == IF g.top > level THEN Descend(g, v, level) ELSE <<g.entry>>
  IN  FoldLeft(OneLevel, [entries |-> start, links |-> none, failed |-> start = <<>>],
               SharedLevels(g, level))

\* (variant: the newest node is the entry point, whatever its level)
AddNodeAtEntry(g, v, level) ==
  LET id == Len(g.nodes) + 1
      added == Append(g.nodes, [vec |-> v, neighbors |-> ChosenLinks(g, v, level).links])
      ConnectLevel(ns, l) == Connect(ns, id, l)
  IN  [nodes |-> FoldLeft(ConnectLevel, added, SharedLevels(g, level)),
       entry |-> id,
       top   |-> IF level > g.top THEN level ELSE g.top]

AddNode(g, v, level) ==
  LET id == Len(g.nodes) + 1
      added == Append(g.nodes, [vec |-> v, neighbors |-> ChosenLinks(g, v, level).links])
      ConnectLevel(ns, l) == Connect(ns, id, l)
  IN  [nodes |-> FoldLeft(ConnectLevel, added, SharedLevels(g, level)),
       entry |-> IF level > g.top THEN id ELSE g.entry,
       top   |-> IF level > g.top THEN level ELSE g.top]

-----------------------------------------------------------------------------
(***************************************************************************)
(* Searching the graph.                                                    *)
(***************************************************************************)

\* The ids of the at most topK best visible nodes found, best first.
Search(g, q, topK, ef, visible) ==
  IF g.nodes = <<>> \/ topK = 0 THEN <<>>
  ELSE LET found == SearchLayer(g.nodes, q, Descend(g, q, 0),
                                IF topK > ef THEN topK ELSE ef, 0, visible)
       IN  IF Len(found) <= topK THEN found ELSE SubSeq(found, 1, topK)

SearchFails(g, q) == g.nodes # <<>> /\ Descend(g, q, 0) = <<>>
AddNodeFails(g, v, level) == g.nodes # <<>> /\ ChosenLinks(g, v, level).failed

-----------------------------------------------------------------------------
Init == nodes = <<>> /\ entryPoint = 1 /\ maxLevel = -1

\* A node is added; on failure the graph is left as it was.
Add(v, level) ==
  /\ Len(nodes) < MaxNodes
  /\ ~AddNodeFails(Graph, v, level)
  /\ LET g == AddNode(Graph, v, level)
     IN  nodes' = g.nodes /\ entryPoint' = g.entry /\ maxLevel' = g.top

Next == \E v \in Points, level \in 0..MaxLevel : Add(v, level)

Spec == Init /\ [][Next]_vars

-----------------------------------------------------------------------------
(***************************************************************************)
(* Properties.                                                             *)
(***************************************************************************)

\* What HNSWIndex::Load checks of the graph in a file before it accepts it.
LoadAccepts(g) ==
  LET layers == {LevelOf(g.nodes, id) : id \in DOMAIN g.nodes}
  IN  /\ g.nodes = <<>> => g.top = -1
      /\ g.nodes # <<>> => /\ g.entry \in DOMAIN g.nodes
                           /\ g.top \in layers /\ \A l \in layers : l <= g.top
                           /\ LevelOf(g.nodes, g.entry) = g.top
      /\ \A id \in DOMAIN g.nodes : \A l \in 0..LevelOf(g.nodes, id) :
           LET links == NeighborsOf(g.nodes, id, l)
           IN  /\ Len(links) <= NeighborLimit(l)
               /\ \A i, j \in DOMAIN links : i # j => links[i] # links[j]
               /\ \A i \in DOMAIN links : /\ links[i] \in DOMAIN g.nodes \ {id}
                                          /\ LevelOf(g.nodes, links[i]) >= l

\* A graph that insertions built can always be saved and loaded again: neighbours
\* are distinct nodes of the same layer within the degree limit, and the entry
\* point is on the top layer (Load: "does not cover graph layers").
SavedGraphsLoad == LoadAccepts(Graph)

\* Neither an insertion nor a search ever finds a layer without a valid entry
\* ("has no valid layer entry"), whatever was inserted before.
DescentSucceeds ==
  \A q \in Points : /\ ~SearchFails(Graph, q)
                    /\ \A level \in 0..MaxLevel : ~AddNodeFails(Graph, q, level)

\* A search that keeps as many candidates as there are nodes is exact, returning
\* the visible nodes (all, or a single one) in order, as long as no node can have
\* lost a link of layer 0 to pruning: every node is linked, and invisible ones
\* still lead to visible ones (HNSWNodeVisibility: "Traversal is unaffected").
WideSearchIsExact ==
  Len(nodes) <= NeighborLimit(0) + 1 =>
    \A q \in Points, visible \in {DOMAIN nodes} \cup {{n} : n \in DOMAIN nodes} :
      Search(Graph, q, Len(nodes), Len(nodes), visible) = Ranked(nodes, q, visible)
=============================================================================
