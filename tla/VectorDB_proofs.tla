-------------------------- MODULE VectorDB_proofs ---------------------------
(***************************************************************************)
(* The safety properties of the vector extension, for any number of        *)
(* threads, keys, vectors, snapshots, batches, saves, I/O errors and power *)
(* failures.                                                               *)
(*                                                                         *)
(* Those of VectorDB are about what one call may rely on while other calls *)
(* run, so the inductive invariant says who holds coordination_mu_ at each *)
(* point of a call, and what each point of a call knows of the variables   *)
(* that the mutex guards.  Those of IndexFiles are about an index and the  *)
(* file it is saved to: the files under the path are synced before they    *)
(* are named there, and an index that is changed, saved, loaded or merged  *)
(* keeps one version per node and one state per version.                   *)
(***************************************************************************)
EXTENDS VectorDB, IndexFiles, TLAPS

WF == INSTANCE WellFoundedInduction

-----------------------------------------------------------------------------
(***************************************************************************)
(* IndexFiles: the inductive invariant.                                    *)
(***************************************************************************)
NodeRecords == [key : Keys, vec : Vectors]
VersionRecords == [key : Keys, seq : Nat, deleted : BOOLEAN, id : Nat]
EntryRecords == [key : Keys, seq : Nat, deleted : BOOLEAN, vec : Vectors \cup {"none"}]

\* One state per version, and the nodes are, one to one, the versions that are not
\* deletions.  (A deletion has no node; its id is 0 here.)
Fits(img) ==
  /\ \A v, w \in img.versions : v.key = w.key /\ v.seq = w.seq => v = w
  /\ \A v \in img.versions :
       ~v.deleted => v.id \in DOMAIN img.graph /\ img.graph[v.id].key = v.key
  /\ \A v, w \in img.versions : ~v.deleted /\ ~w.deleted /\ v.id = w.id => v = w
  /\ \A id \in DOMAIN img.graph : \E v \in img.versions : ~v.deleted /\ v.id = id
  /\ \A v \in img.versions : v.deleted => v.id = 0

ImageOK(img) ==
  /\ img = [graph |-> img.graph, versions |-> img.versions]
  /\ img.graph \in Seq(NodeRecords)
  /\ img.versions \subseteq VersionRecords
  /\ Fits(img)

FileOK(f) ==
  /\ f = [kind |-> f.kind, num |-> f.num, synced |-> f.synced, image |-> f.image]
  /\ f.kind \in {"none", "whole"} /\ f.num \in Nat /\ f.synced \in BOOLEAN
  /\ f.num <= saves
  /\ f.kind = "whole" => ImageOK(f.image)

\* What is named has been synced, and since the first Save that returned OK it is a
\* whole index of that Save or of a later one.
NamesInv ==
  /\ path \in names
  /\ \A f \in names : FileOK(f) /\ f.synced
  /\ acked > 0 => \A f \in names : f.kind = "whole" /\ f.num >= acked

SaverInv ==
  /\ saver.pc \in {"idle", "write", "sync", "rename", "directory"}
  /\ saver.pc # "idle" => /\ FileOK(saver.file)
                          /\ saver.file.kind = "whole" /\ saver.file.num = saves
  /\ saver.pc \in {"rename", "directory"} => saver.file.synced
  /\ saver.pc = "directory" => path = saver.file

MergerInv ==
  /\ merger.pc \in {"idle", "run"}
  /\ merger.pc = "idle" => merger = IdleMerger
  /\ merger.all \subseteq EntryRecords /\ merger.todo \subseteq merger.all
  /\ merger = [pc |-> merger.pc, all |-> merger.all, todo |-> merger.todo]
  /\ \A e \in merger.all : IF e.deleted THEN e.vec = "none" ELSE e.vec \in Vectors
  /\ MergeTakesAll

CountsInv == /\ saves \in Nat /\ acked \in 0..saves
             /\ ioErrors \in Nat /\ crashes \in Nat

IndexInv ==
  /\ ImageOK(Image)
  /\ CountsInv /\ NamesInv /\ SaverInv /\ MergerInv

-----------------------------------------------------------------------------
(***************************************************************************)
(* IndexFiles: the shape of an index.                                      *)
(***************************************************************************)

\* What the shape of the image says about the variables.
LEMMA ImageFacts ==
  /\ ImageOK(Image) <=>
       /\ graph \in Seq(NodeRecords) /\ versions \subseteq VersionRecords
       /\ \A v, w \in versions : v.key = w.key /\ v.seq = w.seq => v = w
       /\ \A v \in versions : ~v.deleted => v.id \in DOMAIN graph /\ graph[v.id].key = v.key
       /\ \A v, w \in versions : ~v.deleted /\ ~w.deleted /\ v.id = w.id => v = w
       /\ \A id \in DOMAIN graph : \E v \in versions : ~v.deleted /\ v.id = id
       /\ \A v \in versions : v.deleted => v.id = 0
  /\ ImageOK(Image)' <=>
       /\ graph' \in Seq(NodeRecords) /\ versions' \subseteq VersionRecords
       /\ \A v, w \in versions' : v.key = w.key /\ v.seq = w.seq => v = w
       /\ \A v \in versions' : ~v.deleted => v.id \in DOMAIN graph' /\ graph'[v.id].key = v.key
       /\ \A v, w \in versions' : ~v.deleted /\ ~w.deleted /\ v.id = w.id => v = w
       /\ \A id \in DOMAIN graph' : \E v \in versions' : ~v.deleted /\ v.id = id
       /\ \A v \in versions' : v.deleted => v.id = 0
<1>1. Image.graph = graph /\ Image.versions = versions
  BY DEF Image
<1>2. Image'.graph = graph' /\ Image'.versions = versions'
  BY DEF Image
<1>3. /\ Image = [graph |-> Image.graph, versions |-> Image.versions]
      /\ Image' = [graph |-> Image'.graph, versions |-> Image'.versions]
  BY <1>1, <1>2 DEF Image
<1> QED BY <1>1, <1>2, <1>3, Zenon DEF ImageOK, Fits

-----------------------------------------------------------------------------
(***************************************************************************)
(* IndexFiles: the steps and the theorems.                                 *)
(***************************************************************************)

\* An image in shape is what Save and Load demand.
LEMMA FitsIsEnough ==
  ASSUME NEW img, ImageOK(img) PROVE VersionsFit(img)
<1> USE Zenon
<1> SUFFICES ASSUME NEW id \in DOMAIN img.graph
             PROVE  \E v \in img.versions :
                      {w \in img.versions : ~w.deleted /\ w.id = id} = {v}
  BY DEF VersionsFit, ImageOK, Fits
<1>1. PICK v \in img.versions : ~v.deleted /\ v.id = id
  BY DEF ImageOK, Fits
<1>2. \A w \in img.versions : ~w.deleted /\ w.id = id => w = v
  BY <1>1 DEF ImageOK, Fits
<1>3. {w \in img.versions : ~w.deleted /\ w.id = id} = {v}
  BY <1>1, <1>2, SMT
<1> QED BY <1>3

\* The versions that a search at s sees: the last of their key up to s, and no deletion.
Seen(s) ==
  {v \in versions :
     /\ ~v.deleted /\ v.seq <= s
     /\ \A w \in versions : w.key = v.key /\ w.seq <= s => w.seq <= v.seq}

\* The nodes that are visible by their ids are those that the versions determine.
LEMMA IdsFollowVersions ==
  ASSUME ImageOK(Image), NEW s \in Nat
  PROVE  {[key |-> graph[id].key, vec |-> graph[id].vec] :
            id \in {n \in DOMAIN graph : NodeIsVisible(n, s)}}
           = {[key |-> n.key, vec |-> n.vec] : n \in Visible(Abstract, s)}
\* The index as HNSWIndex has it, field by field.
<1>AbstractFields.
  /\ Abstract.nodes = {[key |-> v.key, seq |-> v.seq, vec |-> graph[v.id].vec] :
                         v \in {w \in versions : ~w.deleted}}
  /\ \A k \in Keys : Abstract.versions[k] = {[seq |-> v.seq, deleted |-> v.deleted] :
                                               v \in {w \in versions : w.key = k}}
  <2>1. Abstract.versions = [k \in Keys |-> {[seq |-> v.seq, deleted |-> v.deleted] :
                                               v \in {w \in versions : w.key = k}}]
    BY DEF Abstract
  <2>2. Abstract.nodes = {[key |-> v.key, seq |-> v.seq, vec |-> graph[v.id].vec] :
                           v \in {w \in versions : ~w.deleted}}
    BY DEF Abstract
  <2> QED BY <2>1, <2>2, Zenon
\* The abstract index shows the nodes of the versions that are seen.
<1>VisibleNodes.
  Visible(Abstract, s) = {[key |-> v.key, seq |-> v.seq, vec |-> graph[v.id].vec] :
                            v \in Seen(s)}
  <2> USE Zenon
  <2> DEFINE Node(v) == [key |-> v.key, seq |-> v.seq, vec |-> graph[v.id].vec]
             State(v) == [seq |-> v.seq, deleted |-> v.deleted]
  <2>0. \A v \in versions : v.key \in Keys /\ v.seq \in Nat /\ v.deleted \in BOOLEAN
    BY ImageFacts, SMT DEF VersionRecords
  <2>1. \A v : Node(v).key = v.key /\ Node(v).seq = v.seq
    BY SMT
  <2>2. \A v : State(v).seq = v.seq /\ State(v).deleted = v.deleted
    BY SMT
  <2>3. \A n : n \in Abstract.nodes <=> \E v \in versions : ~v.deleted /\ n = Node(v)
    BY <1>AbstractFields
  <2>4. ASSUME NEW k \in Keys, NEW x
        PROVE  x \in Abstract.versions[k] <=> \E v \in versions : v.key = k /\ x = State(v)
    <3>1. Abstract.versions[k] = {State(v) : v \in {w \in versions : w.key = k}}
      BY <1>AbstractFields
    <3> HIDE DEF State
    <3> QED BY <3>1, SMT
  <2> HIDE DEF Node, State
  <2>5. ASSUME NEW v \in Seen(s) PROVE Node(v) \in Visible(Abstract, s)
    <3>1. /\ v \in versions /\ ~v.deleted /\ v.seq <= s
          /\ \A w \in versions : w.key = v.key /\ w.seq <= s => w.seq <= v.seq
      BY <2>5 DEF Seen
    <3>2. State(v) \in Abstract.versions[v.key]
      BY <2>0, <2>4, <3>1
    <3>3. ASSUME NEW x \in Abstract.versions[v.key], x.seq <= s PROVE x.seq <= v.seq
      <4>0. v.key \in Keys
        BY <2>0, <3>1
      <4>1. PICK w \in versions : w.key = v.key /\ x = State(w)
        BY <2>4, <3>3, <4>0
      <4>2. x.seq = w.seq
        BY <4>1, <2>2
      <4> QED BY <3>1, <3>3, <4>1, <4>2
    <3>4. State(v) \in VisibleVersions(Abstract, v.key, s)
      BY <2>2, <3>1, <3>2, <3>3 DEF VisibleVersions
    <3>5. IsVisibleAt(Abstract, Node(v), s)
      <4>1. Node(v).key = v.key /\ State(v).seq = Node(v).seq /\ ~State(v).deleted
        BY <2>1, <2>2, <3>1
      <4> QED BY <3>4, <4>1 DEF IsVisibleAt
    <3> QED BY <2>3, <3>1, <3>5 DEF Visible
  <2>6. ASSUME NEW n \in Visible(Abstract, s) PROVE \E v \in Seen(s) : n = Node(v)
    <3>1. n \in Abstract.nodes /\ IsVisibleAt(Abstract, n, s)
      BY <2>6 DEF Visible
    <3>2. PICK v \in versions : ~v.deleted /\ n = Node(v)
      BY <2>3, <3>1
    <3>3. n.key = v.key /\ n.seq = v.seq
      BY <2>1, <3>2
    <3>4. PICK x \in VisibleVersions(Abstract, v.key, s) : ~x.deleted /\ x.seq = v.seq
      BY <3>1, <3>3 DEF IsVisibleAt
    <3>5. /\ x.seq <= s
          /\ \A y \in Abstract.versions[v.key] : y.seq <= s => y.seq <= x.seq
      BY <3>4 DEF VisibleVersions
    <3>6. ASSUME NEW w \in versions, w.key = v.key, w.seq <= s PROVE w.seq <= v.seq
      <4>1. State(w) \in Abstract.versions[v.key] /\ State(w).seq = w.seq
        BY <2>0, <2>2, <2>4, <3>6
      <4> QED BY <3>4, <3>5, <3>6, <4>1
    <3>7. v \in Seen(s)
      BY <3>2, <3>4, <3>5, <3>6 DEF Seen
    <3> QED BY <3>2, <3>7
  <2>7. Visible(Abstract, s) = {Node(v) : v \in Seen(s)}
    BY <2>5, <2>6
  <2> QED BY <2>7 DEF Node
\* A node is visible exactly when its version is seen.
<1>VisibleIds.
  /\ \A v \in Seen(s) : v.id \in DOMAIN graph /\ NodeIsVisible(v.id, s)
                        /\ graph[v.id].key = v.key
  /\ \A id \in DOMAIN graph : NodeIsVisible(id, s) => \E v \in Seen(s) : v.id = id
  <2> USE Zenon
  <2>1. ASSUME NEW v \in Seen(s)
        PROVE  v.id \in DOMAIN graph /\ NodeIsVisible(v.id, s) /\ graph[v.id].key = v.key
    <3>1. v \in versions /\ ~v.deleted
      BY <2>1 DEF Seen
    <3>2. v.id \in DOMAIN graph /\ graph[v.id].key = v.key
      BY <3>1, ImageFacts
    <3>3. NodeIsVisible(v.id, s)
      BY <2>1, <3>2 DEF Seen, NodeIsVisible
    <3> QED BY <3>2, <3>3, SMT
  <2>2. ASSUME NEW id \in DOMAIN graph, NodeIsVisible(id, s) PROVE \E v \in Seen(s) : v.id = id
    BY <2>2 DEF NodeIsVisible, Seen
  <2> QED BY <2>1, <2>2
<1> USE Zenon
<1> DEFINE Node(v) == [key |-> v.key, seq |-> v.seq, vec |-> graph[v.id].vec]
           Pair(v) == [key |-> v.key, vec |-> graph[v.id].vec]
           ById(id) == [key |-> graph[id].key, vec |-> graph[id].vec]
           OfNode(n) == [key |-> n.key, vec |-> n.vec]
           ids == {n \in DOMAIN graph : NodeIsVisible(n, s)}
<1>1. \A v : OfNode(Node(v)) = Pair(v)
  BY SMT
<1>2. \A v \in Seen(s) : v.id \in ids /\ ById(v.id) = Pair(v)
  BY <1>VisibleIds
<1>3. \A id \in ids : \E v \in Seen(s) : v.id = id
  BY <1>VisibleIds
<1>4. Visible(Abstract, s) = {Node(v) : v \in Seen(s)}
  BY <1>VisibleNodes
<1> HIDE DEF Node, Pair, ById, OfNode, ids
<1>5. {ById(id) : id \in ids} = {Pair(v) : v \in Seen(s)}
  <2>1. \A id \in ids : \E v \in Seen(s) : ById(id) = Pair(v)
    BY <1>2, <1>3
  <2>2. \A v \in Seen(s) : \E id \in ids : ById(id) = Pair(v)
    BY <1>2
  <2> QED BY <2>1, <2>2, SMT
<1>6. {OfNode(n) : n \in Visible(Abstract, s)} = {Pair(v) : v \in Seen(s)}
  BY <1>1, <1>4
<1>7. {ById(id) : id \in ids} = {OfNode(n) : n \in Visible(Abstract, s)}
  BY <1>5, <1>6
<1> QED BY <1>7 DEF ById, OfNode, ids

\* Every step keeps the invariant, and every entry unless it loads an index or is a
\* power failure.
LEMMA NextKeeps ==
  ASSUME IndexInv, [IndexNext]_fileVars
  PROVE  /\ IndexInv'
         /\ Entries(Image) \subseteq Entries(Image') \/ Image' = path.image \/ crashes' > crashes
\* An insertion that is not refused keeps the image in shape: a new version gets the
\* next node.
<1>InsertKeepsImage.
  ASSUME NEW k \in Keys, NEW s \in Nat, NEW vec \in Vectors,
         ImageOK(Image), InsertsVersion(k, s, vec)
  PROVE  ImageOK(Image)'
  <2> USE <1>InsertKeepsImage
  <2> USE Zenon
  <2>1. CASE UNCHANGED <<graph, versions>>
    BY <2>1, ImageFacts
  <2>2. CASE /\ At(k, s) = {}
             /\ graph' = Append(graph, [key |-> k, vec |-> vec])
             /\ versions' = versions \cup {[key |-> k, seq |-> s, deleted |-> FALSE,
                                            id |-> Len(graph) + 1]}
    <3> DEFINE new == [key |-> k, seq |-> s, deleted |-> FALSE, id |-> Len(graph) + 1]
               node == [key |-> k, vec |-> vec]
    <3>1. graph \in Seq(NodeRecords) /\ versions \subseteq VersionRecords
      BY ImageFacts
    <3>2. /\ graph' \in Seq(NodeRecords) /\ DOMAIN graph = 1..Len(graph) /\ Len(graph) \in Nat
          /\ DOMAIN graph' = 1..(Len(graph) + 1)
          /\ graph'[Len(graph) + 1] = node
          /\ \A id \in DOMAIN graph : graph'[id] = graph[id]
      BY <2>2, <3>1, SMT DEF NodeRecords
    <3>3. /\ new \in VersionRecords /\ new.key = k /\ new.seq = s /\ ~new.deleted
          /\ new.id = Len(graph) + 1 /\ node.key = k
      BY <3>2, SMT DEF VersionRecords
    <3>4. versions' = versions \cup {new} /\ versions' \subseteq VersionRecords
      BY <2>2, <3>1, <3>3
    <3>5. \A v \in versions : ~(v.key = k /\ v.seq = s)
      BY <2>2, SMT DEF At
    <3>6. \A v \in versions : ~v.deleted => v.id \in DOMAIN graph /\ graph[v.id].key = v.key
      BY ImageFacts
    <3>7. \A v \in versions : ~v.deleted => v.id # new.id
      BY <3>2, <3>3, <3>6, SMT
    <3> HIDE DEF new, node
    <3>8. \A v, w \in versions' : v.key = w.key /\ v.seq = w.seq => v = w
      <4>1. \A v, w \in versions : v.key = w.key /\ v.seq = w.seq => v = w
        BY ImageFacts
      <4> QED BY <4>1, <3>3, <3>4, <3>5, SMT
    <3>9. \A v \in versions' : ~v.deleted => v.id \in DOMAIN graph' /\ graph'[v.id].key = v.key
      BY <3>2, <3>3, <3>4, <3>6, SMT
    <3>10. \A v, w \in versions' : ~v.deleted /\ ~w.deleted /\ v.id = w.id => v = w
      BY <3>3, <3>4, <3>7, ImageFacts
    <3>11. \A id \in DOMAIN graph' : \E v \in versions' : ~v.deleted /\ v.id = id
      <4> TAKE id \in DOMAIN graph'
      <4>1. CASE id \in DOMAIN graph
        BY <4>1, <3>4, ImageFacts
      <4>2. CASE id = Len(graph) + 1
        BY <4>2, <3>3, <3>4
      <4> QED BY <4>1, <4>2, <3>2, SMT
    <3>12. \A v \in versions' : v.deleted => v.id = 0
      BY <3>3, <3>4, ImageFacts
    <3> QED BY <3>2, <3>4, <3>8, <3>9, <3>10, <3>11, <3>12, ImageFacts
  <2> QED BY <2>1, <2>2 DEF InsertsVersion
\* A deletion that is not refused keeps the image in shape.
<1>DeleteKeepsImage.
  ASSUME NEW k \in Keys, NEW s \in Nat,
         ImageOK(Image), MarksDeleted(k, s), UNCHANGED graph
  PROVE  ImageOK(Image)'
  <2> USE <1>DeleteKeepsImage
  <2> USE Zenon
  <2> DEFINE new == [key |-> k, seq |-> s, deleted |-> TRUE, id |-> 0]
  <2>1. new \in VersionRecords /\ new.key = k /\ new.seq = s /\ new.deleted /\ new.id = 0
    BY SMT DEF VersionRecords
  <2>2. versions' = versions \cup {new} /\ graph' = graph
    BY SMT DEF MarksDeleted
  <2>3. \A v \in versions : v.key = k /\ v.seq = s => v = new
    <3> TAKE v \in versions
    <3> HAVE v.key = k /\ v.seq = s
    <3>1. v.deleted /\ v.deleted \in BOOLEAN
      BY ImageFacts, SMT DEF MarksDeleted, At, VersionRecords
    <3>2. v \in VersionRecords /\ v.id = 0
      BY <3>1, ImageFacts
    <3> QED BY <3>1, <3>2, SMT DEF VersionRecords
  <2> HIDE DEF new
  <2>4. versions' \subseteq VersionRecords
    BY <2>1, <2>2, ImageFacts
  <2>5. \A v, w \in versions' : v.key = w.key /\ v.seq = w.seq => v = w
    <3>1. \A v, w \in versions : v.key = w.key /\ v.seq = w.seq => v = w
      BY ImageFacts
    <3> QED BY <3>1, <2>1, <2>2, <2>3, SMT
  <2>6. \A v \in versions' : ~v.deleted => v \in versions
    BY <2>1, <2>2
  <2>7. versions \subseteq versions'
    BY <2>2
  <2>8. \A v \in versions' : v.deleted => v.id = 0
    BY <2>1, <2>2, ImageFacts
  <2> QED BY <2>2, <2>4, <2>5, <2>6, <2>7, <2>8, ImageFacts
\* A step that appends to the graph and adds versions keeps every entry.
<1>EntriesStay.
  ASSUME ImageOK(Image), versions \subseteq versions',
         \A id \in DOMAIN graph : graph'[id] = graph[id]
  PROVE  Entries(Image) \subseteq Entries(Image')
  <2> USE <1>EntriesStay
  <2> USE Zenon
  <2>1. Image.graph = graph /\ Image.versions = versions
        /\ Image'.graph = graph' /\ Image'.versions = versions'
    BY SMT DEF Image
  <2> SUFFICES ASSUME NEW v \in versions
               PROVE  Entry(Image, v) \in Entries(Image')
    BY <2>1 DEF Entries
  <2>2. Entry(Image, v) = Entry(Image', v)
    <3>1. CASE v.deleted
      BY <3>1, SMT DEF Entry
    <3>2. CASE ~v.deleted
      <4>1. v.id \in DOMAIN graph
        BY <3>2, ImageFacts
      <4>2. Image.graph[v.id] = Image'.graph[v.id]
        BY <2>1, <4>1
      <4> QED BY <4>2 DEF Entry
    <3> QED BY <3>1, <3>2
  <2> QED BY <2>1, <2>2 DEF Entries
\* An insertion keeps every entry, and the inserted one is there afterwards.
<1>InsertKeepsEntries.
  ASSUME NEW k \in Keys, NEW s \in Nat, NEW vec \in Vectors,
         ImageOK(Image), InsertsVersion(k, s, vec)
  PROVE  /\ Entries(Image) \subseteq Entries(Image')
         /\ [key |-> k, seq |-> s, deleted |-> FALSE, vec |-> vec] \in Entries(Image')
  <2> USE <1>InsertKeepsEntries
  <2> USE Zenon
  <2>1. Image.graph = graph /\ Image.versions = versions
        /\ Image'.graph = graph' /\ Image'.versions = versions'
    BY SMT DEF Image
  <2>2. graph \in Seq(NodeRecords)
    BY ImageFacts
  <2>3. CASE UNCHANGED <<graph, versions>> /\ \E v \in At(k, s) : ~v.deleted /\ graph[v.id].vec = vec
    <3>1. PICK v \in versions : v.key = k /\ v.seq = s /\ ~v.deleted /\ graph[v.id].vec = vec
      BY <2>3, SMT DEF At
    <3>2. v.deleted = FALSE
      BY <3>1, ImageFacts, SMT DEF VersionRecords
    <3>3. Entry(Image', v) = [key |-> k, seq |-> s, deleted |-> FALSE, vec |-> vec]
      BY <2>1, <2>3, <3>1, <3>2 DEF Entry
    <3> QED BY <2>1, <2>3, <3>1, <3>3, <1>EntriesStay DEF Entries
  <2>4. CASE /\ graph' = Append(graph, [key |-> k, vec |-> vec])
             /\ versions' = versions \cup {[key |-> k, seq |-> s, deleted |-> FALSE,
                                            id |-> Len(graph) + 1]}
    <3> DEFINE new == [key |-> k, seq |-> s, deleted |-> FALSE, id |-> Len(graph) + 1]
               node == [key |-> k, vec |-> vec]
    <3>1. /\ \A id \in DOMAIN graph : graph'[id] = graph[id]
          /\ graph'[Len(graph) + 1] = node
      BY <2>2, <2>4, SMT DEF NodeRecords
    <3>2. new.key = k /\ new.seq = s /\ new.deleted = FALSE /\ new.id = Len(graph) + 1
          /\ node.vec = vec
      BY SMT
    <3>3. new \in versions'
      BY <2>4
    <3> HIDE DEF new, node
    <3>4. Entry(Image', new) = [key |-> k, seq |-> s, deleted |-> FALSE, vec |-> vec]
      BY <2>1, <3>1, <3>2 DEF Entry
    <3>5. versions \subseteq versions'
      BY <2>4
    <3> QED BY <2>1, <3>1, <3>3, <3>4, <3>5, <1>EntriesStay DEF Entries
  <2> QED BY <2>3, <2>4 DEF InsertsVersion
\* A deletion keeps every entry, and is there afterwards.
<1>DeleteKeepsEntries.
  ASSUME NEW k \in Keys, NEW s \in Nat,
         ImageOK(Image), MarksDeleted(k, s), UNCHANGED graph
  PROVE  /\ Entries(Image) \subseteq Entries(Image')
         /\ [key |-> k, seq |-> s, deleted |-> TRUE, vec |-> "none"] \in Entries(Image')
  <2> USE <1>DeleteKeepsEntries
  <2> USE Zenon
  <2>1. Image.graph = graph /\ Image.versions = versions
        /\ Image'.graph = graph' /\ Image'.versions = versions'
    BY SMT DEF Image
  <2> DEFINE new == [key |-> k, seq |-> s, deleted |-> TRUE, id |-> 0]
  <2>2. new.key = k /\ new.seq = s /\ new.deleted = TRUE
    BY SMT
  <2>3. versions' = versions \cup {new}
    BY SMT DEF MarksDeleted
  <2> HIDE DEF new
  <2>4. Entry(Image', new) = [key |-> k, seq |-> s, deleted |-> TRUE, vec |-> "none"]
    BY <2>2 DEF Entry
  <2>5. new \in versions' /\ versions \subseteq versions'
    BY <2>3
  <2> QED BY <2>1, <2>4, <2>5, <1>EntriesStay DEF Entries
\* A step that changes only the index, and loses no entry of it, keeps the invariant.
<1>IndexStep.
  ASSUME IndexInv, ImageOK(Image)', Entries(Image) \subseteq Entries(Image'),
         UNCHANGED <<path, names, saver, merger, saves, acked, ioErrors, crashes>>
  PROVE  IndexInv'
  <2> USE <1>IndexStep
  <2> USE Zenon
  <2>1. NamesInv' /\ CountsInv'
    BY DEF IndexInv, NamesInv, CountsInv, FileOK
  <2>2. SaverInv'
    BY DEF IndexInv, SaverInv, FileOK
  <2>3. MergerInv'
    BY DEF IndexInv, MergerInv, MergeTakesAll
  <2> QED BY <2>1, <2>2, <2>3 DEF IndexInv
\* Insert, InsertVersion and MarkDeleted keep the invariant and every entry.
<1>ChangeSteps.
  ASSUME IndexInv, NEW k \in Keys,
         \/ \E vec \in Vectors : Insert(k, vec)
         \/ \E s \in SeqNumbers, vec \in Vectors : InsertVersion(k, s, vec)
         \/ \E s \in SeqNumbers : MarksKeyDeleted(k, s)
  PROVE  IndexInv' /\ Entries(Image) \subseteq Entries(Image')
  <2> USE <1>ChangeSteps
  <2> USE Zenon
  <2>1. ImageOK(Image)
    BY DEF IndexInv
  <2>2. ASSUME NEW s \in Nat, NEW vec \in Vectors, InsertsVersion(k, s, vec),
               UNCHANGED <<path, names, saver, merger, saves, acked, ioErrors, crashes>>
        PROVE  IndexInv' /\ Entries(Image) \subseteq Entries(Image')
    BY <2>1, <2>2, <1>InsertKeepsImage, <1>InsertKeepsEntries, <1>IndexStep
  <2>3. ASSUME NEW s \in Nat, MarksDeleted(k, s), UNCHANGED graph,
               UNCHANGED <<path, names, saver, merger, saves, acked, ioErrors, crashes>>
        PROVE  IndexInv' /\ Entries(Image) \subseteq Entries(Image')
    BY <2>1, <2>3, <1>DeleteKeepsImage, <1>DeleteKeepsEntries, <1>IndexStep
  <2>4. 0 \in Nat /\ SeqNumbers \subseteq Nat
    BY SeqNumbersArePositive, SMT
  <2>5. CASE \E vec \in Vectors : Insert(k, vec)
    BY <2>2, <2>4, <2>5 DEF Insert
  <2>6. CASE \E s \in SeqNumbers, vec \in Vectors : InsertVersion(k, s, vec)
    BY <2>2, <2>4, <2>6 DEF InsertVersion
  <2>7. CASE \E s \in SeqNumbers : MarksKeyDeleted(k, s)
    BY <2>3, <2>4, <2>7 DEF MarksKeyDeleted
  <2> QED BY <2>5, <2>6, <2>7
\* The entries of an image in shape are what a merge can insert.
<1>EntriesAreTyped.
  ASSUME NEW img, ImageOK(img), NEW e \in Entries(img)
  PROVE  e \in EntryRecords /\ IF e.deleted THEN e.vec = "none" ELSE e.vec \in Vectors
  <2> USE <1>EntriesAreTyped
  <2> USE Zenon
  <2>1. PICK v \in img.versions : e = Entry(img, v)
    BY DEF Entries
  <2>2. v \in VersionRecords /\ img.graph \in Seq(NodeRecords)
        /\ (~v.deleted => v.id \in DOMAIN img.graph)
    BY DEF ImageOK, Fits
  <2>3. ~v.deleted => img.graph[v.id].vec \in Vectors
    <3>1. \A S : \A g \in Seq(S) : \A i \in DOMAIN g : g[i] \in S
      BY SMT
    <3>2. \A n \in NodeRecords : n.vec \in Vectors
      BY SMT DEF NodeRecords
    <3> QED BY <2>2, <3>1, <3>2
  <2> DEFINE x == IF v.deleted THEN "none" ELSE img.graph[v.id].vec
  <2>4. x \in Vectors \cup {"none"} /\ IF v.deleted THEN x = "none" ELSE x \in Vectors
    BY <2>3, SMT
  <2> HIDE DEF x
  <2>5. e = [key |-> v.key, seq |-> v.seq, deleted |-> v.deleted, vec |-> x]
    BY <2>1 DEF Entry, x
  <2> QED BY <2>2, <2>4, <2>5, SMT DEF EntryRecords, VersionRecords
\* A file stays in order when Saves are counted.
<1>FileStays.
  ASSUME NEW f, FileOK(f), saves \in Nat, saves' \in Nat, saves <= saves'
  PROVE  FileOK(f)'
  <2> USE <1>FileStays
  <2>1. f.num \in Nat /\ f.num <= saves'
    BY DEF FileOK
  <2> QED BY <2>1, Zenon DEF FileOK
\* A step that leaves the index, the path and the merger alone keeps what is said of them.
<1>SaverKeeps.
  ASSUME IndexInv, UNCHANGED <<graph, versions, merger>>
  PROVE  /\ ImageOK(Image)' /\ MergerInv'
         /\ UNCHANGED <<path, names, saves, acked>> => NamesInv'
         /\ UNCHANGED <<saves, acked, ioErrors, crashes>> => CountsInv'
  <2> USE <1>SaverKeeps
  <2> USE Zenon
  <2>1. Image' = Image
    BY SMT DEF Image
  <2>2. Entries(Image)' = Entries(Image)
    BY <2>1 DEF Entries, Entry
  <2>3. ImageOK(Image)'
    BY <2>1 DEF IndexInv, ImageOK, Fits
  <2>4. MergerInv'
    BY <2>2 DEF IndexInv, MergerInv, MergeTakesAll
  <2>5. UNCHANGED <<path, names, saves, acked>> => NamesInv'
    BY DEF IndexInv, NamesInv, FileOK
  <2>6. UNCHANGED <<saves, acked, ioErrors, crashes>> => CountsInv'
    BY DEF IndexInv, CountsInv
  <2> QED BY <2>3, <2>4, <2>5, <2>6
\* The steps of a Save, and its failure.
<1>SaveStepsKeep.
  ASSUME IndexInv, SaveSteps PROVE IndexInv' /\ UNCHANGED <<graph, versions, crashes>>
  <2> USE <1>SaveStepsKeep
  <2> USE Zenon
  <2>0. /\ CountsInv /\ NamesInv /\ SaverInv /\ ImageOK(Image)
        /\ UNCHANGED <<graph, versions, merger, crashes>>
    BY DEF IndexInv, SaveSteps, SaveBegins, SaveWrites, SaveSyncs, SaveRenames, SaveReturns,
         SaveFails
  <2>1. ImageOK(Image)' /\ MergerInv'
    BY <2>0, <1>SaverKeeps
  <2>2. CASE SaveBegins
    <3>1. saves \in Nat /\ saves' = saves + 1 /\ acked \in 0..saves
      BY <2>0, <2>2, SMT DEF CountsInv, SaveBegins
    <3>2. PICK f : f = [kind |-> "whole", num |-> saves + 1, synced |-> FALSE, image |-> Image]
      OBVIOUS
    <3>3. saver' = [pc |-> "write", file |-> f]
      BY <2>2, <3>2 DEF SaveBegins
    <3>4. /\ f.kind = "whole" /\ f.num = saves' /\ f.num \in Nat
          /\ f.synced \in BOOLEAN /\ f.image = Image
          /\ f = [kind |-> f.kind, num |-> f.num, synced |-> f.synced, image |-> f.image]
      BY <3>1, <3>2, SMT
    <3>5. CountsInv'
      BY <2>0, <2>2, <3>1, SMT DEF CountsInv, SaveBegins
    <3>6. NamesInv'
      <4>1. \A g \in names : FileOK(g)'
        BY <2>0, <3>1, <1>FileStays, SMT DEF NamesInv
      <4> QED BY <2>0, <2>2, <4>1 DEF NamesInv, SaveBegins
    <3>7. FileOK(f)'
      <4>1. f.num <= saves'
        BY <3>1, <3>4, SMT
      <4> QED BY <2>0, <3>4, <4>1 DEF FileOK
    <3>8. saver'.pc = "write" /\ saver'.file = f
      BY <3>3, SMT
    <3>9. SaverInv'
      BY <3>4, <3>7, <3>8 DEF SaverInv
    <3> QED BY <2>1, <3>5, <3>6, <3>9, <2>0 DEF IndexInv
  <2>3. CASE SaveWrites
    <3>1. NamesInv' /\ CountsInv'
      BY <2>0, <2>3, <1>SaverKeeps DEF SaveWrites
    <3>2. saver'.pc = "sync" /\ saver'.file = saver.file
      BY <2>0, <2>3, SMT DEF SaveWrites, SaveStep, SaverInv
    <3>3. SaverInv'
      BY <2>0, <2>3, <3>2 DEF SaverInv, FileOK, SaveWrites, SaveStep
    <3> QED BY <2>0, <2>1, <3>1, <3>3 DEF IndexInv
  <2>4. CASE SaveSyncs
    <3>1. NamesInv' /\ CountsInv'
      BY <2>0, <2>4, <1>SaverKeeps DEF SaveSyncs
    <3>2. FileOK(saver.file) /\ saver.file.kind = "whole" /\ saver.file.num = saves
      BY <2>0, <2>4 DEF SaverInv, SaveSyncs
    <3>3. PICK f : f = [saver.file EXCEPT !.synced = TRUE]
      OBVIOUS
    <3>4. f = [kind |-> saver.file.kind, num |-> saver.file.num, synced |-> TRUE,
               image |-> saver.file.image]
      <4>1. saver.file = [kind |-> saver.file.kind, num |-> saver.file.num,
                          synced |-> saver.file.synced, image |-> saver.file.image]
            /\ saver.file.synced \in BOOLEAN
        BY <3>2 DEF FileOK
      <4> QED BY <3>3, <4>1
    <3>5. /\ f.kind = "whole" /\ f.num = saves /\ f.synced = TRUE /\ f.image = saver.file.image
          /\ f = [kind |-> f.kind, num |-> f.num, synced |-> f.synced, image |-> f.image]
      BY <3>2, <3>4, SMT
    <3>6. saver'.pc = "rename" /\ saver'.file = f
      BY <2>4, <3>3, SMT DEF SaveSyncs
    <3>7. saves' = saves /\ saves \in Nat /\ saves <= saves
      BY <2>0, <2>4, SMT DEF SaveSyncs, CountsInv
    <3>8. FileOK(f)'
      BY <3>2, <3>5, <3>7 DEF FileOK
    <3>9. SaverInv'
      BY <3>5, <3>6, <3>7, <3>8 DEF SaverInv
    <3> QED BY <2>0, <2>1, <3>1, <3>9 DEF IndexInv
  <2>5. CASE SaveRenames
    <3> USE <2>5 DEF SaveRenames, SaveStep
    <3>1. CountsInv'
      BY <2>0, <1>SaverKeeps
    <3>2. /\ FileOK(saver.file) /\ saver.file.kind = "whole" /\ saver.file.num = saves
          /\ saver.file.synced
      BY <2>0 DEF SaverInv
    <3>3. saver'.pc = "directory" /\ saver'.file = saver.file
      BY <2>0, SMT DEF SaverInv
    <3>4. saves' = saves /\ acked' = acked /\ saver.file.num >= acked
      BY <2>0, <3>2, SMT DEF CountsInv
    <3>5. \A f : FileOK(f) => FileOK(f)'
      BY <3>4 DEF FileOK
    <3>6. names' = names \cup {saver.file} /\ path' = saver.file
      BY SMT
    <3>7. NamesInv'
      BY <2>0, <3>2, <3>4, <3>5, <3>6 DEF NamesInv
    <3>8. SaverInv'
      BY <3>2, <3>3, <3>4, <3>5, <3>6 DEF SaverInv
    <3> QED BY <2>0, <2>1, <3>1, <3>7, <3>8 DEF IndexInv
  <2>6. CASE SaveReturns
    <3> USE <2>6 DEF SaveReturns
    <3>1. FileOK(path) /\ path.kind = "whole" /\ path.num = saves /\ path.synced
      BY <2>0 DEF SaverInv
    <3>2. saves' = saves /\ acked' = path.num /\ acked' \in 0..saves' /\ path.num >= acked'
      BY <2>0, <3>1, SMT DEF CountsInv
    <3>3. CountsInv'
      BY <2>0, <3>2 DEF CountsInv
    <3>4. \A f : FileOK(f) => FileOK(f)'
      BY <3>2 DEF FileOK
    <3>5. NamesInv'
      BY <3>1, <3>2, <3>4 DEF NamesInv
    <3>6. saver'.pc = "idle"
      BY SMT DEF IdleSaver
    <3>7. SaverInv'
      BY <3>6, SMT DEF SaverInv
    <3> QED BY <2>0, <2>1, <3>3, <3>5, <3>7 DEF IndexInv
  <2>7. CASE SaveFails
    <3> USE <2>7 DEF SaveFails
    <3>1. NamesInv'
      BY <2>0, <1>SaverKeeps
    <3>2. CountsInv'
      BY <2>0, SMT DEF CountsInv
    <3>3. saver'.pc = "idle"
      BY SMT DEF IdleSaver
    <3>4. SaverInv'
      BY <3>3, SMT DEF SaverInv
    <3> QED BY <2>0, <2>1, <3>1, <3>2, <3>4 DEF IndexInv
  <2> QED BY <2>2, <2>3, <2>4, <2>5, <2>6, <2>7 DEF SaveSteps
\* Load takes over an image in shape; no merge runs.
<1>LoadStep.
  ASSUME IndexInv, Load PROVE IndexInv' /\ Image' = path.image
  <2> USE <1>LoadStep
  <2> USE Zenon
  <2>1. path.kind = "whole" /\ FileOK(path)
    BY DEF Load, Loads, IndexInv, NamesInv
  <2>2. ImageOK(path.image)
    BY <2>1 DEF FileOK
  <2>3. graph' = path.image.graph /\ versions' = path.image.versions
    BY SMT DEF Load
  <2>4. ImageOK(Image)'
    BY <2>2, <2>3, ImageFacts DEF ImageOK, Fits
  <2>5. merger' = IdleMerger
    BY DEF Load, IndexInv, MergerInv
  <2>6. /\ IdleMerger.pc = "idle" /\ IdleMerger.all = {} /\ IdleMerger.todo = {}
        /\ IdleMerger = [pc |-> IdleMerger.pc, all |-> IdleMerger.all, todo |-> IdleMerger.todo]
    BY SMT DEF IdleMerger
  <2>7. MergerInv'
    BY <2>5, <2>6, SMT DEF MergerInv, MergeTakesAll
  <2>8. CountsInv' /\ NamesInv'
    BY DEF Load, IndexInv, CountsInv, NamesInv, FileOK
  <2>9. SaverInv'
    BY DEF Load, IndexInv, SaverInv, FileOK
  <2>10. Image' = path.image
    BY <2>2, <2>3 DEF ImageOK, Image
  <2> QED BY <2>4, <2>7, <2>8, <2>9, <2>10 DEF IndexInv
\* The steps of a MergeFrom keep the invariant and every entry.
<1>MergeSteps.
  ASSUME IndexInv, MergeBegins \/ MergeInserts \/ MergeReturns
  PROVE  IndexInv' /\ Entries(Image) \subseteq Entries(Image')
  <2> USE <1>MergeSteps
  <2> USE Zenon
  <2>0. CountsInv' /\ NamesInv'
    BY DEF MergeBegins, MergeInserts, MergeReturns, IndexInv, CountsInv, NamesInv, FileOK
  <2>1. SaverInv'
    BY DEF MergeBegins, MergeInserts, MergeReturns, IndexInv, SaverInv, FileOK
  <2>2. CASE MergeBegins
    <3>1. Image' = Image
      BY <2>2, SMT DEF MergeBegins, Image
    <3>2. ImageOK(Image)' /\ Entries(Image') = Entries(Image)
      BY <3>1 DEF IndexInv, ImageOK, Fits
    <3>3. ImageOK(path.image)
      BY <2>2 DEF MergeBegins, Loads, IndexInv, NamesInv, FileOK
    <3>4. /\ merger'.pc = "run" /\ merger'.all = Entries(path.image)
          /\ merger'.todo = Entries(path.image)
          /\ merger' = [pc |-> merger'.pc, all |-> merger'.all, todo |-> merger'.todo]
      BY <2>2, SMT DEF MergeBegins
    <3>5. \A e \in Entries(path.image) : e \in EntryRecords /\ IF e.deleted THEN e.vec = "none" ELSE e.vec \in Vectors
      BY <3>3, <1>EntriesAreTyped
    <3>6. MergerInv'
      BY <3>4, <3>5, SMT DEF MergerInv, MergeTakesAll
    <3> QED BY <2>0, <2>1, <3>2, <3>6 DEF IndexInv
  <2>3. CASE MergeInserts
    <3>1. PICK e \in MergeNext : MergesEntry(e) /\ merger' = [merger EXCEPT !.todo = @ \ {e}]
      BY <2>3 DEF MergeInserts
    <3>2. e \in merger.todo /\ e \in merger.all
      BY <3>1, SMT DEF MergeNext, IndexInv, MergerInv
    <3>3. e \in EntryRecords /\ IF e.deleted THEN e.vec = "none" ELSE e.vec \in Vectors
      BY <3>2 DEF IndexInv, MergerInv
    <3>4. e.key \in Keys /\ e.seq \in Nat /\ e.deleted \in BOOLEAN
      BY <3>3, SMT DEF EntryRecords
    <3>5. ImageOK(Image)
      BY DEF IndexInv
    <3>6. ImageOK(Image)' /\ Entries(Image) \subseteq Entries(Image')
      BY <3>1, <3>3, <3>4, <3>5, <1>InsertKeepsImage, <1>InsertKeepsEntries, <1>DeleteKeepsImage,
           <1>DeleteKeepsEntries DEF MergesEntry
    <3>7. e \in Entries(Image')
      <4>1. e = [key |-> e.key, seq |-> e.seq, deleted |-> e.deleted, vec |-> e.vec]
        BY <3>3, SMT DEF EntryRecords
      <4>2. CASE e.deleted
        <5>1. e.deleted = TRUE /\ e.vec = "none"
          BY <3>3, <3>4, <4>2, SMT
        <5>2. MarksDeleted(e.key, e.seq) /\ UNCHANGED graph
          BY <3>1, <4>2 DEF MergesEntry
        <5>3. [key |-> e.key, seq |-> e.seq, deleted |-> TRUE, vec |-> "none"] \in Entries(Image')
          BY <5>2, <3>4, <3>5, <1>DeleteKeepsEntries
        <5> QED BY <4>1, <5>1, <5>3
      <4>3. CASE ~e.deleted
        <5>1. e.deleted = FALSE /\ e.vec \in Vectors
          BY <3>3, <3>4, <4>3, SMT
        <5>2. InsertsVersion(e.key, e.seq, e.vec)
          BY <3>1, <4>3 DEF MergesEntry
        <5>3. [key |-> e.key, seq |-> e.seq, deleted |-> FALSE, vec |-> e.vec] \in Entries(Image')
          BY <5>1, <5>2, <3>4, <3>5, <1>InsertKeepsEntries
        <5> QED BY <4>1, <5>1, <5>3
      <4> QED BY <4>2, <4>3
    <3>8. /\ merger'.pc = merger.pc /\ merger'.all = merger.all /\ merger'.todo = merger.todo \ {e}
          /\ merger' = [pc |-> merger'.pc, all |-> merger'.all, todo |-> merger'.todo]
      <4>1. merger = [pc |-> merger.pc, all |-> merger.all, todo |-> merger.todo]
        BY DEF IndexInv, MergerInv
      <4> QED BY ONLY <3>1, <4>1, SMT
    <3>9. merger.pc = "run"
      BY <2>3 DEF MergeInserts
    <3>10. MergerInv'
      BY <3>2, <3>6, <3>7, <3>8, <3>9, SMT DEF IndexInv, MergerInv, MergeTakesAll
    <3> QED BY <2>0, <2>1, <3>6, <3>10 DEF IndexInv
  <2>4. CASE MergeReturns
    <3>1. Image' = Image
      BY <2>4, SMT DEF MergeReturns, Image
    <3>2. ImageOK(Image)' /\ Entries(Image') = Entries(Image)
      BY <3>1 DEF IndexInv, ImageOK, Fits
    <3>3. merger' = IdleMerger
      BY <2>4 DEF MergeReturns
    <3>4. /\ IdleMerger.pc = "idle" /\ IdleMerger.all = {} /\ IdleMerger.todo = {}
          /\ IdleMerger = [pc |-> IdleMerger.pc, all |-> IdleMerger.all, todo |-> IdleMerger.todo]
      BY SMT DEF IdleMerger
    <3>5. MergerInv'
      BY <3>3, <3>4, SMT DEF MergerInv, MergeTakesAll
    <3> QED BY <2>0, <2>1, <3>2, <3>5 DEF IndexInv
  <2> QED BY <2>2, <2>3, <2>4
\* A power failure empties the index; the path names a file that was named before and
\* was synced, so that it is still whole.
<1>CrashStep.
  ASSUME IndexInv, Crash PROVE IndexInv' /\ crashes' > crashes
  <2> USE <1>CrashStep
  <2> USE Zenon
  <2>1. PICK f \in names, kind \in {"whole", "part"} :
          /\ f.synced \/ f.kind # "whole" => kind = "whole"
          /\ path' = IF kind = "part" THEN [f EXCEPT !.kind = "part", !.image = EmptyImage] ELSE f
    BY DEF Crash
  <2>2. FileOK(f) /\ f.synced
    BY DEF IndexInv, NamesInv
  <2>3. kind = "whole" /\ path' = f /\ names' = {f}
    BY <2>1, <2>2, SMT DEF Crash
  <2>4. saves' = saves /\ acked' = acked
    BY SMT DEF Crash
  <2>5. FileOK(f)'
    BY <2>2, <2>4 DEF FileOK
  <2>6. NamesInv'
    BY <2>2, <2>3, <2>4, <2>5 DEF IndexInv, NamesInv
  <2>7. CountsInv' /\ crashes' > crashes
    BY SMT DEF IndexInv, CountsInv, Crash
  <2>8. saver'.pc = "idle"
    BY SMT DEF Crash, IdleSaver
  <2>9. SaverInv'
    BY <2>8, SMT DEF SaverInv
  <2>10. /\ IdleMerger.pc = "idle" /\ IdleMerger.all = {} /\ IdleMerger.todo = {}
         /\ IdleMerger = [pc |-> IdleMerger.pc, all |-> IdleMerger.all, todo |-> IdleMerger.todo]
    BY SMT DEF IdleMerger
  <2>11. MergerInv'
    BY <2>10, SMT DEF MergerInv, MergeTakesAll, Crash
  <2>12. graph' = <<>> /\ versions' = {}
    BY SMT DEF Crash
  <2>13. ImageOK(Image)'
    BY <2>12, ImageFacts, SMT
  <2> QED BY <2>6, <2>7, <2>9, <2>11, <2>13 DEF IndexInv
<1> USE Zenon
<1>1. CASE \E k \in Keys, vec \in Vectors :
             Insert(k, vec) \/ \E s \in SeqNumbers : InsertVersion(k, s, vec)
  BY <1>1, <1>ChangeSteps
<1>2. CASE \E k \in Keys, s \in SeqNumbers : MarksKeyDeleted(k, s)
  BY <1>2, <1>ChangeSteps
<1>3. CASE SaveSteps
  <2>1. IndexInv' /\ UNCHANGED <<graph, versions, crashes>>
    BY <1>3, <1>SaveStepsKeep
  <2>2. Image' = Image
    BY <2>1 DEF Image
  <2> QED BY <2>1, <2>2
<1>4. CASE Load
  BY <1>4, <1>LoadStep
<1>5. CASE MergeBegins \/ MergeInserts \/ MergeReturns
  BY <1>5, <1>MergeSteps
<1>6. CASE Crash
  BY <1>6, <1>CrashStep
<1>7. CASE UNCHANGED fileVars
  <2>1. Image' = Image
    BY <1>7 DEF Image, fileVars
  <2>2. ImageOK(Image)' /\ MergerInv' /\ NamesInv' /\ CountsInv'
    BY <1>7, <1>SaverKeeps DEF fileVars
  <2>3. SaverInv'
    BY <1>7 DEF fileVars, IndexInv, SaverInv, FileOK
  <2> QED BY <2>1, <2>2, <2>3 DEF IndexInv
<1> QED BY <1>1, <1>2, <1>3, <1>4, <1>5, <1>6, <1>7 DEF IndexNext

\* The invariant holds in every state: whatever is inserted, deleted, merged, saved and
\* loaded, fails or is lost in a power failure.
THEOREM IndexInvariance == IndexSpec => []IndexInv
<1> USE Zenon
<1>1. IndexInit => IndexInv
  <2> SUFFICES ASSUME IndexInit PROVE IndexInv
    BY SMT
  <2> USE DEF IndexInit
  <2>1. /\ IdleMerger.pc = "idle" /\ IdleMerger.all = {} /\ IdleMerger.todo = {}
        /\ IdleMerger = [pc |-> IdleMerger.pc, all |-> IdleMerger.all, todo |-> IdleMerger.todo]
    BY SMT DEF IdleMerger
  <2>2. MergerInv
    BY <2>1, SMT DEF MergerInv, MergeTakesAll
  <2>3. IdleSaver.pc = "idle"
    BY SMT DEF IdleSaver
  <2>4. SaverInv
    BY <2>3, SMT DEF SaverInv
  <2>5. /\ NoFile.kind = "none" /\ NoFile.num = 0 /\ NoFile.synced = TRUE
        /\ NoFile = [kind |-> NoFile.kind, num |-> NoFile.num, synced |-> NoFile.synced,
                     image |-> NoFile.image]
    BY SMT DEF NoFile
  <2>6. CountsInv
    BY SMT DEF CountsInv
  <2>7. NamesInv
    <3>1. FileOK(NoFile)
      <4>1. NoFile.num \in Nat /\ NoFile.num <= saves
        BY <2>5, SMT
      <4>2. NoFile.kind \in {"none", "whole"} /\ NoFile.kind # "whole"
        BY <2>5, SMT
      <4>3. NoFile.synced \in BOOLEAN
        BY <2>5
      <4> QED BY <2>5, <4>1, <4>2, <4>3 DEF FileOK
    <3> QED BY <2>5, <3>1, SMT DEF NamesInv
  <2>8. ImageOK(Image)
    BY ImageFacts, SMT
  <2> QED BY <2>2, <2>4, <2>6, <2>7, <2>8, SMT DEF IndexInv
<1>2. IndexInv /\ [IndexNext]_fileVars => IndexInv'
  BY NextKeeps
<1> QED BY <1>1, <1>2, PTL DEF IndexSpec

\* Save finds the version of every node, and Load accepts what Save writes.
THEOREM SavesAreAlwaysAccepted == IndexSpec => []SavesAreAccepted
<1>1. IndexInv => SavesAreAccepted
  BY FitsIsEnough, ImageFacts, Zenon DEF IndexInv, SavesAreAccepted, NodesHaveVersions
<1> QED BY <1>1, IndexInvariance, PTL

\* Once a Save has returned OK the path holds a whole index that Load accepts, of that
\* Save or of a later one, through failed Saves and power failures.
THEOREM SavesAlwaysSurvive == IndexSpec => []SavesSurvive
<1>1. IndexInv => SavesSurvive
  BY FitsIsEnough, Zenon DEF IndexInv, SavesSurvive, NamesInv, FileOK, Loads
<1> QED BY <1>1, IndexInvariance, PTL

\* A search by node ids sees what the versions of the keys determine, whatever merges
\* and loads did to the ids.
THEOREM IdsAlwaysNameVersions == IndexSpec => []IdsNameVersions
<1>1. {0} \cup SeqNumbers \subseteq Nat
  BY SeqNumbersArePositive
<1>2. IndexInv => IdsNameVersions
  BY <1>1, IdsFollowVersions, Zenon DEF IndexInv, IdsNameVersions
<1> QED BY <1>2, IndexInvariance, PTL

\* What a MergeFrom has passed is in the index.
THEOREM MergesAlwaysTakeAll == IndexSpec => []MergeTakesAll
<1>1. IndexInv => MergeTakesAll
  BY Zenon DEF IndexInv, MergerInv
<1> QED BY <1>1, IndexInvariance, PTL

\* No step but a Load or a restart changes a version or removes it.
THEOREM VersionsStay == IndexSpec => VersionsAreImmutable
<1>1. IndexInv /\ [IndexNext]_fileVars
        => [Entries(Image) \subseteq Entries(Image') \/ Image' = path.image \/ crashes' > crashes]_fileVars
  BY NextKeeps, Zenon
<1> QED BY <1>1, IndexInvariance, PTL DEF IndexSpec, VersionsAreImmutable

-----------------------------------------------------------------------------
(***************************************************************************)
(* VectorDB: the inductive invariant.                                      *)
(***************************************************************************)

Outside == {"idle", "lifecycle", "coordination"}

OpenRequests == [op : {"Open"}]
WriteRequests == [op : {"Write"}, batch : Batches]
SearchRequests == [op : {"Search"}] \cup [op : {"SearchSnapshot"}, snap : Snaps]

\* What a thread remembers at each point of a call.
ThreadShape(th) ==
  /\ th.pc \in PCs \cup {"idle", "index", "search"}
  /\ th.pc = "idle" => th = Idle
  /\ th.pc \in {"lifecycle", "coordination", "body"} => th \in [pc : PCs, req : Requests]
  /\ th.pc = "opening" => th \in [pc : PCs, req : OpenRequests]
  /\ th.pc = "rebuild" =>
       \/ th \in [pc : PCs, req : [op : {"Open", "RebuildIndex"}]]
       \/ th \in [pc : {"rebuild"}, req : WriteRequests, pos : Nat, before : Views]
  /\ th.pc = "index" => th \in [pc : {"index"}, req : WriteRequests, pos : Nat, before : Views]
  /\ th.pc = "search" => th \in [pc : {"search"}, req : SearchRequests, historical : Indexes]
  /\ th.pc = "return" =>
       \/ th \in [pc : PCs, req : Requests] /\ th.req.op # "Write"
       \/ th \in [pc : {"return"}, req : WriteRequests, commit : CommitStates, before : Views]
       \/ th \in [pc : {"return"}, req : SearchRequests, found : SUBSET Nodes]

ShapeInv ==
  /\ view \in Views /\ restart \in Views
  /\ dbUp \in BOOLEAN /\ dbFailed \in BOOLEAN
  /\ frozen \in [Snaps -> Views \cup {Released}]
  /\ index \in Indexes /\ state \in IndexStates /\ indexOk \in BOOLEAN
  /\ indexSeq \in 0..MaxSequence /\ opsSince \in Nat
  /\ calls \in 0..MaxCalls /\ faults \in 0..MaxFaults
  /\ thread = [u \in Threads |-> thread[u]]
  /\ \A t \in Threads : ThreadShape(thread[t])

\* A lock that one thread holds exclusively is held by no other.
Excludes(lock) ==
  \A t, u \in Threads : t # u /\ lock[t] = "exclusive" => lock[u] = "none"

\* The mutexes are held from the point where they are taken until the return.
LockInv ==
  /\ lifecycle \in [Threads -> Modes] /\ coordination \in [Threads -> Modes]
  /\ \A t \in Threads :
       /\ lifecycle[t] = IF thread[t].pc \in {"idle", "lifecycle"} THEN "none"
                         ELSE LifecycleMode(thread[t].req.op)
       /\ coordination[t] = IF thread[t].pc \in Outside THEN "none"
                            ELSE CoordinationMode(thread[t].req.op)
  /\ Excludes(lifecycle) /\ Excludes(coordination)

\* No version in the index is younger than the last one handed out, and a node is
\* determined by its key and version.
Versioned(idx, s) ==
  /\ \A k \in Keys : \A v \in idx.versions[k] : v.seq <= s
  /\ \A n \in idx.nodes : n.seq <= s
  /\ \A m, n \in idx.nodes : m.key = n.key /\ m.seq = n.seq => m = n

\* What the guarded variables satisfy whoever holds the mutex.
StateInv ==
  /\ state = "Opening" => \E t \in Threads : thread[t].pc = "opening"
  /\ state = "Rebuilding" => \E t \in Threads : thread[t].pc = "rebuild"
  /\ state = "Ready" => Versioned(index, indexSeq)
  /\ state = "Ready" /\ (\A t \in Threads : thread[t].pc # "index")
       => Indexed(index) = Stored(view)
  /\ state \in {"Ready", "Dirty"} => ~BuildIndexFails(view)
  /\ state = "Dirty" => ~indexOk /\ faults > 0
  /\ dbFailed => faults > 0

\* What the points inside a call know.
Prefix(th) == Applied(th.before, th.req.batch, th.pos)
Entire(th) == Applied(th.before, th.req.batch, Len(th.req.batch))

WritePhase(th) ==
  /\ th.pc = "index" =>
       /\ state = "Ready" /\ th.pos <= Len(th.req.batch)
       /\ Indexed(index) = Stored(Prefix(th))
  /\ th.pc = "index" \/ (th.pc = "rebuild" /\ th.req.op = "Write")
       => view = Entire(th) /\ restart = Entire(th)
  /\ th.pc = "return" /\ th.req.op = "Write" =>
       /\ th.commit = "NotCommitted" => view = th.before
       /\ th.commit = "Committed" => view = Entire(th) /\ restart = Entire(th)
       /\ th.commit = "Committed" /\ indexOk => state = "Ready"
       /\ th.commit = "Unknown" => view \in {th.before, Entire(th)} /\ state = "Dirty"

SearchPhase(th) ==
  /\ th.pc = "search" =>
       IF th.req.op = "Search" THEN state = "Ready"
       ELSE frozen[th.req.snap] # Released /\ th.historical = BuildIndex(frozen[th.req.snap])
  /\ th.pc = "return" /\ "found" \in DOMAIN th =>
       IF th.req.op = "Search" THEN {<<n.key, n.vec>> : n \in th.found} \subseteq Stored(view)
       ELSE /\ frozen[th.req.snap] # Released
            /\ {<<n.key, n.vec>> : n \in th.found} \subseteq Stored(frozen[th.req.snap])

Phase(th) ==
  /\ th.pc = "opening" => state = "Opening"
  /\ th.pc = "rebuild" => state = "Rebuilding"
  /\ th.pc = "rebuild" /\ th.req.op # "Open" => ~BuildIndexFails(view)
  /\ WritePhase(th) /\ SearchPhase(th)

PhaseInv == \A t \in Threads : Phase(thread[t])

IInv == ShapeInv /\ LockInv /\ StateInv /\ PhaseInv

-----------------------------------------------------------------------------
(***************************************************************************)
(* VectorDB: batches.                                                      *)
(***************************************************************************)

\* Among positions of a batch there is a last one.
LEMMA LastExists ==
  ASSUME NEW n \in Nat, NEW S \in SUBSET (1..n), S # {}
  PROVE  \E i \in S : \A j \in S : j <= i
<1> USE Zenon
<1> DEFINE U == {x \in Nat : \A j \in S : j <= x}
<1>1. U \in SUBSET Nat /\ n \in U
  BY SMT
<1>2. PICK x \in U : \A y \in U : <<y, x>> \notin WF!OpToRel(<, Nat)
  <2> HIDE DEF U
  <2> QED BY <1>1, WF!NatLessThanWellFounded, WF!WFMin
<1>3. ASSUME NEW y \in U PROVE x <= y
  <2>1. x \in Nat /\ y \in Nat /\ ~(y < x)
    BY <1>2 DEF WF!OpToRel
  <2> QED BY <2>1, SMT
<1>4. x \in S
  <2> SUFFICES ASSUME x \notin S PROVE FALSE
    BY SMT
  <2>1. PICK j \in S : j \in 1..n
    OBVIOUS
  <2>2. x \in Nat /\ x >= 1
    BY <2>1, SMT
  <2>3. x - 1 \in U
    BY <2>2, SMT
  <2> QED BY <1>3, <2>2, <2>3, SMT
<1> QED BY <1>4

\* The operations of a batch are on keys and store values.
LEMMA BatchType ==
  ASSUME NEW b \in Batches
  PROVE  /\ Len(b) \in Nat /\ DOMAIN b = 1..Len(b)
         /\ \A i \in 1..Len(b) :
              /\ b[i].key \in Keys /\ b[i].deleted \in BOOLEAN
              /\ ~b[i].deleted => b[i].value \in Values
<1> USE Zenon
<1> DEFINE O == [key : Keys, deleted : BOOLEAN, value : Values \cup {NotFound}]
<1>1. b \in Seq(O)
  BY BatchesAreOperations
<1>2. \A i \in DOMAIN b : b[i].deleted \/ b[i].value \in Values
  BY BatchesAreOperations
<1>3. \A o \in O : o.key \in Keys /\ o.deleted \in BOOLEAN
  BY SMT
<1> HIDE DEF O
<1>4. Len(b) \in Nat /\ DOMAIN b = 1..Len(b) /\ \A i \in 1..Len(b) : b[i] \in O
  BY <1>1, SMT
<1>5. \A i \in 1..Len(b) : b[i].key \in Keys /\ b[i].deleted \in BOOLEAN
  BY <1>3, <1>4
<1> QED BY <1>2, <1>4, <1>5

\* What one operation leaves under its key.
Effect(o) == IF o.deleted THEN NotFound ELSE o.value

\* What the first n operations of a batch leave under a key: what was there, or
\* the effect of one of them.
LEMMA AppliedCases ==
  ASSUME NEW m \in Views, NEW b \in Batches, NEW n \in 0..Len(b), NEW k \in Keys
  PROVE  \/ Applied(m, b, n)[k] = m[k]
         \/ \E i \in 1..n : b[i].key = k /\ Applied(m, b, n)[k] = Effect(b[i])
<1> USE Zenon
<1> DEFINE at == {i \in 1..n : b[i].key = k}
<1>1. CASE at = {}
  BY <1>1 DEF Applied
<1>2. CASE at # {}
  <2> DEFINE i == CHOOSE i \in at : \A j \in at : j <= i
  <2>1. n \in Nat
    BY BatchType, SMT
  <2>2. at \in SUBSET (1..n)
    BY SMT
  <2>3. i \in at
    <3> HIDE DEF at
    <3> QED BY <1>2, <2>1, <2>2, LastExists
  <2>4. Applied(m, b, n)[k] = Effect(b[i])
    BY <1>2 DEF Applied, Effect
  <2> HIDE DEF i
  <2> QED BY <2>3, <2>4
<1> QED BY <1>1, <1>2

\* Writing a batch to a view gives a view.
LEMMA AppliedType ==
  ASSUME NEW m \in Views, NEW b \in Batches, NEW n \in 0..Len(b)
  PROVE  Applied(m, b, n) \in Views
<1>1. \A i \in 1..n : i \in 1..Len(b)
  BY BatchType
<1>2. ASSUME NEW k \in Keys PROVE Applied(m, b, n)[k] \in Values \cup {NotFound}
  BY <1>1, AppliedCases, BatchType DEF Views, Effect
<1>3. Applied(m, b, n) = [k \in Keys |-> Applied(m, b, n)[k]]
  BY DEF Applied
<1> QED BY <1>2, <1>3, Zenon DEF Views

\* Nothing of the batch applied changes nothing.
LEMMA AppliedNone ==
  ASSUME NEW m \in Views, NEW b
  PROVE  Applied(m, b, 0) = m
<1>1. \A k \in Keys : {i \in 1..0 : b[i].key = k} = {}
  OBVIOUS
<1>2. Applied(m, b, 0) = [k \in Keys |-> m[k]]
  BY <1>1, Zenon DEF Applied
<1> QED BY <1>2, Zenon DEF Views

\* One more operation of the batch replaces what is under its key.
LEMMA AppliedStep ==
  ASSUME NEW m \in Views, NEW b \in Batches, NEW n \in Nat, n < Len(b)
  PROVE  Applied(m, b, n + 1) = [Applied(m, b, n) EXCEPT ![b[n + 1].key] = Effect(b[n + 1])]
<1> USE Zenon
<1> DEFINE at(k) == {i \in 1..n : b[i].key = k}
           next(k) == {i \in 1..(n + 1) : b[i].key = k}
<1>1. n + 1 \in 1..Len(b) /\ b[n + 1].key \in Keys
  BY BatchType, SMT
<1>2. DOMAIN Applied(m, b, n) = Keys
  BY DEF Applied
<1>3. ASSUME NEW k \in Keys, k # b[n + 1].key PROVE Applied(m, b, n + 1)[k] = Applied(m, b, n)[k]
  <2> DEFINE Last(S) == IF S = {} THEN m[k]
                        ELSE LET i == CHOOSE i \in S : \A j \in S : j <= i
                             IN  IF b[i].deleted THEN NotFound ELSE b[i].value
  <2>1. at(k) = next(k)
    BY <1>3, SMT
  <2>2. Applied(m, b, n)[k] = Last(at(k)) /\ Applied(m, b, n + 1)[k] = Last(next(k))
    BY DEF Applied
  <2> HIDE DEF Last, at, next
  <2> QED BY <2>1, <2>2
<1>4. ASSUME NEW k \in Keys, k = b[n + 1].key PROVE Applied(m, b, n + 1)[k] = Effect(b[n + 1])
  <2>1. n + 1 \in next(k) /\ \A j \in next(k) : j <= n + 1
    BY <1>4, SMT
  <2>2. \A i \in next(k) : (\A j \in next(k) : j <= i) => i = n + 1
    BY <2>1, SMT
  <2>3. (CHOOSE i \in next(k) : \A j \in next(k) : j <= i) = n + 1
    <3> HIDE DEF next
    <3> QED BY <2>1, <2>2
  <2> QED BY <2>1, <2>3 DEF Applied, Effect
<1>5. Applied(m, b, n + 1) = [k \in Keys |-> Applied(m, b, n + 1)[k]]
  BY SMT DEF Applied
<1> QED BY <1>1, <1>2, <1>3, <1>4, <1>5

\* A batch that ValidateBatch accepts leaves no value that fails decoding in a view
\* that had none.
LEMMA AppliedDecodes ==
  ASSUME NEW m \in Views, NEW b \in Batches, ValidateBatch(b), ~BuildIndexFails(m)
  PROVE  ~BuildIndexFails(Applied(m, b, Len(b)))
<1> USE Zenon
<1> SUFFICES ASSUME NEW k \in Keys, Applied(m, b, Len(b))[k] \in Malformed PROVE FALSE
  BY DEF BuildIndexFails
<1>1. Len(b) \in 0..Len(b) /\ DOMAIN b = 1..Len(b)
  BY BatchType, SMT
<1>2. m[k] \notin Malformed
  BY DEF BuildIndexFails
<1>3. PICK i \in 1..Len(b) : Effect(b[i]) \in Malformed
  BY <1>1, <1>2, AppliedCases, SMT
<1> QED BY <1>1, <1>3, VectorsAreRecognised DEF Effect, ValidateBatch

-----------------------------------------------------------------------------
(***************************************************************************)
(* VectorDB: the index.                                                    *)
(***************************************************************************)

\* The pairs of S that are not about k.
Without(S, k) == {p \in S : p[1] # k}

\* BuildIndex gives an index of exactly the vectors of its view.
LEMMA BuildIndexIsExact ==
  ASSUME NEW m \in Views
  PROVE  /\ BuildIndex(m) \in Indexes
         /\ Indexed(BuildIndex(m)) = Stored(m)
         /\ Versioned(BuildIndex(m), 0)
<1> USE Zenon
<1> DEFINE N == {[key |-> k, seq |-> 0, vec |-> m[k]] : k \in VectorsOf(m)}
           V == [k \in Keys |-> IF k \in VectorsOf(m)
                                THEN {[seq |-> 0, deleted |-> FALSE]} ELSE {}]
           idx == BuildIndex(m)
<1>1. idx.nodes = N /\ idx.versions = V /\ idx = [nodes |-> N, versions |-> V]
  BY DEF BuildIndex
<1>2. N \in SUBSET Nodes
  BY SMT DEF VectorsOf, Nodes
<1>3. V \in [Keys -> SUBSET [seq : Nat, deleted : BOOLEAN]]
  BY SMT
<1>4. idx \in Indexes
  BY <1>1, <1>2, <1>3 DEF Indexes
<1>5. \A n \in N : n.key \in VectorsOf(m) /\ n.seq = 0 /\ n.vec = m[n.key]
  BY SMT
<1>6. \A a, b \in N : a.key = b.key => a = b
  BY SMT
<1>7. \A k \in Keys : \A v \in V[k] : v.seq = 0 /\ ~v.deleted /\ k \in VectorsOf(m)
  BY SMT
<1>8. \A k \in VectorsOf(m) :
        [seq |-> 0, deleted |-> FALSE] \in V[k] /\ [key |-> k, seq |-> 0, vec |-> m[k]] \in N
  BY DEF VectorsOf
<1> HIDE DEF N, V, idx
<1>9. Versioned(idx, 0)
  BY <1>1, <1>5, <1>6, <1>7, SMT DEF Versioned
<1>10. \A n \in N : IsVisibleAt(idx, n, MaxSequence)
  <2> TAKE n \in N
  <2> DEFINE v == [seq |-> 0, deleted |-> FALSE]
  <2>1. n.key \in Keys /\ n.key \in VectorsOf(m) /\ n.seq = 0
    BY <1>5 DEF VectorsOf
  <2>2. v \in V[n.key] /\ v.seq = 0 /\ ~v.deleted
    BY <1>8, <2>1
  <2>3. v \in VisibleVersions(idx, n.key, MaxSequence)
    BY <1>1, <1>7, <2>1, <2>2, BoundsAreNat, SMT DEF VisibleVersions
  <2> HIDE DEF v
  <2> QED BY <2>1, <2>2, <2>3 DEF IsVisibleAt
<1>11. Visible(idx, MaxSequence) = N
  BY <1>1, <1>10 DEF Visible
<1>12. {<<n.key, n.vec>> : n \in N} = Stored(m)
  BY <1>5, <1>8 DEF Stored
<1> QED BY <1>4, <1>9, <1>11, <1>12 DEF Indexed, idx

\* The visible version of a key is decided by the versions of that key.
LEMMA VisibilityIsLocal ==
  ASSUME NEW idx, NEW new, NEW n, NEW s, new.versions[n.key] = idx.versions[n.key]
  PROVE  IsVisibleAt(new, n, s) <=> IsVisibleAt(idx, n, s)
BY Zenon DEF IsVisibleAt, VisibleVersions

\* The version that an update adds hides the older versions of its key.
LEMMA NewestIsVisible ==
  ASSUME NEW idx \in Indexes, NEW q \in Nat, Versioned(idx, q), q < MaxSequence,
         NEW new \in Indexes, NEW k \in Keys, NEW v,
         v.seq = q + 1,
         new.versions = [idx.versions EXCEPT ![k] = @ \cup {v}]
  PROVE  VisibleVersions(new, k, MaxSequence) = {v}
<1>1. new.versions[k] = idx.versions[k] \cup {v}
  BY Zenon DEF Indexes
<1>2. \A w \in idx.versions[k] : w.seq <= q /\ w.seq \in Nat
  BY DEF Indexes, Versioned
<1> QED BY <1>1, <1>2, BoundsAreNat DEF VisibleVersions

\* No update with a new version is refused.
LEMMA NewVersionIsAccepted ==
  ASSUME NEW idx \in Indexes, NEW q \in Nat, Versioned(idx, q), NEW k \in Keys, NEW vec
  PROVE  ~InsertRefused(idx, k, q + 1, vec, TRUE) /\ ~MarkDeletedRefused(idx, k, q + 1)
<1>1. \A w \in idx.versions[k] : w.seq <= q /\ w.seq \in Nat /\ w.seq # q + 1
  BY DEF Indexes, Versioned
<1> QED BY <1>1, Zenon DEF InsertRefused, MarkDeletedRefused

\* InsertVersionLocked with a new version replaces the vector of its key.
LEMMA InsertIsExact ==
  ASSUME NEW idx \in Indexes, NEW q \in Nat, Versioned(idx, q), q < MaxSequence,
         NEW k \in Keys, NEW vec \in Vectors
  PROVE  LET new == InsertVersionLocked(idx, k, q + 1, vec)
         IN  /\ new \in Indexes /\ Versioned(new, q + 1)
             /\ Indexed(new) = Without(Indexed(idx), k) \cup {<<k, vec>>}
<1> USE Zenon
<1> DEFINE new == InsertVersionLocked(idx, k, q + 1, vec)
           v == [seq |-> q + 1, deleted |-> FALSE]
           n == [key |-> k, seq |-> q + 1, vec |-> vec]
<1>1. \A w \in idx.versions[k] : w.seq <= q /\ w.seq \in Nat /\ w.seq # q + 1
  BY SMT DEF Indexes, Versioned
<1>3. /\ new.nodes = idx.nodes \cup {n}
      /\ new.versions = [idx.versions EXCEPT ![k] = @ \cup {v}]
      /\ new = [nodes |-> new.nodes, versions |-> new.versions]
  BY <1>1 DEF InsertVersionLocked
<1>4. n \in Nodes /\ v \in [seq : Nat, deleted : BOOLEAN] /\ v.seq = q + 1 /\ ~v.deleted
      /\ n.key = k /\ n.seq = q + 1 /\ n.vec = vec
  BY SMT DEF Nodes
<1> HIDE DEF v, n, new
<1>5. new \in Indexes
  BY <1>3, <1>4, SMT DEF Indexes
<1>6. /\ \A w \in idx.nodes : w.seq \in Nat /\ w.seq <= q /\ w.key \in Keys
      /\ \A w \in new.nodes : w = n \/ w \in idx.nodes
  BY <1>3 DEF Indexes, Nodes, Versioned
<1>7. Versioned(new, q + 1)
  <2>1. ASSUME NEW j \in Keys, NEW w \in new.versions[j] PROVE w.seq <= q + 1
    <3>1. w = v \/ w \in idx.versions[j]
      BY <1>3 DEF Indexes
    <3>2. w \in idx.versions[j] => w.seq <= q /\ w.seq \in Nat
      BY SMT DEF Indexes, Versioned
    <3> QED BY <3>1, <3>2, <1>4, SMT
  <2>2. \A w \in new.nodes : w.seq <= q + 1
    BY <1>4, <1>6, SMT
  <2>3. \A a, b \in new.nodes : a.key = b.key /\ a.seq = b.seq => a = b
    BY <1>4, <1>6, SMT DEF Versioned
  <2> QED BY <2>1, <2>2, <2>3 DEF Versioned
<1>8. VisibleVersions(new, k, MaxSequence) = {v}
  BY <1>3, <1>4, <1>5, NewestIsVisible, SMT
<1>9. \A w \in new.nodes : w.key # k =>
        w \in idx.nodes /\ (IsVisibleAt(new, w, MaxSequence) <=> IsVisibleAt(idx, w, MaxSequence))
  <2> SUFFICES ASSUME NEW w \in new.nodes, w.key # k
               PROVE  w \in idx.nodes
                      /\ (IsVisibleAt(new, w, MaxSequence) <=> IsVisibleAt(idx, w, MaxSequence))
    BY SMT
  <2>1. w \in idx.nodes /\ w.key \in Keys
    BY <1>4, <1>6
  <2>2. new.versions[w.key] = idx.versions[w.key]
    BY <1>3, <2>1 DEF Indexes
  <2> QED BY <2>1, <2>2, VisibilityIsLocal
<1>10. \A w \in new.nodes : w.key = k => (IsVisibleAt(new, w, MaxSequence) <=> w = n)
  BY <1>4, <1>6, <1>8, SMT DEF IsVisibleAt
<1>11. Indexed(new) = Without(Indexed(idx), k) \cup {<<k, vec>>}
  <2>1. \A w \in Visible(new, MaxSequence) :
          IF w.key = k THEN w = n ELSE w \in Visible(idx, MaxSequence)
    BY <1>9, <1>10 DEF Visible
  <2>2. \A w \in Visible(idx, MaxSequence) : w.key # k => w \in Visible(new, MaxSequence)
    BY <1>3, <1>9 DEF Visible
  <2>3. n \in Visible(new, MaxSequence)
    BY <1>3, <1>4, <1>10 DEF Visible
  <2> QED BY <1>4, <2>1, <2>2, <2>3, SMT DEF Indexed, Without
<1> QED BY <1>5, <1>7, <1>11 DEF new

\* MarkDeleted with a new version removes the vector of its key.
LEMMA DeleteIsExact ==
  ASSUME NEW idx \in Indexes, NEW q \in Nat, Versioned(idx, q), q < MaxSequence,
         NEW k \in Keys
  PROVE  LET new == MarkDeleted(idx, k, q + 1)
         IN  /\ new \in Indexes /\ Versioned(new, q + 1)
             /\ Indexed(new) = Without(Indexed(idx), k)
<1> USE Zenon
<1> DEFINE new == MarkDeleted(idx, k, q + 1)
           v == [seq |-> q + 1, deleted |-> TRUE]
<1>3. /\ new.nodes = idx.nodes
      /\ new.versions = [idx.versions EXCEPT ![k] = @ \cup {v}]
      /\ new = [nodes |-> new.nodes, versions |-> new.versions]
  BY SMT DEF MarkDeleted, Indexes
<1>4. v \in [seq : Nat, deleted : BOOLEAN] /\ v.seq = q + 1 /\ v.deleted
  BY SMT
<1> HIDE DEF v, new
<1>5. new \in Indexes
  BY <1>3, <1>4, SMT DEF Indexes
<1>6. \A w \in idx.nodes : w.seq \in Nat /\ w.seq <= q /\ w.key \in Keys
  BY DEF Indexes, Nodes, Versioned
<1>7. Versioned(new, q + 1)
  <2>1. ASSUME NEW j \in Keys, NEW w \in new.versions[j] PROVE w.seq <= q + 1
    <3>1. w = v \/ w \in idx.versions[j]
      BY <1>3 DEF Indexes
    <3>2. w \in idx.versions[j] => w.seq <= q /\ w.seq \in Nat
      BY SMT DEF Indexes, Versioned
    <3> QED BY <3>1, <3>2, <1>4, SMT
  <2>2. \A w \in new.nodes : w.seq <= q + 1
    BY <1>3, <1>6, SMT
  <2> QED BY <1>3, <2>1, <2>2 DEF Versioned
<1>8. VisibleVersions(new, k, MaxSequence) = {v}
  BY <1>3, <1>4, <1>5, NewestIsVisible, SMT
<1>9. ASSUME NEW w \in idx.nodes, w.key # k
      PROVE  IsVisibleAt(new, w, MaxSequence) <=> IsVisibleAt(idx, w, MaxSequence)
  <2>1. new.versions[w.key] = idx.versions[w.key]
    BY <1>3, <1>6, <1>9 DEF Indexes
  <2> QED BY <2>1, VisibilityIsLocal
<1>10. \A w \in idx.nodes : w.key = k => ~IsVisibleAt(new, w, MaxSequence)
  BY <1>4, <1>8 DEF IsVisibleAt
<1>11. Visible(new, MaxSequence) = {w \in Visible(idx, MaxSequence) : w.key # k}
  BY <1>3, <1>9, <1>10 DEF Visible
<1>12. Indexed(new) = Without(Indexed(idx), k)
  BY <1>11, SMT DEF Indexed, Without
<1> QED BY <1>5, <1>7, <1>12 DEF new

\* Storing a value under a key replaces the vector of the key.
LEMMA StoredStep ==
  ASSUME NEW m \in Views, NEW k \in Keys, NEW v
  PROVE  Stored([m EXCEPT ![k] = v]) =
           Without(Stored(m), k) \cup (IF v \in Vectors THEN {<<k, v>>} ELSE {})
<1> DEFINE w == [m EXCEPT ![k] = v]
<1>1. w[k] = v /\ \A j \in Keys : j # k => w[j] = m[j]
  BY Zenon DEF Views
<1> HIDE DEF w
<1>2. Stored(w) = Without(Stored(m), k) \cup (IF v \in Vectors THEN {<<k, v>>} ELSE {})
  BY <1>1 DEF Stored, Without, VectorsOf
<1> QED BY <1>2, Zenon DEF w

-----------------------------------------------------------------------------
(***************************************************************************)
(* VectorDB: what the mutexes give a step.                                 *)
(***************************************************************************)

\* The points of a call that rely on the variables coordination_mu_ guards.
Busy(th) ==
  \/ th.pc \in {"opening", "rebuild", "index", "search"}
  \/ th.pc = "return" /\ th.req.op \in {"Write", "Search", "SearchSnapshot"}

\* Every request names an operation.
LEMMA RequestType ==
  ASSUME NEW r \in Requests
  PROVE  r.op \in Operations /\ (r.op = "Write" => r \in WriteRequests)
         /\ (r.op \in {"SearchSnapshot", "GetSnapshot", "ReleaseSnapshot"} => r.snap \in Snaps)
         /\ (r.op \in {"Search", "SearchSnapshot"} => r \in SearchRequests)
         /\ (r.op = "Open" => r \in OpenRequests)
         /\ (r.op \in {"Open", "RebuildIndex"} => r \in [op : {"Open", "RebuildIndex"}])
BY Zenon DEF Requests, Operations, WriteRequests, SearchRequests, OpenRequests

\* The special requests are requests.
LEMMA SpecialRequests ==
  /\ OpenRequests \subseteq Requests /\ WriteRequests \subseteq Requests
  /\ SearchRequests \subseteq Requests /\ [op : {"Open", "RebuildIndex"}] \subseteq Requests
BY Zenon DEF Requests, Operations, WriteRequests, SearchRequests, OpenRequests

\* A thread inside a call carries a request.
LEMMA ThreadRequest ==
  ASSUME NEW th, ThreadShape(th), th.pc # "idle"
  PROVE  /\ th.req \in Requests
         /\ th.pc = "opening" => th.req.op = "Open"
         /\ th.pc = "rebuild" => th.req.op \in {"Open", "RebuildIndex", "Write"}
         /\ th.pc = "index" => th.req.op = "Write"
         /\ th.pc = "search" => th.req.op \in {"Search", "SearchSnapshot"}
BY SpecialRequests, Zenon DEF ThreadShape, PCs, OpenRequests, WriteRequests,
  SearchRequests

\* While one thread holds coordination_mu_ exclusively, no other is at a point that
\* relies on what it guards.
LEMMA OthersAreFree ==
  ASSUME ShapeInv, LockInv, NEW t \in Threads, coordination[t] = "exclusive",
         NEW u \in Threads, u # t
  PROVE  ~Busy(thread[u])
<1> USE Zenon
<1>1. coordination[u] = "none" /\ ThreadShape(thread[u])
  BY DEF LockInv, Excludes, ShapeInv
<1>2. CASE thread[u].pc \in Outside
  BY <1>2 DEF Busy, Outside
<1>3. CASE thread[u].pc \notin Outside
  <2>1. thread[u].pc # "idle" /\ CoordinationMode(thread[u].req.op) = "none"
    BY <1>1, <1>3 DEF LockInv, Outside
  <2>2. thread[u].req \in Requests /\ thread[u].req.op \in Operations
    BY <1>1, <2>1, ThreadRequest, RequestType
  <2>3. thread[u].req.op = "Compact"
    BY <2>1, <2>2 DEF CoordinationMode, Operations
  <2> QED BY <1>1, <2>1, <2>3, ThreadRequest DEF Busy
<1> QED BY <1>2, <1>3

\* A thread that is not at such a point knows nothing that could become false.
LEMMA FreeThreadsKnowNothing ==
  ASSUME NEW u \in Threads, ThreadShape(thread[u])', ~Busy(thread[u])'
  PROVE  Phase(thread[u])'
<1>1. thread'[u].pc = "return" => "found" \notin DOMAIN thread'[u]
  <2> SUFFICES ASSUME thread'[u].pc = "return", "found" \in DOMAIN thread'[u] PROVE FALSE
    OBVIOUS
  <2>1. thread'[u].req \in SearchRequests
    BY DEF ThreadShape
  <2> QED BY <2>1, Zenon DEF SearchRequests, Busy
<1> QED BY <1>1, Zenon DEF Busy, Phase, WritePhase, SearchPhase

\* The thread of one call changes.
LEMMA OneThread ==
  ASSUME ShapeInv, NEW t \in Threads, NEW x, ThreadShape(x), thread' = [thread EXCEPT ![t] = x]
  PROVE  /\ thread' = [u \in Threads |-> thread'[u]] /\ \A u \in Threads : ThreadShape(thread'[u])
         /\ thread'[t] = x /\ \A u \in Threads : u # t => thread'[u] = thread[u]
BY Zenon DEF ShapeInv

\* A step inside a call that keeps its mutexes.
LEMMA LocksAreKept ==
  ASSUME IInv, NEW t \in Threads, UNCHANGED lockVars,
         thread[t].pc \notin Outside, thread'[t].pc \notin Outside, thread'[t].req = thread[t].req,
         \A u \in Threads : u # t => thread'[u] = thread[u]
  PROVE  LockInv'
BY Zenon DEF IInv, LockInv, Excludes, lockVars, Outside

\* A step of a call that holds coordination_mu_ exclusively preserves the invariant
\* when it keeps what all threads share and what its own next point relies on.
LEMMA ExclusiveStep ==
  ASSUME IInv, NEW t \in Threads, coordination[t] = "exclusive", UNCHANGED lockVars,
         thread[t].pc \notin Outside, thread'[t].pc \notin Outside, thread'[t].req = thread[t].req,
         \A u \in Threads : u # t => thread'[u] = thread[u],
         ShapeInv', StateInv', Phase(thread[t])'
  PROVE  IInv'
<1> USE Zenon
<1>1. LockInv'
  BY LocksAreKept
<1>2. ASSUME NEW u \in Threads PROVE Phase(thread[u])'
  <2>1. CASE u = t
    BY <2>1
  <2>2. CASE u # t
    <3>1. ~Busy(thread[u]) /\ thread'[u] = thread[u]
      BY <2>2, OthersAreFree DEF IInv
    <3>2. ThreadShape(thread[u])'
      BY DEF ShapeInv
    <3> QED BY <3>1, <3>2, FreeThreadsKnowNothing DEF Busy
  <2> QED BY <2>1, <2>2
<1> QED BY <1>1, <1>2 DEF IInv, PhaseInv

\* The variables that coordination_mu_ guards, and the failures.
guarded == <<view, restart, dbFailed, frozen, index, state, indexOk, indexSeq, faults>>

\* A step of a call that changes none of the guarded variables.
LEMMA QuietStep ==
  ASSUME IInv, NEW t \in Threads, UNCHANGED guarded,
         thread[t].pc \notin {"opening", "rebuild", "index"},
         thread'[t].pc \notin {"opening", "rebuild", "index"},
         \A u \in Threads : u # t => thread'[u] = thread[u],
         ShapeInv', LockInv', Phase(thread[t])'
  PROVE  IInv'
<1> USE Zenon
<1>1. StateInv'
  <2>1. \A u \in Threads : thread[u].pc \in {"opening", "rebuild", "index"} => thread'[u] = thread[u]
    BY SMT
  <2>2. \A u \in Threads : thread'[u].pc \in {"opening", "rebuild", "index"} => thread'[u] = thread[u]
    BY SMT
  <2> QED BY <2>1, <2>2 DEF IInv, StateInv, guarded
<1>2. ASSUME NEW u \in Threads PROVE Phase(thread[u])'
  <2>1. CASE u = t
    BY <2>1
  <2>2. CASE u # t
    BY <2>2 DEF IInv, PhaseInv, Phase, WritePhase, SearchPhase, guarded
  <2> QED BY <2>1, <2>2
<1> QED BY <1>1, <1>2 DEF IInv, PhaseInv

-----------------------------------------------------------------------------
(***************************************************************************)
(* VectorDB: each step preserves the invariant.                            *)
(***************************************************************************)

\* The database starts closed, with no call running.
LEMMA InitIInv == Init => IInv
<1> USE Zenon
<1> SUFFICES ASSUME Init PROVE IInv
  BY SMT
<1> USE DEF Init, Idle
<1>1. ShapeInv
  <2>1. index \in Indexes
    BY DEF EmptyIndex, Indexes
  <2>2. \A t \in Threads : ThreadShape(thread[t])
    BY DEF ThreadShape
  <2>3. view \in Views /\ restart \in Views
    BY InitialViewsAreViews
  <2>4. frozen \in [Snaps -> Views \cup {Released}] /\ thread = [u \in Threads |-> thread[u]]
    BY SMT
  <2>5. indexSeq \in 0..MaxSequence /\ calls \in 0..MaxCalls /\ faults \in 0..MaxFaults
    BY BoundsAreNat, SMT
  <2> QED BY <2>1, <2>2, <2>3, <2>4, <2>5 DEF ShapeInv, IndexStates
<1>2. LockInv
  BY DEF LockInv, Excludes, Modes, Outside
<1>3. StateInv
  BY DEF StateInv
<1>4. PhaseInv
  BY DEF PhaseInv, Phase, WritePhase, SearchPhase
<1> QED BY <1>1, <1>2, <1>3, <1>4 DEF IInv

\* A call begins.
LEMMA CallStep ==
  ASSUME IInv, NEW t \in Threads, NEW r \in Requests, Call(t, r)
  PROVE  IInv'
<1> USE Zenon
<1> DEFINE x == [pc |-> "lifecycle", req |-> r]
<1>1. x.pc = "lifecycle" /\ x.req = r /\ ThreadShape(x) /\ thread' = [thread EXCEPT ![t] = x]
  BY DEF ThreadShape, PCs, Call
<1> HIDE DEF x
<1>2. /\ thread' = [u \in Threads |-> thread'[u]] /\ \A u \in Threads : ThreadShape(thread'[u])
      /\ thread'[t] = x /\ \A u \in Threads : u # t => thread'[u] = thread[u]
  BY <1>1, OneThread DEF IInv
<1>3. thread[t].pc = "idle" /\ UNCHANGED <<dbVars, indexVars, lockVars, faults>> /\ calls' \in 0..MaxCalls
  BY BoundsAreNat, SMT DEF Call, Idle, IInv, ShapeInv
<1>4. ShapeInv'
  BY <1>2, <1>3 DEF IInv, ShapeInv, dbVars, indexVars
<1>5. LockInv'
  BY <1>1, <1>2, <1>3, SMT DEF IInv, LockInv, Excludes, lockVars, Outside
<1>6. Phase(thread[t])'
  BY <1>1, <1>2, FreeThreadsKnowNothing DEF Busy
<1>7. UNCHANGED guarded
  BY <1>3 DEF guarded, dbVars, indexVars
<1> QED BY <1>1, <1>2, <1>3, <1>4, <1>5, <1>6, <1>7, QuietStep

\* lifecycle_mu_ is taken first.
LEMMA LockLifecycleStep ==
  ASSUME IInv, NEW t \in Threads, LockLifecycle(t)
  PROVE  IInv'
<1> USE Zenon
<1> DEFINE x == [thread[t] EXCEPT !.pc = "coordination"]
           mode == LifecycleMode(thread[t].req.op)
<1>1. thread[t].pc = "lifecycle" /\ thread[t] \in [pc : PCs, req : Requests]
  BY DEF LockLifecycle, IInv, ShapeInv, ThreadShape
<1>2. x.pc = "coordination" /\ x.req = thread[t].req /\ ThreadShape(x)
      /\ thread' = [thread EXCEPT ![t] = x]
  BY <1>1 DEF ThreadShape, PCs, LockLifecycle
<1> HIDE DEF x
<1>3. /\ thread' = [u \in Threads |-> thread'[u]] /\ \A u \in Threads : ThreadShape(thread'[u])
      /\ thread'[t] = x /\ \A u \in Threads : u # t => thread'[u] = thread[u]
  BY <1>2, OneThread DEF IInv
<1>4. /\ UNCHANGED <<dbVars, indexVars, coordination, calls, faults>>
      /\ Grants(lifecycle, t, mode) /\ lifecycle' = [lifecycle EXCEPT ![t] = mode]
  BY DEF LockLifecycle
<1>5. mode \in {"shared", "exclusive"}
  BY DEF LifecycleMode
<1>6. ShapeInv'
  BY <1>3, <1>4 DEF IInv, ShapeInv, dbVars, indexVars
<1>7. LockInv'
  <2>1. Excludes(lifecycle)'
    BY <1>4, <1>5 DEF IInv, LockInv, Excludes, Grants
  <2>2. \A u \in Threads : lifecycle'[u] = IF thread'[u].pc \in {"idle", "lifecycle"} THEN "none"
                                           ELSE LifecycleMode(thread'[u].req.op)
    BY <1>2, <1>3, <1>4 DEF IInv, LockInv
  <2>3. \A u \in Threads : coordination'[u] = IF thread'[u].pc \in Outside THEN "none"
                                              ELSE CoordinationMode(thread'[u].req.op)
    BY <1>1, <1>2, <1>3, <1>4 DEF IInv, LockInv, Outside
  <2>4. lifecycle' \in [Threads -> Modes] /\ coordination' \in [Threads -> Modes]
    BY <1>4, <1>5 DEF IInv, LockInv, Modes
  <2>5. Excludes(coordination)'
    BY <1>4 DEF IInv, LockInv, Excludes
  <2> QED BY <2>1, <2>2, <2>3, <2>4, <2>5 DEF LockInv
<1>8. Phase(thread[t])'
  BY <1>2, <1>3, FreeThreadsKnowNothing DEF Busy
<1>9. UNCHANGED guarded
  BY <1>4 DEF guarded, dbVars, indexVars
<1> QED BY <1>1, <1>2, <1>3, <1>6, <1>7, <1>8, <1>9, QuietStep

\* coordination_mu_ is taken second, by the operations that need it.
LEMMA LockCoordinationStep ==
  ASSUME IInv, NEW t \in Threads, LockCoordination(t)
  PROVE  IInv'
<1> USE Zenon
<1> DEFINE x == [thread[t] EXCEPT !.pc = "body"]
           mode == CoordinationMode(thread[t].req.op)
<1>1. thread[t].pc = "coordination" /\ thread[t] \in [pc : PCs, req : Requests]
  BY DEF LockCoordination, IInv, ShapeInv, ThreadShape
<1>2. x.pc = "body" /\ x.req = thread[t].req /\ ThreadShape(x) /\ thread' = [thread EXCEPT ![t] = x]
  BY <1>1 DEF ThreadShape, PCs, LockCoordination
<1> HIDE DEF x
<1>3. /\ thread' = [u \in Threads |-> thread'[u]] /\ \A u \in Threads : ThreadShape(thread'[u])
      /\ thread'[t] = x /\ \A u \in Threads : u # t => thread'[u] = thread[u]
  BY <1>2, OneThread DEF IInv
<1>4. /\ UNCHANGED <<dbVars, indexVars, lifecycle, calls, faults>>
      /\ mode = "none" \/ Grants(coordination, t, mode)
      /\ coordination' = [coordination EXCEPT ![t] = mode]
  BY DEF LockCoordination
<1>5. mode \in Modes
  <2>1. thread[t].req.op \in Operations
    BY <1>1, RequestType
  <2> QED BY <2>1 DEF CoordinationMode, Operations, Modes
<1>6. ShapeInv'
  BY <1>3, <1>4 DEF IInv, ShapeInv, dbVars, indexVars
<1>7. LockInv'
  <2>1. Excludes(coordination)'
    <3> HIDE DEF mode
    <3>1. \A u \in Threads : u # t => coordination'[u] = coordination[u]
      BY <1>4, SMT
    <3>2. coordination'[t] = mode
      BY <1>4 DEF IInv, LockInv
    <3> QED BY <1>4, <1>5, <3>1, <3>2 DEF IInv, LockInv, Excludes, Grants, Modes
  <2>2. \A u \in Threads : coordination'[u] = IF thread'[u].pc \in Outside THEN "none"
                                              ELSE CoordinationMode(thread'[u].req.op)
    <3> HIDE DEF mode
    <3> QED BY <1>2, <1>3, <1>4 DEF IInv, LockInv, Outside, mode
  <2>3. \A u \in Threads : lifecycle'[u] = IF thread'[u].pc \in {"idle", "lifecycle"} THEN "none"
                                           ELSE LifecycleMode(thread'[u].req.op)
    BY <1>1, <1>2, <1>3, <1>4 DEF IInv, LockInv
  <2>4. lifecycle' \in [Threads -> Modes] /\ coordination' \in [Threads -> Modes]
    BY <1>4, <1>5 DEF IInv, LockInv
  <2>5. Excludes(lifecycle)'
    BY <1>4 DEF IInv, LockInv, Excludes
  <2> QED BY <2>1, <2>2, <2>3, <2>4, <2>5 DEF LockInv
<1>8. Phase(thread[t])'
  BY <1>2, <1>3, FreeThreadsKnowNothing DEF Busy
<1>9. UNCHANGED guarded
  BY <1>4 DEF guarded, dbVars, indexVars
<1> QED BY <1>1, <1>2, <1>3, <1>6, <1>7, <1>8, <1>9, QuietStep

\* A call returns and its mutexes are free again.
LEMMA ReturnStep ==
  ASSUME IInv, NEW t \in Threads, Return(t)
  PROVE  IInv'
<1> USE Zenon
<1>1. ThreadShape(Idle) /\ Idle.pc = "idle"
  BY DEF ThreadShape, Idle
<1>2. /\ thread' = [u \in Threads |-> thread'[u]] /\ \A u \in Threads : ThreadShape(thread'[u])
      /\ thread'[t] = Idle /\ \A u \in Threads : u # t => thread'[u] = thread[u]
  BY <1>1, OneThread DEF IInv, Return
<1>3. /\ thread[t].pc = "return" /\ UNCHANGED <<dbVars, indexVars, calls, faults>>
      /\ lifecycle' = [lifecycle EXCEPT ![t] = "none"]
      /\ coordination' = [coordination EXCEPT ![t] = "none"]
  BY DEF Return
<1>4. ShapeInv'
  BY <1>2, <1>3 DEF IInv, ShapeInv, dbVars, indexVars
<1>5. LockInv'
  BY <1>1, <1>2, <1>3, SMT DEF IInv, LockInv, Excludes, Modes, Outside
<1>6. Phase(thread[t])'
  BY <1>1, <1>2, FreeThreadsKnowNothing DEF Busy
<1>7. UNCHANGED guarded
  BY <1>3 DEF guarded, dbVars, indexVars
<1> QED BY <1>1, <1>2, <1>3, <1>4, <1>5, <1>6, <1>7, QuietStep

\* A refused call, and a compaction, only return.
LEMMA QuietReturn ==
  ASSUME IInv, NEW t \in Threads, thread[t].pc = "body", thread[t].req.op # "Write",
         Returns(t), UNCHANGED <<dbVars, indexVars, lockVars, calls, faults>>
  PROVE  IInv'
<1> USE Zenon
<1> DEFINE x == [pc |-> "return", req |-> thread[t].req]
<1>1. thread[t] \in [pc : PCs, req : Requests]
  BY DEF IInv, ShapeInv, ThreadShape
<1>2. x.pc = "return" /\ x.req = thread[t].req /\ DOMAIN x = {"pc", "req"} /\ ThreadShape(x)
      /\ thread' = [thread EXCEPT ![t] = x]
  BY <1>1 DEF ThreadShape, PCs, Returns
<1> HIDE DEF x
<1>3. /\ thread' = [u \in Threads |-> thread'[u]] /\ \A u \in Threads : ThreadShape(thread'[u])
      /\ thread'[t] = x /\ \A u \in Threads : u # t => thread'[u] = thread[u]
  BY <1>2, OneThread DEF IInv
<1>4. ShapeInv'
  BY <1>3 DEF IInv, ShapeInv, dbVars, indexVars
<1>5. LockInv'
  BY <1>2, <1>3, LocksAreKept DEF Outside
<1>6. Phase(thread[t])'
  BY <1>2, <1>3 DEF Phase, WritePhase, SearchPhase
<1>7. UNCHANGED guarded
  BY DEF guarded, dbVars, indexVars
<1> QED BY <1>2, <1>3, <1>4, <1>5, <1>6, <1>7, QuietStep

\* Open on an open database, a rebuild or a search that is refused, and Compact.
LEMMA RefusedSteps ==
  ASSUME IInv, NEW t \in Threads,
         OpenRefused(t) \/ RebuildIndexRefused(t) \/ SearchRefused(t) \/ Compact(t)
  PROVE  IInv'
<1>1. /\ thread[t].pc = "body" /\ thread[t].req.op # "Write" /\ Returns(t)
      /\ UNCHANGED <<dbVars, indexVars, lockVars, calls, faults>>
  BY Zenon DEF OpenRefused, RebuildIndexRefused, SearchRefused, Compact, InBody,
    IsSearch
<1> QED BY <1>1, QuietReturn, Zenon

\* A search picks the index it will use.
LEMMA SearchStartsStep ==
  ASSUME IInv, NEW t \in Threads, SearchStarts(t)
  PROVE  IInv'
<1> USE Zenon
<1> DEFINE h == IF thread[t].req.op = "Search" THEN EmptyIndex ELSE BuildIndex(Asked(t))
           x == [pc |-> "search", req |-> thread[t].req, historical |-> h]
<1>1. thread[t] \in [pc : PCs, req : Requests] /\ thread[t].pc = "body"
      /\ thread[t].req.op \in {"Search", "SearchSnapshot"} /\ CanSearch(t)
      /\ thread' = [thread EXCEPT ![t] = x]
      /\ UNCHANGED <<dbVars, indexVars, lockVars, calls, faults>>
  BY DEF IInv, ShapeInv, ThreadShape, SearchStarts, IsSearch, InBody
<1>2. thread[t].req \in SearchRequests
  BY <1>1, RequestType
<1>3. /\ thread[t].req.op = "Search" => state = "Ready" /\ h = EmptyIndex
      /\ thread[t].req.op = "SearchSnapshot" =>
           /\ frozen[thread[t].req.snap] # Released
           /\ frozen[thread[t].req.snap] \in Views
           /\ h = BuildIndex(frozen[thread[t].req.snap])
  BY <1>1, RequestType DEF CanSearch, Asked, IInv, ShapeInv
<1>4. h \in Indexes
  <2>1. EmptyIndex \in Indexes
    BY DEF EmptyIndex, Indexes
  <2> HIDE DEF h
  <2> QED BY <1>1, <1>3, <2>1, BuildIndexIsExact
<1> HIDE DEF h
<1>5. x.pc = "search" /\ x.req = thread[t].req /\ x.historical = h /\ ThreadShape(x)
  BY <1>2, <1>4 DEF ThreadShape, PCs
<1> HIDE DEF x
<1>6. /\ thread' = [u \in Threads |-> thread'[u]] /\ \A u \in Threads : ThreadShape(thread'[u])
      /\ thread'[t] = x /\ \A u \in Threads : u # t => thread'[u] = thread[u]
  BY <1>1, <1>5, OneThread DEF IInv
<1>7. ShapeInv'
  BY <1>1, <1>6 DEF IInv, ShapeInv, dbVars, indexVars
<1>8. LockInv'
  BY <1>1, <1>5, <1>6, LocksAreKept DEF Outside
<1>9. Phase(thread[t])'
  BY <1>1, <1>3, <1>5, <1>6 DEF Phase, WritePhase, SearchPhase, dbVars, indexVars
<1>10. UNCHANGED guarded
  BY <1>1 DEF guarded, dbVars, indexVars
<1> QED BY <1>1, <1>5, <1>6, <1>7, <1>8, <1>9, <1>10, QuietStep

\* A search returns nodes that are visible in the index it uses, which is an exact
\* index of the view it was asked about: the shared lock keeps every write out.
LEMMA SearchEndsStep ==
  ASSUME IInv, NEW t \in Threads, SearchEnds(t)
  PROVE  IInv'
<1> USE Zenon
<1> DEFINE selected == IF thread[t].req.op = "Search" THEN index ELSE thread[t].historical
<1>1. thread[t].pc = "search" /\ thread[t].req \in SearchRequests /\ thread[t].historical \in Indexes
      /\ UNCHANGED <<dbVars, indexVars, lockVars, calls, faults>>
  BY DEF SearchEnds, IInv, ShapeInv, ThreadShape
<1>2. PICK found \in Findings(selected, MaxSequence, TopK) :
        thread' = [thread EXCEPT ![t] = [pc |-> "return", req |-> thread[t].req, found |-> found]]
  BY DEF SearchEnds
<1> DEFINE x == [pc |-> "return", req |-> thread[t].req, found |-> found]
           pairs == {<<n.key, n.vec>> : n \in found}
<1>3. found \subseteq Visible(selected, MaxSequence) /\ pairs \subseteq Indexed(selected)
  BY DEF Findings, Indexed
<1>4. found \in SUBSET Nodes
  BY <1>1, <1>3 DEF Visible, IInv, ShapeInv, Indexes
<1>5. x.pc = "return" /\ x.req = thread[t].req /\ x.found = found /\ ThreadShape(x)
  BY <1>1, <1>4 DEF ThreadShape, PCs
<1>6. ASSUME thread[t].req.op = "Search" PROVE pairs \subseteq Stored(view)
  <2>1. state = "Ready"
    BY <1>1, <1>6 DEF IInv, PhaseInv, Phase, SearchPhase
  <2>2. ASSUME NEW u \in Threads, thread[u].pc = "index" PROVE FALSE
    <3>1. u # t /\ coordination[t] = "shared"
      BY <1>1, <1>6, <2>2 DEF IInv, LockInv, Outside, CoordinationMode
    <3>2. ThreadShape(thread[u])
      BY DEF IInv, ShapeInv
    <3>3. coordination[u] = "exclusive"
      BY <2>2, <3>2, ThreadRequest DEF IInv, LockInv, Outside, CoordinationMode
    <3> QED BY <3>1, <3>3 DEF IInv, LockInv, Excludes
  <2>3. Indexed(index) = Stored(view)
    BY <2>1, <2>2 DEF IInv, StateInv
  <2> QED BY <1>3, <1>6, <2>3
<1>7. ASSUME thread[t].req.op # "Search"
      PROVE  /\ frozen[thread[t].req.snap] # Released
             /\ pairs \subseteq Stored(frozen[thread[t].req.snap])
  <2>1. thread[t].req.op = "SearchSnapshot" /\ thread[t].req.snap \in Snaps
    BY <1>1, <1>7 DEF SearchRequests
  <2>2. /\ frozen[thread[t].req.snap] # Released /\ frozen[thread[t].req.snap] \in Views
        /\ thread[t].historical = BuildIndex(frozen[thread[t].req.snap])
    BY <1>1, <1>7, <2>1 DEF IInv, PhaseInv, Phase, SearchPhase, ShapeInv
  <2> QED BY <1>3, <1>7, <2>2, BuildIndexIsExact
<1> HIDE DEF x, selected
<1>8. /\ thread' = [u \in Threads |-> thread'[u]] /\ \A u \in Threads : ThreadShape(thread'[u])
      /\ thread'[t] = x /\ \A u \in Threads : u # t => thread'[u] = thread[u]
  BY <1>2, <1>5, OneThread DEF IInv, x
<1>9. ShapeInv'
  BY <1>1, <1>8 DEF IInv, ShapeInv, dbVars, indexVars
<1>10. LockInv'
  BY <1>1, <1>5, <1>8, LocksAreKept DEF Outside
<1>11. Phase(thread[t])'
  <2>1. thread'[t].req.op # "Write"
    BY <1>1, <1>5, <1>8 DEF SearchRequests
  <2>2. view' = view /\ frozen' = frozen
    BY <1>1 DEF dbVars
  <2>3. thread'[t].pc = "return" /\ thread'[t].found = found /\ thread'[t].req = thread[t].req
    BY <1>5, <1>8
  <2>4. SearchPhase(thread[t])'
    BY <1>6, <1>7, <2>2, <2>3 DEF SearchPhase
  <2> QED BY <2>1, <2>3, <2>4 DEF Phase, WritePhase
<1>12. UNCHANGED guarded
  BY <1>1 DEF guarded, dbVars, indexVars
<1> QED BY <1>1, <1>5, <1>8, <1>9, <1>10, <1>11, <1>12, QuietStep

\* A new snapshot changes no handle that is in use.
LEMMA GetSnapshotStep ==
  ASSUME IInv, NEW t \in Threads, GetSnapshot(t)
  PROVE  IInv'
<1> USE Zenon
<1> DEFINE x == [pc |-> "return", req |-> thread[t].req]
           s == thread[t].req.snap
<1>1. /\ thread[t] \in [pc : PCs, req : Requests] /\ thread[t].pc = "body"
      /\ thread[t].req.op = "GetSnapshot" /\ thread' = [thread EXCEPT ![t] = x]
      /\ UNCHANGED <<view, restart, dbUp, dbFailed, indexVars, lockVars, calls, faults>>
      /\ frozen' = IF dbUp /\ frozen[s] = Released THEN [frozen EXCEPT ![s] = view] ELSE frozen
  BY DEF IInv, ShapeInv, ThreadShape, GetSnapshot, InBody, Returns
<1>2. x.pc = "return" /\ x.req = thread[t].req /\ DOMAIN x = {"pc", "req"} /\ ThreadShape(x)
  BY <1>1 DEF ThreadShape, PCs
<1>3. s \in Snaps
  BY <1>1, RequestType
<1> HIDE DEF x, s
<1>4. /\ thread' = [u \in Threads |-> thread'[u]] /\ \A u \in Threads : ThreadShape(thread'[u])
      /\ thread'[t] = x /\ \A u \in Threads : u # t => thread'[u] = thread[u]
  BY <1>1, <1>2, OneThread DEF IInv
<1>5. /\ frozen' \in [Snaps -> Views \cup {Released}]
      /\ \A r \in Snaps : frozen[r] # Released => frozen'[r] = frozen[r]
  BY <1>1, <1>3 DEF IInv, ShapeInv
<1>6. ShapeInv'
  BY <1>1, <1>4, <1>5 DEF IInv, ShapeInv, indexVars
<1>7. LockInv'
  BY <1>1, <1>2, <1>4, LocksAreKept DEF Outside
<1>8. StateInv'
  <2>1. \A u \in Threads : thread[u].pc \in {"opening", "rebuild", "index"} => thread'[u] = thread[u]
    BY <1>1, <1>4
  <2>2. \A u \in Threads : thread'[u].pc \in {"opening", "rebuild", "index"} => thread'[u] = thread[u]
    BY <1>2, <1>4
  <2> QED BY <1>1, <2>1, <2>2 DEF IInv, StateInv, indexVars
<1>9. ASSUME NEW u \in Threads PROVE Phase(thread[u])'
  <2>1. CASE u = t
    BY <1>1, <1>2, <1>4, <2>1 DEF Phase, WritePhase, SearchPhase
  <2>2. CASE u # t
    <3>1. thread'[u] = thread[u] /\ ThreadShape(thread[u]) /\ Phase(thread[u])
      BY <1>4, <2>2 DEF IInv, PhaseInv, ShapeInv
    <3>2. thread[u].pc = "search" \/ (thread[u].pc = "return" /\ "found" \in DOMAIN thread[u])
          => thread[u].req.op = "Search" \/ thread[u].req.snap \in Snaps
      <4>1. thread[u].pc = "search" \/ (thread[u].pc = "return" /\ "found" \in DOMAIN thread[u])
            => thread[u].req \in SearchRequests
        BY ONLY <3>1, SMT DEF ThreadShape
      <4> QED BY <4>1 DEF SearchRequests
    <3>3. SearchPhase(thread[u])'
      <4>1. state' = state /\ view' = view
        BY <1>1 DEF indexVars
      <4>2. SearchPhase(thread[u])
        BY <3>1 DEF Phase
      <4> QED BY <1>5, <3>1, <3>2, <4>1, <4>2, SMT DEF SearchPhase
    <3>4. WritePhase(thread[u])'
      BY <1>1, <3>1 DEF Phase, WritePhase, indexVars
    <3> QED BY <1>1, <3>1, <3>3, <3>4 DEF Phase, indexVars
  <2> QED BY <2>1, <2>2
<1> QED BY <1>6, <1>7, <1>8, <1>9 DEF IInv, PhaseInv

-----------------------------------------------------------------------------
(***************************************************************************)
(* VectorDB: steps that hold coordination_mu_ exclusively.                 *)
(***************************************************************************)

\* At these points of a call no other thread relies on the guarded variables.
LEMMA ExclusivePoints ==
  ASSUME IInv, NEW t \in Threads,
         \/ thread[t].pc \in {"opening", "rebuild", "index"}
         \/ /\ thread[t].pc = "body"
            /\ thread[t].req.op \in {"Open", "Close", "Write", "RebuildIndex", "ReleaseSnapshot"}
  PROVE  /\ coordination[t] = "exclusive" /\ thread[t].pc \notin Outside
         /\ \A u \in Threads : u # t => thread[u].pc \notin {"opening", "rebuild", "index"}
         /\ thread[t].pc = "body" => state \in {"Closed", "Ready", "Dirty"}
<1> USE Zenon
<1>1. ThreadShape(thread[t]) /\ thread[t].pc \notin Outside
  BY DEF IInv, ShapeInv, Outside
<1>2. thread[t].req.op \in {"Open", "Close", "Write", "RebuildIndex", "ReleaseSnapshot"}
  BY <1>1, ThreadRequest DEF Outside
<1>3. coordination[t] = "exclusive"
  BY <1>1, <1>2 DEF IInv, LockInv, CoordinationMode
<1>4. \A u \in Threads : u # t => thread[u].pc \notin {"opening", "rebuild", "index"}
  BY <1>3, OthersAreFree DEF IInv, Busy
<1>5. thread[t].pc = "body" => state \in {"Closed", "Ready", "Dirty"}
  BY <1>4 DEF IInv, StateInv, ShapeInv, IndexStates
<1> QED BY <1>1, <1>3, <1>4, <1>5

\* Open marks the database as opening.
LEMMA OpenStartsStep ==
  ASSUME IInv, NEW t \in Threads, OpenStarts(t)
  PROVE  IInv'
<1> USE Zenon
<1> DEFINE x == [thread[t] EXCEPT !.pc = "opening"]
<1>1. /\ thread[t] \in [pc : PCs, req : Requests] /\ thread[t].pc = "body" /\ thread[t].req.op = "Open"
      /\ state' = "Opening" /\ thread' = [thread EXCEPT ![t] = x]
      /\ UNCHANGED <<dbVars, index, indexOk, indexSeq, opsSince, lockVars, calls, faults>>
  BY DEF IInv, ShapeInv, ThreadShape, OpenStarts, InBody
<1>2. x.pc = "opening" /\ x.req = thread[t].req /\ ThreadShape(x)
  BY <1>1, RequestType DEF ThreadShape, PCs
<1> HIDE DEF x
<1>3. /\ thread' = [u \in Threads |-> thread'[u]] /\ \A u \in Threads : ThreadShape(thread'[u])
      /\ thread'[t] = x /\ \A u \in Threads : u # t => thread'[u] = thread[u]
  BY <1>1, <1>2, OneThread DEF IInv
<1>4. ShapeInv'
  BY <1>1, <1>3 DEF IInv, ShapeInv, dbVars, IndexStates
<1>5. StateInv'
  BY <1>1, <1>2, <1>3 DEF IInv, StateInv, dbVars
<1>6. Phase(thread[t])'
  BY <1>1, <1>2, <1>3 DEF Phase, WritePhase, SearchPhase
<1> QED BY <1>1, <1>2, <1>3, <1>4, <1>5, <1>6, ExclusivePoints, ExclusiveStep DEF Outside

\* db_.Open succeeded, and the index is to be rebuilt.
LEMMA OpenOpensDBStep ==
  ASSUME IInv, NEW t \in Threads, OpenOpensDB(t)
  PROVE  IInv'
<1> USE Zenon
<1> DEFINE x == [thread[t] EXCEPT !.pc = "rebuild"]
<1>1. /\ thread[t] \in [pc : PCs, req : OpenRequests] /\ thread[t].pc = "opening"
      /\ dbUp' = TRUE /\ state' = "Rebuilding" /\ thread' = [thread EXCEPT ![t] = x]
      /\ UNCHANGED <<view, restart, dbFailed, frozen, index, indexOk, indexSeq, opsSince,
                     lockVars, calls, faults>>
  BY DEF IInv, ShapeInv, ThreadShape, OpenOpensDB
<1>2. x.pc = "rebuild" /\ x.req = thread[t].req /\ x.req.op = "Open" /\ ThreadShape(x)
  BY <1>1 DEF ThreadShape, PCs, OpenRequests
<1> HIDE DEF x
<1>3. /\ thread' = [u \in Threads |-> thread'[u]] /\ \A u \in Threads : ThreadShape(thread'[u])
      /\ thread'[t] = x /\ \A u \in Threads : u # t => thread'[u] = thread[u]
  BY <1>1, <1>2, OneThread DEF IInv
<1>4. ShapeInv'
  BY <1>1, <1>3 DEF IInv, ShapeInv, IndexStates
<1>5. StateInv'
  BY <1>1, <1>2, <1>3 DEF IInv, StateInv
<1>6. Phase(thread[t])'
  BY <1>1, <1>2, <1>3 DEF Phase, WritePhase, SearchPhase
<1> QED BY <1>1, <1>2, <1>3, <1>4, <1>5, <1>6, ExclusivePoints, ExclusiveStep DEF Outside

\* The database is closed, by Close or after a failed Open.
LEMMA ClosedStep ==
  ASSUME IInv, NEW t \in Threads,
         thread[t].pc \in {"body", "opening", "rebuild"}, thread[t].req.op \in {"Open", "Close"},
         CloseDB, index' = EmptyIndex, state' = "Closed", indexOk' \in BOOLEAN, Returns(t),
         UNCHANGED <<indexSeq, opsSince, lockVars, calls>>, faults' \in 0..MaxFaults
  PROVE  IInv'
<1> USE Zenon
<1> DEFINE x == [pc |-> "return", req |-> thread[t].req]
<1>1. ThreadShape(thread[t]) /\ thread[t].req \in Requests
  BY ThreadRequest DEF IInv, ShapeInv
<1>2. /\ x.pc = "return" /\ x.req = thread[t].req /\ DOMAIN x = {"pc", "req"} /\ ThreadShape(x)
      /\ x.req.op # "Write" /\ thread' = [thread EXCEPT ![t] = x]
  BY <1>1 DEF ThreadShape, PCs, Returns
<1> HIDE DEF x
<1>3. /\ thread' = [u \in Threads |-> thread'[u]] /\ \A u \in Threads : ThreadShape(thread'[u])
      /\ thread'[t] = x /\ \A u \in Threads : u # t => thread'[u] = thread[u]
  BY <1>2, OneThread DEF IInv
<1>4. ShapeInv'
  <2>1. EmptyIndex \in Indexes
    BY DEF EmptyIndex, Indexes
  <2>2. view' \in Views /\ restart' \in Views /\ dbUp' \in BOOLEAN /\ dbFailed' \in BOOLEAN
        /\ frozen' \in [Snaps -> Views \cup {Released}]
    BY DEF CloseDB, IInv, ShapeInv
  <2> QED BY <1>3, <2>1, <2>2 DEF IInv, ShapeInv, IndexStates
<1>5. StateInv'
  BY DEF StateInv, CloseDB
<1>6. Phase(thread[t])'
  BY <1>2, <1>3 DEF Phase, WritePhase, SearchPhase
<1> QED BY <1>1, <1>2, <1>3, <1>4, <1>5, <1>6, ExclusivePoints, ExclusiveStep DEF Outside

\* Close, and Open when db_.Open fails.
LEMMA CloseSteps ==
  ASSUME IInv, NEW t \in Threads, Close(t) \/ OpenFails(t)
  PROVE  IInv'
<1> USE Zenon
<1>1. CASE Close(t)
  BY <1>1, ClosedStep DEF Close, InBody, IInv, ShapeInv
<1>2. CASE OpenFails(t)
  <2>1. thread[t].pc = "opening" /\ thread[t].req.op = "Open"
    BY <1>2, ThreadRequest DEF OpenFails, IInv, ShapeInv
  <2>2. faults' \in 0..MaxFaults
    BY <1>2, BoundsAreNat, SMT DEF OpenFails, Fault, IInv, ShapeInv
  <2> QED BY <1>2, <2>1, <2>2, ClosedStep DEF OpenFails, OpenGivesUp
<1> QED BY <1>1, <1>2

\* RebuildIndex starts.
LEMMA RebuildIndexStep ==
  ASSUME IInv, NEW t \in Threads, RebuildIndex(t)
  PROVE  IInv'
<1> USE Zenon
<1> DEFINE x == [thread[t] EXCEPT !.pc = "rebuild"]
<1>1. /\ thread[t] \in [pc : PCs, req : Requests] /\ thread[t].pc = "body"
      /\ thread[t].req.op = "RebuildIndex" /\ CheckOpen
      /\ state' = "Rebuilding" /\ thread' = [thread EXCEPT ![t] = x]
      /\ UNCHANGED <<dbVars, index, indexOk, indexSeq, opsSince, lockVars, calls, faults>>
  BY DEF IInv, ShapeInv, ThreadShape, RebuildIndex, InBody
<1>2. x.pc = "rebuild" /\ x.req = thread[t].req /\ x.req.op = "RebuildIndex" /\ ThreadShape(x)
  BY <1>1, RequestType DEF ThreadShape, PCs
<1> HIDE DEF x
<1>3. /\ thread' = [u \in Threads |-> thread'[u]] /\ \A u \in Threads : ThreadShape(thread'[u])
      /\ thread'[t] = x /\ \A u \in Threads : u # t => thread'[u] = thread[u]
  BY <1>1, <1>2, OneThread DEF IInv
<1>4. ShapeInv'
  BY <1>1, <1>3 DEF IInv, ShapeInv, dbVars, IndexStates
<1>5. StateInv'
  BY <1>1, <1>2, <1>3 DEF IInv, StateInv, dbVars
<1>6. Phase(thread[t])'
  <2>1. ~BuildIndexFails(view)
    BY <1>1, ExclusivePoints DEF CheckOpen, IInv, StateInv
  <2>2. ~BuildIndexFails(view)'
    BY <1>1, <2>1 DEF dbVars
  <2> QED BY <1>1, <1>2, <1>3, <2>2 DEF Phase, WritePhase, SearchPhase
<1> QED BY <1>1, <1>2, <1>3, <1>4, <1>5, <1>6, ExclusivePoints, ExclusiveStep DEF Outside

\* What a call remembers when it ends after the index was written.
LEMMA FinishShape ==
  ASSUME IInv, NEW t \in Threads, thread[t].pc \in {"rebuild", "index"},
         NEW c \in CommitStates, Finishes(t, c)
  PROVE  /\ thread' = [u \in Threads |-> thread'[u]] /\ \A u \in Threads : ThreadShape(thread'[u])
         /\ thread'[t].pc = "return" /\ thread'[t].req = thread[t].req
         /\ "found" \notin DOMAIN thread'[t]
         /\ thread[t].req.op = "Write" => /\ thread'[t].commit = c
                                          /\ thread'[t].before = thread[t].before
         /\ \A u \in Threads : u # t => thread'[u] = thread[u]
<1> USE Zenon
<1> DEFINE x == IF thread[t].req.op = "Write"
                THEN [pc |-> "return", req |-> thread[t].req, commit |-> c, before |-> thread[t].before]
                ELSE [pc |-> "return", req |-> thread[t].req]
<1>1. ThreadShape(thread[t]) /\ thread[t].req \in Requests
  BY ThreadRequest DEF IInv, ShapeInv
<1>2. thread[t].req.op = "Write" => thread[t].req \in WriteRequests /\ thread[t].before \in Views
  BY <1>1, RequestType DEF ThreadShape
<1>3. /\ x.pc = "return" /\ x.req = thread[t].req /\ "found" \notin DOMAIN x
      /\ thread[t].req.op = "Write" => x.commit = c /\ x.before = thread[t].before
  BY ONLY SMT
<1>4. ThreadShape(x)
  BY <1>1, <1>2 DEF ThreadShape, PCs
<1>5. thread' = [thread EXCEPT ![t] = x]
  BY DEF Finishes
<1> HIDE DEF x
<1> QED BY <1>3, <1>4, <1>5, OneThread DEF IInv

\* A rebuild that succeeds publishes an exact index.
LEMMA RebuildPublishesStep ==
  ASSUME IInv, NEW t \in Threads, RebuildPublishes(t)
  PROVE  IInv'
<1> USE Zenon
<1>1. /\ thread[t].pc = "rebuild" /\ ~BuildIndexFails(view) /\ index' = BuildIndex(view)
      /\ indexSeq' = 0 /\ opsSince' = 0 /\ state' = "Ready" /\ indexOk' = TRUE
      /\ UNCHANGED <<view, restart, dbUp, dbFailed, frozen, lockVars, calls, faults>>
  BY DEF RebuildPublishes, dbVars
<1>2. /\ thread' = [u \in Threads |-> thread'[u]] /\ \A u \in Threads : ThreadShape(thread'[u])
      /\ thread'[t].pc = "return" /\ thread'[t].req = thread[t].req
      /\ "found" \notin DOMAIN thread'[t]
      /\ thread[t].req.op = "Write" => /\ thread'[t].commit = "Committed"
                                       /\ thread'[t].before = thread[t].before
      /\ \A u \in Threads : u # t => thread'[u] = thread[u]
  BY <1>1, FinishShape DEF RebuildPublishes, CommitStates
<1>3. /\ index' \in Indexes /\ Indexed(index') = Stored(view) /\ Versioned(index', 0)
  BY <1>1, BuildIndexIsExact DEF IInv, ShapeInv
<1>4. ShapeInv'
  BY <1>1, <1>2, <1>3, BoundsAreNat, SMT DEF IInv, ShapeInv, IndexStates
<1>5. StateInv'
  BY <1>1, <1>3 DEF IInv, StateInv
<1>6. Phase(thread[t])'
  <2>1. thread[t].req.op = "Write" => view = Entire(thread[t]) /\ restart = Entire(thread[t])
    BY <1>1 DEF IInv, PhaseInv, Phase, WritePhase
  <2>2. thread[t].req.op = "Write" => Entire(thread'[t]) = Entire(thread[t])
    BY <1>2 DEF Entire
  <2> QED BY <1>1, <1>2, <2>1, <2>2 DEF Phase, WritePhase, SearchPhase
<1> QED BY <1>1, <1>2, <1>4, <1>5, <1>6, ExclusivePoints, ExclusiveStep DEF Outside

\* A write, or a rebuild for an open database, that fails: the index is dirty, by
\* a fault, and the contents of the database are what they were.
LEMMA DirtyStep ==
  ASSUME IInv, NEW t \in Threads, thread[t].pc \in {"rebuild", "index"},
         ~BuildIndexFails(view), faults' > 0, faults' \in 0..MaxFaults,
         MarkDirty, Finishes(t, "Committed"),
         UNCHANGED <<dbVars, opsSince, lockVars, calls>>,
         index' \in Indexes, indexSeq' \in 0..MaxSequence
  PROVE  IInv'
<1> USE Zenon
<1>1. UNCHANGED <<view, restart, dbUp, dbFailed, frozen>> /\ state' = "Dirty" /\ indexOk' = FALSE
  BY DEF MarkDirty, dbVars
<1>2. /\ thread' = [u \in Threads |-> thread'[u]] /\ \A u \in Threads : ThreadShape(thread'[u])
      /\ thread'[t].pc = "return" /\ thread'[t].req = thread[t].req
      /\ "found" \notin DOMAIN thread'[t]
      /\ thread[t].req.op = "Write" => /\ thread'[t].commit = "Committed"
                                       /\ thread'[t].before = thread[t].before
      /\ \A u \in Threads : u # t => thread'[u] = thread[u]
  BY FinishShape DEF CommitStates
<1>3. ShapeInv'
  BY <1>1, <1>2 DEF IInv, ShapeInv, IndexStates
<1>4. StateInv'
  BY <1>1 DEF StateInv
<1>5. Phase(thread[t])'
  <2>1. thread[t].req.op = "Write" => view = Entire(thread[t]) /\ restart = Entire(thread[t])
    BY DEF IInv, PhaseInv, Phase, WritePhase
  <2>2. thread[t].req.op = "Write" => Entire(thread'[t]) = Entire(thread[t])
    BY <1>2 DEF Entire
  <2> QED BY <1>1, <1>2, <2>1, <2>2 DEF Phase, WritePhase, SearchPhase
<1> QED BY <1>2, <1>3, <1>4, <1>5, ExclusivePoints, ExclusiveStep DEF Outside

\* A rebuild fails: Open closes the database, any other call leaves the index dirty.
LEMMA RebuildFailsStep ==
  ASSUME IInv, NEW t \in Threads, RebuildFails(t)
  PROVE  IInv'
<1> USE Zenon
<1>1. thread[t].pc = "rebuild" /\ faults' \in 0..MaxFaults
  BY BoundsAreNat, SMT DEF RebuildFails, Fault, IInv, ShapeInv
<1>2. CASE thread[t].req.op = "Open"
  BY <1>1, <1>2, ClosedStep DEF RebuildFails, OpenGivesUp
<1>3. CASE thread[t].req.op # "Open"
  <2>1. ~BuildIndexFails(view)
    BY <1>1, <1>3 DEF IInv, PhaseInv, Phase
  <2>2. faults' > 0
    BY <2>1, BoundsAreNat, SMT DEF RebuildFails, Fault, IInv, ShapeInv
  <2>3. /\ MarkDirty /\ Finishes(t, "Committed")
        /\ UNCHANGED <<dbVars, index, indexSeq, opsSince, lockVars, calls>>
    BY <1>3 DEF RebuildFails
  <2>4. index' \in Indexes /\ indexSeq' \in 0..MaxSequence
    BY <2>3 DEF IInv, ShapeInv
  <2> QED BY <1>1, <2>1, <2>2, <2>3, <2>4, DirtyStep
<1> QED BY <1>2, <1>3

\* What a write that ends before the index was touched remembers.
LEMMA WriteReturnShape ==
  ASSUME IInv, NEW t \in Threads, InBody(t, "Write"), NEW c \in CommitStates, WriteReturns(t, c)
  PROVE  /\ thread' = [u \in Threads |-> thread'[u]] /\ \A u \in Threads : ThreadShape(thread'[u])
         /\ thread'[t].pc = "return" /\ thread'[t].req = thread[t].req
         /\ "found" \notin DOMAIN thread'[t]
         /\ thread'[t].commit = c /\ thread'[t].before = view
         /\ \A u \in Threads : u # t => thread'[u] = thread[u]
<1> USE Zenon
<1> DEFINE x == [pc |-> "return", req |-> thread[t].req, commit |-> c, before |-> view]
<1>1. thread[t].req \in WriteRequests
  BY RequestType DEF IInv, ShapeInv, ThreadShape, InBody
<1>2. /\ x.pc = "return" /\ x.req = thread[t].req /\ "found" \notin DOMAIN x
      /\ x.commit = c /\ x.before = view
  BY SMT
<1>3. ThreadShape(x)
  BY <1>1 DEF ThreadShape, PCs, IInv, ShapeInv
<1>4. thread' = [thread EXCEPT ![t] = x]
  BY DEF WriteReturns
<1> HIDE DEF x
<1> QED BY <1>2, <1>3, <1>4, OneThread DEF IInv

\* A batch that is not accepted changes nothing.
LEMMA WriteRejectedStep ==
  ASSUME IInv, NEW t \in Threads, WriteRejected(t)
  PROVE  IInv'
<1> USE Zenon
<1>1. /\ InBody(t, "Write") /\ WriteReturns(t, "NotCommitted")
      /\ UNCHANGED <<dbVars, indexVars, lockVars, calls, faults>>
  BY DEF WriteRejected
<1>2. /\ thread' = [u \in Threads |-> thread'[u]] /\ \A u \in Threads : ThreadShape(thread'[u])
      /\ thread'[t].pc = "return" /\ thread'[t].req = thread[t].req
      /\ "found" \notin DOMAIN thread'[t]
      /\ thread'[t].commit = "NotCommitted" /\ thread'[t].before = view
      /\ \A u \in Threads : u # t => thread'[u] = thread[u]
  BY <1>1, WriteReturnShape DEF CommitStates
<1>3. ShapeInv'
  BY <1>1, <1>2 DEF IInv, ShapeInv, dbVars, indexVars
<1>4. LockInv'
  BY <1>1, <1>2, LocksAreKept DEF Outside, InBody
<1>5. Phase(thread[t])'
  BY <1>1, <1>2 DEF Phase, WritePhase, SearchPhase, dbVars
<1>6. UNCHANGED guarded
  BY <1>1 DEF guarded, dbVars, indexVars
<1> QED BY <1>1, <1>2, <1>3, <1>4, <1>5, <1>6, QuietStep DEF InBody

\* The contents that a whole batch leaves.
LEMMA WholeType ==
  ASSUME IInv, NEW t \in Threads, InBody(t, "Write"), CheckOpen, ValidateBatch(Batch(t))
  PROVE  /\ Batch(t) \in Batches /\ Whole(t) \in Views /\ thread[t].req \in WriteRequests
         /\ ~BuildIndexFails(view) /\ ~BuildIndexFails(Whole(t))
         /\ state \in {"Ready", "Dirty"}
<1> USE Zenon
<1>1. thread[t].req \in WriteRequests
  BY RequestType DEF IInv, ShapeInv, ThreadShape, InBody
<1>2. Batch(t) \in Batches
  BY <1>1 DEF WriteRequests, Batch
<1>3. state \in {"Ready", "Dirty"}
  BY ExclusivePoints DEF InBody, CheckOpen
<1>4. view \in Views /\ ~BuildIndexFails(view)
  BY <1>3 DEF IInv, ShapeInv, StateInv
<1>5. Len(Batch(t)) \in 0..Len(Batch(t))
  BY <1>2, BatchType, SMT
<1>6. Whole(t) \in Views
  BY <1>2, <1>4, <1>5, AppliedType DEF Whole
<1>7. ~BuildIndexFails(Whole(t))
  BY <1>2, <1>4, AppliedDecodes DEF Whole
<1> QED BY <1>1, <1>2, <1>3, <1>4, <1>6, <1>7

\* db_.Write succeeds: a ready index is brought up to date next, a dirty one stays.
LEMMA WriteCommitsStep ==
  ASSUME IInv, NEW t \in Threads, WriteCommits(t)
  PROVE  IInv'
<1> USE Zenon
<1>1. /\ InBody(t, "Write") /\ CheckOpen /\ ValidateBatch(Batch(t))
      /\ view' = Whole(t) /\ restart' = Whole(t)
      /\ UNCHANGED <<dbUp, dbFailed, frozen, lockVars, calls, faults>>
      /\ UNCHANGED <<index, state, indexOk, indexSeq, opsSince>>
  BY DEF WriteCommits, indexVars
<1>2. /\ Batch(t) \in Batches /\ Whole(t) \in Views /\ thread[t].req \in WriteRequests
      /\ ~BuildIndexFails(view) /\ ~BuildIndexFails(Whole(t))
      /\ state \in {"Ready", "Dirty"}
  BY <1>1, WholeType
<1>3. CASE state = "Dirty"
  <2>1. WriteReturns(t, "Committed")
    BY <1>3 DEF WriteCommits
  <2>2. /\ thread' = [u \in Threads |-> thread'[u]] /\ \A u \in Threads : ThreadShape(thread'[u])
        /\ thread'[t].pc = "return" /\ thread'[t].req = thread[t].req
        /\ "found" \notin DOMAIN thread'[t]
        /\ thread'[t].commit = "Committed" /\ thread'[t].before = view
        /\ \A u \in Threads : u # t => thread'[u] = thread[u]
    BY <1>1, <2>1, WriteReturnShape DEF CommitStates
  <2>3. ShapeInv'
    BY <1>1, <1>2, <2>2 DEF IInv, ShapeInv
  <2>4. StateInv'
    BY <1>1, <1>2, <1>3 DEF IInv, StateInv
  <2>5. Phase(thread[t])'
    <3>1. Entire(thread'[t]) = Whole(t)
      BY <2>2 DEF Entire, Whole, Batch
    <3>2. ~indexOk
      BY <1>3 DEF IInv, StateInv
    <3> QED BY <1>1, <2>2, <3>1, <3>2 DEF Phase, WritePhase, SearchPhase
  <2> QED BY <1>1, <2>2, <2>3, <2>4, <2>5, ExclusivePoints, ExclusiveStep DEF Outside, InBody
<1>4. CASE state = "Ready"
  <2> DEFINE x == [pc |-> "index", req |-> thread[t].req, pos |-> 0, before |-> view]
  <2>1. thread' = [thread EXCEPT ![t] = x]
    BY <1>4 DEF WriteCommits
  <2>2. /\ x.pc = "index" /\ x.req = thread[t].req /\ x.pos = 0 /\ x.before = view /\ ThreadShape(x)
    BY <1>2 DEF ThreadShape, PCs, IInv, ShapeInv
  <2> HIDE DEF x
  <2>3. /\ thread' = [u \in Threads |-> thread'[u]] /\ \A u \in Threads : ThreadShape(thread'[u])
        /\ thread'[t] = x /\ \A u \in Threads : u # t => thread'[u] = thread[u]
    BY <2>1, <2>2, OneThread DEF IInv
  <2>4. ShapeInv'
    BY <1>1, <1>2, <2>3 DEF IInv, ShapeInv
  <2>5. StateInv'
    <3>1. ~(\A u \in Threads : thread'[u].pc # "index")
      BY <2>2, <2>3
    <3> QED BY <1>1, <1>2, <1>4, <3>1 DEF IInv, StateInv
  <2>6. Phase(thread[t])'
    <3>1. Entire(thread'[t]) = Whole(t)
      BY <2>2, <2>3 DEF Entire, Whole, Batch
    <3>2. Prefix(thread'[t]) = view
      BY <2>2, <2>3, AppliedNone DEF Prefix, IInv, ShapeInv
    <3>3. Indexed(index) = Stored(view)
      <4>1. \A u \in Threads : thread[u].pc # "index"
        BY <1>1, ExclusivePoints DEF InBody
      <4> QED BY <1>4, <4>1 DEF IInv, StateInv
    <3>4. 0 <= Len(x.req.batch)
      BY <1>2, <2>2, BatchType, SMT DEF Batch
    <3>5. WritePhase(thread[t])'
      BY <1>1, <1>4, <2>2, <2>3, <3>1, <3>2, <3>3, <3>4 DEF WritePhase
    <3> QED BY <2>2, <2>3, <3>5 DEF Phase, SearchPhase
  <2> QED BY <1>1, <2>2, <2>3, <2>4, <2>5, <2>6, ExclusivePoints, ExclusiveStep DEF Outside,
       InBody
<1> QED BY <1>2, <1>3, <1>4

\* db_.Write fails: nobody knows what it left, and the index is dirty.
LEMMA WriteFailsStep ==
  ASSUME IInv, NEW t \in Threads, WriteFails(t)
  PROVE  IInv'
<1> USE Zenon
<1>1. /\ InBody(t, "Write") /\ CheckOpen /\ ValidateBatch(Batch(t)) /\ WriteReturns(t, "Unknown")
      /\ state' = "Dirty" /\ indexOk' = FALSE
      /\ UNCHANGED <<dbUp, frozen, index, indexSeq, opsSince, lockVars, calls>>
  BY DEF WriteFails, MarkDirty
<1>2. /\ Batch(t) \in Batches /\ Whole(t) \in Views /\ thread[t].req \in WriteRequests
      /\ ~BuildIndexFails(view) /\ ~BuildIndexFails(Whole(t))
  BY <1>1, WholeType
<1>3. view' \in {view, Whole(t)} /\ restart' \in {restart, Whole(t)} /\ dbFailed' \in BOOLEAN
  BY DEF WriteFails, IInv, ShapeInv
<1>4. faults' \in 0..MaxFaults /\ faults' > 0
  BY BoundsAreNat, SMT DEF WriteFails, Fault, IInv, ShapeInv, StateInv
<1>5. /\ thread' = [u \in Threads |-> thread'[u]] /\ \A u \in Threads : ThreadShape(thread'[u])
      /\ thread'[t].pc = "return" /\ thread'[t].req = thread[t].req
      /\ "found" \notin DOMAIN thread'[t]
      /\ thread'[t].commit = "Unknown" /\ thread'[t].before = view
      /\ \A u \in Threads : u # t => thread'[u] = thread[u]
  BY <1>1, WriteReturnShape DEF CommitStates
<1>6. ShapeInv'
  <2>1. view' \in Views /\ restart' \in Views
    BY <1>2, <1>3 DEF IInv, ShapeInv
  <2> QED BY <1>1, <1>3, <1>4, <1>5, <2>1 DEF IInv, ShapeInv, IndexStates
<1>7. StateInv'
  <2>1. ~BuildIndexFails(view')
    BY <1>2, <1>3
  <2> QED BY <1>1, <1>4, <2>1 DEF StateInv
<1>8. Phase(thread[t])'
  <2>1. Entire(thread'[t]) = Whole(t)
    BY <1>5 DEF Entire, Whole, Batch
  <2> QED BY <1>1, <1>3, <1>5, <2>1 DEF Phase, WritePhase, SearchPhase
<1> QED BY <1>1, <1>5, <1>6, <1>7, <1>8, ExclusivePoints, ExclusiveStep DEF Outside, InBody

\* What a call in the loop over its batch relies on.
LEMMA LoopFacts ==
  ASSUME IInv, NEW t \in Threads, thread[t].pc = "index"
  PROVE  /\ thread[t] \in [pc : {"index"}, req : WriteRequests, pos : Nat, before : Views]
         /\ thread[t].req.op = "Write" /\ Batch(t) \in Batches /\ Len(Batch(t)) \in Nat
         /\ state = "Ready" /\ Versioned(index, indexSeq) /\ ~BuildIndexFails(view)
         /\ thread[t].pos <= Len(Batch(t))
         /\ Indexed(index) = Stored(Prefix(thread[t]))
         /\ view = Entire(thread[t]) /\ restart = Entire(thread[t])
<1> USE Zenon
<1>1. thread[t] \in [pc : {"index"}, req : WriteRequests, pos : Nat, before : Views]
  BY DEF IInv, ShapeInv, ThreadShape
<1>2. thread[t].req.op = "Write" /\ Batch(t) \in Batches
  BY <1>1 DEF WriteRequests, Batch
<1>3. /\ state = "Ready" /\ thread[t].pos <= Len(Batch(t))
      /\ Indexed(index) = Stored(Prefix(thread[t]))
      /\ view = Entire(thread[t]) /\ restart = Entire(thread[t])
  BY DEF IInv, PhaseInv, Phase, WritePhase, Batch
<1>4. Versioned(index, indexSeq) /\ ~BuildIndexFails(view)
  BY <1>3 DEF IInv, StateInv
<1> QED BY <1>1, <1>2, <1>3, <1>4, BatchType

\* The loop over the batch takes the index from one prefix of the batch to the
\* next, and no update is ever refused.
LEMMA WriteIndexesStep ==
  ASSUME IInv, NEW t \in Threads, WriteIndexes(t)
  PROVE  IInv'
<1> USE Zenon
<1> DEFINE b == Batch(t)
           n == thread[t].pos
           o == b[n + 1]
           s == indexSeq + 1
           m == Prefix(thread[t])
           x == [thread[t] EXCEPT !.pos = @ + 1]
<1>1. thread[t].pc = "index" /\ n < Len(b) /\ indexSeq < MaxSequence /\ indexSeq' = s
      /\ UNCHANGED <<dbVars, opsSince, lockVars, calls, faults>>
  BY DEF WriteIndexes, UpdatesIndex
<1>2. /\ thread[t] \in [pc : {"index"}, req : WriteRequests, pos : Nat, before : Views]
      /\ b \in Batches /\ Len(b) \in Nat
      /\ state = "Ready" /\ Versioned(index, indexSeq)
      /\ Indexed(index) = Stored(m)
      /\ view = Entire(thread[t]) /\ restart = Entire(thread[t])
  BY <1>1, LoopFacts
<1>3. n \in Nat /\ n + 1 \in 1..Len(b) /\ n \in 0..Len(b) /\ thread[t].before \in Views
      /\ indexSeq \in Nat /\ index \in Indexes
  BY <1>1, <1>2, BoundsAreNat, SMT DEF IInv, ShapeInv
<1>4. o.key \in Keys /\ o.deleted \in BOOLEAN /\ (~o.deleted => o.value \in Values)
  BY <1>2, <1>3, BatchType
<1>5. m \in Views
  BY <1>2, <1>3, AppliedType DEF Prefix, Batch
<1>6. Applied(thread[t].before, b, n + 1) = [m EXCEPT ![o.key] = Effect(o)]
  <2>1. m = Applied(thread[t].before, b, n)
    BY DEF Prefix, Batch
  <2> HIDE DEF m, b, n
  <2> QED BY <1>1, <1>2, <1>3, <2>1, AppliedStep, SMT
<1>7. Effect(o) \in Vectors <=> PutsVector(o)
  BY VectorsAreRecognised DEF Effect, PutsVector
<1>8. Stored(Applied(thread[t].before, b, n + 1)) =
        Without(Indexed(index), o.key) \cup (IF PutsVector(o) THEN {<<o.key, o.value>>} ELSE {})
  <2>1. PutsVector(o) => Effect(o) = o.value
    BY DEF PutsVector, Effect
  <2>2. Stored([m EXCEPT ![o.key] = Effect(o)]) =
          Without(Stored(m), o.key) \cup (IF Effect(o) \in Vectors THEN {<<o.key, Effect(o)>>} ELSE {})
    <3> HIDE DEF o, m
    <3> QED BY <1>4, <1>5, StoredStep
  <2> HIDE DEF m, o, b, n
  <2> QED BY <1>2, <1>6, <1>7, <2>1, <2>2
<1> HIDE DEF m, o, b, n
<1>9. /\ index' \in Indexes /\ Versioned(index', s) /\ UNCHANGED <<state, indexOk>>
      /\ Indexed(index') = Stored(Applied(thread[t].before, b, n + 1))
      /\ thread' = [thread EXCEPT ![t].pos = @ + 1]
  <2>0. /\ index \in Indexes /\ indexSeq \in Nat /\ Versioned(index, indexSeq)
        /\ indexSeq < MaxSequence /\ o.key \in Keys
    BY <1>1, <1>2, <1>3, <1>4
  <2>1. CASE PutsVector(o)
    <3>1. o.value \in Vectors
      BY <2>1 DEF PutsVector
    <3>2. LET new == InsertVersionLocked(index, o.key, s, o.value)
          IN  /\ new \in Indexes /\ Versioned(new, s)
              /\ Indexed(new) = Without(Indexed(index), o.key) \cup {<<o.key, o.value>>}
      BY <2>0, <3>1, InsertIsExact, SMT
    <3>3. ~InsertRefused(index, o.key, s, o.value, TRUE)
      BY <2>0, NewVersionIsAccepted DEF InsertRefused
    <3>4. /\ index' = InsertVersionLocked(index, o.key, s, o.value)
          /\ thread' = [thread EXCEPT ![t].pos = @ + 1] /\ UNCHANGED <<state, indexOk>>
      BY <2>1, <3>3 DEF WriteIndexes, o, b, n
    <3> QED BY <1>8, <2>1, <3>2, <3>4
  <2>2. CASE ~PutsVector(o)
    <3>1. LET new == MarkDeleted(index, o.key, s)
          IN  /\ new \in Indexes /\ Versioned(new, s)
              /\ Indexed(new) = Without(Indexed(index), o.key)
      BY <2>0, DeleteIsExact
    <3>2. ~MarkDeletedRefused(index, o.key, s)
      BY <2>0, NewVersionIsAccepted
    <3>3. /\ index' = MarkDeleted(index, o.key, s)
          /\ thread' = [thread EXCEPT ![t].pos = @ + 1] /\ UNCHANGED <<state, indexOk>>
      BY <2>2, <3>2 DEF WriteIndexes, o, b, n
    <3> QED BY <1>8, <2>2, <3>1, <3>3
  <2> QED BY <2>1, <2>2
<1>10. /\ x.pc = "index" /\ x.req = thread[t].req /\ x.pos = n + 1 /\ x.before = thread[t].before
       /\ thread' = [thread EXCEPT ![t] = x]
  BY <1>2, <1>9 DEF n
<1>11. ThreadShape(x)
  BY <1>2, <1>3, SMT DEF ThreadShape, PCs, n
<1> HIDE DEF x
<1>12. /\ thread' = [u \in Threads |-> thread'[u]] /\ \A u \in Threads : ThreadShape(thread'[u])
       /\ thread'[t] = x /\ \A u \in Threads : u # t => thread'[u] = thread[u]
  BY <1>10, <1>11, OneThread DEF IInv
<1>13. ShapeInv'
  <2>1. indexSeq' \in 0..MaxSequence
    BY <1>1, <1>3, BoundsAreNat, SMT
  <2> QED BY <1>1, <1>9, <1>12, <2>1 DEF IInv, ShapeInv, dbVars
<1>14. StateInv'
  <2>1. ~(\A u \in Threads : thread'[u].pc # "index")
    BY <1>10, <1>12
  <2> QED BY <1>1, <1>2, <1>9, <2>1 DEF IInv, StateInv, dbVars
<1>15. Phase(thread[t])'
  <2>1. Prefix(thread'[t]) = Applied(thread[t].before, b, n + 1)
    BY <1>10, <1>12 DEF Prefix, b, Batch
  <2>2. Entire(thread'[t]) = Entire(thread[t])
    BY <1>10, <1>12 DEF Entire
  <2>3. thread'[t].pos <= Len(thread'[t].req.batch)
    BY <1>3, <1>10, <1>12, SMT DEF b, Batch
  <2>4. WritePhase(thread[t])'
    BY <1>1, <1>2, <1>9, <1>10, <1>12, <2>1, <2>2, <2>3 DEF WritePhase, dbVars
  <2> QED BY <1>10, <1>12, <2>4 DEF Phase, SearchPhase
<1> QED BY <1>1, <1>10, <1>12, <1>13, <1>14, <1>15, ExclusivePoints, ExclusiveStep DEF Outside

\* An index update fails or throws.
LEMMA IndexUpdateFailsStep ==
  ASSUME IInv, NEW t \in Threads, IndexUpdateFails(t)
  PROVE  IInv'
<1> USE Zenon
<1> DEFINE o == Batch(t)[thread[t].pos + 1]
           s == indexSeq + 1
           n == [key |-> o.key, seq |-> s, vec |-> o.value]
<1>1. /\ thread[t].pc = "index" /\ thread[t].pos < Len(Batch(t)) /\ indexSeq < MaxSequence
      /\ indexSeq' \in {indexSeq, s} /\ MarkDirty /\ Finishes(t, "Committed")
      /\ UNCHANGED <<dbVars, opsSince, lockVars, calls>>
  BY DEF IndexUpdateFails, UpdatesIndex
<1>2. /\ thread[t] \in [pc : {"index"}, req : WriteRequests, pos : Nat, before : Views]
      /\ Batch(t) \in Batches /\ Len(Batch(t)) \in Nat /\ ~BuildIndexFails(view)
  BY <1>1, LoopFacts
<1>3. indexSeq \in 0..MaxSequence /\ index \in Indexes /\ faults \in 0..MaxFaults
  BY DEF IInv, ShapeInv
<1>4. indexSeq' \in 0..MaxSequence /\ s \in Nat
  BY <1>1, <1>3, BoundsAreNat, SMT
<1>5. faults' > 0 /\ faults' \in 0..MaxFaults
  BY <1>3, BoundsAreNat, SMT DEF IndexUpdateFails, Fault
<1>6. index' \in Indexes
  <2>1. CASE UNCHANGED index
    BY <1>3, <2>1
  <2>2. CASE PutsVector(o) /\ index' = [index EXCEPT !.nodes = @ \cup {n}]
    <3>1. thread[t].pos + 1 \in 1..Len(Batch(t))
      <4>1. thread[t].pos \in Nat
        BY <1>2
      <4> QED BY ONLY <1>1, <1>2, <4>1, SMT
    <3>2. o.key \in Keys /\ o.value \in Vectors
      BY <1>2, <2>2, <3>1, BatchType DEF PutsVector
    <3>3. n \in Nodes
      BY <1>4, <3>2 DEF Nodes
    <3> HIDE DEF n
    <3> QED BY <1>3, <2>2, <3>3 DEF Indexes
  <2> QED BY <2>1, <2>2 DEF IndexUpdateFails
<1> QED BY <1>1, <1>2, <1>4, <1>5, <1>6, DirtyStep

\* The loop is done: the index holds the vectors of the database again.
LEMMA WriteEndsStep ==
  ASSUME IInv, NEW t \in Threads, WriteEnds(t)
  PROVE  IInv'
<1> USE Zenon
<1> DEFINE ops == opsSince + Len(Batch(t))
           x == [thread[t] EXCEPT !.pc = "rebuild"]
<1>1. /\ thread[t].pc = "index" /\ thread[t].pos = Len(Batch(t)) /\ opsSince' = ops
      /\ UNCHANGED <<view, restart, dbUp, dbFailed, frozen>>
      /\ UNCHANGED <<index, indexOk, indexSeq, lockVars, calls, faults>>
  BY DEF WriteEnds, dbVars
<1>2. /\ thread[t] \in [pc : {"index"}, req : WriteRequests, pos : Nat, before : Views]
      /\ thread[t].req.op = "Write" /\ Len(Batch(t)) \in Nat
      /\ state = "Ready" /\ Versioned(index, indexSeq) /\ ~BuildIndexFails(view)
      /\ Indexed(index) = Stored(Prefix(thread[t]))
      /\ view = Entire(thread[t]) /\ restart = Entire(thread[t])
  BY <1>1, LoopFacts
<1>3. ops \in Nat
  BY <1>2, SMT DEF IInv, ShapeInv
<1>4. Indexed(index) = Stored(view)
  BY <1>1, <1>2 DEF Prefix, Entire, Batch
<1>5. CASE thread' = [thread EXCEPT ![t] = x] /\ state' = "Rebuilding"
  <2>1. x.pc = "rebuild" /\ x.req = thread[t].req /\ x.before = thread[t].before /\ ThreadShape(x)
    BY <1>2 DEF ThreadShape, PCs
  <2> HIDE DEF x
  <2>2. /\ thread' = [u \in Threads |-> thread'[u]] /\ \A u \in Threads : ThreadShape(thread'[u])
        /\ thread'[t] = x /\ \A u \in Threads : u # t => thread'[u] = thread[u]
    BY <1>5, <2>1, OneThread DEF IInv
  <2>3. ShapeInv'
    BY <1>1, <1>3, <1>5, <2>2 DEF IInv, ShapeInv, IndexStates
  <2>4. StateInv'
    BY <1>1, <1>5, <2>1, <2>2 DEF IInv, StateInv
  <2>5. Phase(thread[t])'
    <3>1. Entire(thread'[t]) = Entire(thread[t])
      BY <2>1, <2>2 DEF Entire
    <3>2. ~BuildIndexFails(view')
      BY <1>1, <1>2
    <3> QED BY <1>1, <1>2, <1>5, <2>1, <2>2, <3>1, <3>2 DEF Phase, WritePhase, SearchPhase
  <2> QED BY <1>1, <2>1, <2>2, <2>3, <2>4, <2>5, ExclusivePoints, ExclusiveStep DEF Outside
<1>6. CASE Finishes(t, "Committed") /\ state' = state
  <2>1. /\ thread' = [u \in Threads |-> thread'[u]] /\ \A u \in Threads : ThreadShape(thread'[u])
        /\ thread'[t].pc = "return" /\ thread'[t].req = thread[t].req
        /\ "found" \notin DOMAIN thread'[t]
        /\ thread'[t].commit = "Committed" /\ thread'[t].before = thread[t].before
        /\ \A u \in Threads : u # t => thread'[u] = thread[u]
    BY <1>1, <1>2, <1>6, FinishShape DEF CommitStates
  <2>2. ShapeInv'
    BY <1>1, <1>3, <1>6, <2>1 DEF IInv, ShapeInv
  <2>3. StateInv'
    <3>1. Indexed(index') = Stored(view') /\ Versioned(index', indexSeq') /\ ~BuildIndexFails(view')
      BY <1>1, <1>2, <1>4
    <3> QED BY <1>1, <1>2, <1>6, <3>1 DEF IInv, StateInv
  <2>4. Phase(thread[t])'
    <3>1. Entire(thread'[t]) = Entire(thread[t])
      BY <2>1 DEF Entire
    <3> QED BY <1>1, <1>2, <1>6, <2>1, <3>1 DEF Phase, WritePhase, SearchPhase
  <2> QED BY <1>1, <2>1, <2>2, <2>3, <2>4, ExclusivePoints, ExclusiveStep DEF Outside
<1> QED BY <1>5, <1>6 DEF WriteEnds

\* Releasing a snapshot waits for the searches that use it.
LEMMA ReleaseSnapshotStep ==
  ASSUME IInv, NEW t \in Threads, ReleaseSnapshot(t)
  PROVE  IInv'
<1> USE Zenon
<1> DEFINE x == [pc |-> "return", req |-> thread[t].req]
<1>1. /\ thread[t] \in [pc : PCs, req : Requests] /\ thread[t].pc = "body"
      /\ thread[t].req.op = "ReleaseSnapshot" /\ thread' = [thread EXCEPT ![t] = x]
      /\ frozen' = [frozen EXCEPT ![thread[t].req.snap] = Released]
      /\ UNCHANGED <<view, restart, dbUp, dbFailed, lockVars, calls, faults>>
      /\ UNCHANGED <<index, state, indexOk, indexSeq, opsSince>>
  BY DEF IInv, ShapeInv, ThreadShape, ReleaseSnapshot, InBody, Returns, indexVars
<1>2. x.pc = "return" /\ x.req = thread[t].req /\ DOMAIN x = {"pc", "req"} /\ ThreadShape(x)
  BY <1>1 DEF ThreadShape, PCs
<1> HIDE DEF x
<1>3. /\ thread' = [u \in Threads |-> thread'[u]] /\ \A u \in Threads : ThreadShape(thread'[u])
      /\ thread'[t] = x /\ \A u \in Threads : u # t => thread'[u] = thread[u]
  BY <1>1, <1>2, OneThread DEF IInv
<1>4. ShapeInv'
  <2>1. frozen' \in [Snaps -> Views \cup {Released}]
    BY <1>1 DEF IInv, ShapeInv
  <2> QED BY <1>1, <1>3, <2>1 DEF IInv, ShapeInv
<1>5. StateInv'
  <2>1. \A u \in Threads : thread[u].pc \in {"opening", "rebuild", "index"} => thread'[u] = thread[u]
    BY <1>1, <1>3
  <2>2. \A u \in Threads : thread'[u].pc \in {"opening", "rebuild", "index"} => thread'[u] = thread[u]
    BY <1>2, <1>3, SMT
  <2>3. /\ Versioned(index', indexSeq') = Versioned(index, indexSeq)
        /\ Indexed(index') = Indexed(index) /\ Stored(view') = Stored(view)
    BY <1>1
  <2> QED BY <1>1, <2>1, <2>2, <2>3 DEF IInv, StateInv
<1>6. Phase(thread[t])'
  BY <1>1, <1>2, <1>3 DEF Phase, WritePhase, SearchPhase
<1> QED BY <1>1, <1>2, <1>3, <1>4, <1>5, <1>6, ExclusivePoints, ExclusiveStep DEF Outside

\* A failure of the background thread of db_ stops its writes and nothing else.
LEMMA BackgroundFailsStep ==
  ASSUME IInv, BackgroundFails
  PROVE  IInv'
<1> USE Zenon
<1>1. /\ dbFailed' = TRUE
      /\ UNCHANGED <<view, restart, dbUp, frozen, lockVars, thread, calls>>
      /\ UNCHANGED <<index, state, indexOk, indexSeq, opsSince>>
  BY DEF BackgroundFails, indexVars
<1>2. faults' \in 0..MaxFaults /\ faults' > 0
  BY BoundsAreNat, SMT DEF BackgroundFails, Fault, IInv, ShapeInv
<1>3. ShapeInv'
  BY <1>1, <1>2 DEF IInv, ShapeInv
<1>4. LockInv'
  BY <1>1 DEF IInv, LockInv, Excludes, lockVars
<1>5. StateInv'
  <2>1. /\ Versioned(index', indexSeq') = Versioned(index, indexSeq)
        /\ Indexed(index') = Indexed(index) /\ Stored(view') = Stored(view)
    BY <1>1
  <2> QED BY <1>1, <1>2, <2>1 DEF IInv, StateInv
<1>6. PhaseInv'
  BY <1>1 DEF IInv, PhaseInv, Phase, WritePhase, SearchPhase
<1> QED BY <1>3, <1>4, <1>5, <1>6 DEF IInv

\* A step that changes nothing.
LEMMA StutterStep ==
  ASSUME IInv, UNCHANGED vars
  PROVE  IInv'
<1> USE Zenon
<1>1. /\ UNCHANGED <<view, restart, dbUp, dbFailed, frozen, lockVars, thread, calls, faults>>
      /\ UNCHANGED <<index, state, indexOk, indexSeq, opsSince>>
  BY DEF vars, dbVars, indexVars
<1>2. ShapeInv'
  BY <1>1 DEF IInv, ShapeInv
<1>3. LockInv'
  BY <1>1 DEF IInv, LockInv, Excludes, lockVars
<1>4. StateInv'
  <2>1. /\ Versioned(index', indexSeq') = Versioned(index, indexSeq)
        /\ Indexed(index') = Indexed(index) /\ Stored(view') = Stored(view)
    BY <1>1
  <2> QED BY <1>1, <2>1 DEF IInv, StateInv
<1>5. PhaseInv'
  BY <1>1 DEF IInv, PhaseInv, Phase, WritePhase, SearchPhase
<1> QED BY <1>2, <1>3, <1>4, <1>5 DEF IInv

-----------------------------------------------------------------------------
(***************************************************************************)
(* VectorDB: the theorems.                                                 *)
(***************************************************************************)

\* The invariant holds in every reachable state: whatever the interleaving of the
\* calls, no thread comes to a point of VectorDB's code without what that point
\* relies on.
THEOREM Invariance == Spec => []IInv
<1> USE Zenon
<1>1. Init => IInv
  BY InitIInv
<1>2. IInv /\ [Next]_vars => IInv'
  <2> SUFFICES ASSUME IInv, [Next]_vars PROVE IInv'
    BY SMT
  <2>1. ASSUME NEW t \in Threads, Step(t) PROVE IInv'
    <3>1. CASE LockLifecycle(t) \/ LockCoordination(t) \/ Return(t)
      BY <3>1, LockLifecycleStep, LockCoordinationStep, ReturnStep
    <3>2. CASE OpenRefused(t) \/ RebuildIndexRefused(t) \/ SearchRefused(t) \/ Compact(t)
      BY <3>2, RefusedSteps
    <3>3. CASE OpenStarts(t) \/ OpenOpensDB(t) \/ OpenFails(t) \/ Close(t)
      BY <3>3, OpenStartsStep, OpenOpensDBStep, CloseSteps
    <3>4. CASE RebuildIndex(t) \/ RebuildPublishes(t) \/ RebuildFails(t)
      BY <3>4, RebuildIndexStep, RebuildPublishesStep, RebuildFailsStep, SMT
    <3>5. CASE WriteRejected(t) \/ WriteCommits(t) \/ WriteFails(t)
      BY <3>5, WriteRejectedStep, WriteCommitsStep, WriteFailsStep, SMT
    <3>6. CASE WriteIndexes(t) \/ IndexUpdateFails(t) \/ WriteEnds(t)
      BY <3>6, WriteIndexesStep, IndexUpdateFailsStep, WriteEndsStep, SMT
    <3>7. CASE SearchStarts(t) \/ SearchEnds(t)
      BY <3>7, SearchStartsStep, SearchEndsStep
    <3>8. CASE GetSnapshot(t) \/ ReleaseSnapshot(t)
      BY <3>8, GetSnapshotStep, ReleaseSnapshotStep
    <3> QED BY <2>1, <3>1, <3>2, <3>3, <3>4, <3>5, <3>6, <3>7, <3>8 DEF Step
  <2>2. ASSUME NEW t \in Threads, NEW r \in Requests, Call(t, r) PROVE IInv'
    BY <2>2, CallStep
  <2>3. CASE BackgroundFails
    BY <2>3, BackgroundFailsStep
  <2>4. CASE UNCHANGED vars
    BY <2>4, StutterStep
  <2> QED BY <2>1, <2>2, <2>3, <2>4 DEF Next
<1> QED BY <1>1, <1>2, PTL DEF Spec

\* Every variable keeps the shape the code gives it, and no index version passes the
\* largest sequence number.
THEOREM TypeCorrect == Spec => []TypeOK
<1> USE Zenon
<1>1. IInv => TypeOK
  <2> SUFFICES ASSUME IInv PROVE TypeOK
    BY SMT
  <2>1. ASSUME NEW t \in Threads PROVE thread[t] \in ThreadStates
    <3>1. ThreadShape(thread[t])
      BY DEF IInv, ShapeInv
    <3> QED BY <3>1, SpecialRequests DEF ThreadShape, ThreadStates, PCs
  <2>2. thread \in [Threads -> ThreadStates]
    <3>1. thread = [t \in Threads |-> thread[t]]
      BY DEF IInv, ShapeInv
    <3> QED BY <2>1, <3>1
  <2> QED BY <2>2 DEF IInv, ShapeInv, LockInv, TypeOK
<1> QED BY <1>1, Invariance, PTL

\* A ready index that no writer holds has exactly the vectors of the database.
THEOREM IndexIsExact == Spec => []IndexMatchesStore
<1> USE Zenon
<1>1. IInv => IndexMatchesStore
  <2> SUFFICES ASSUME IInv, state = "Ready", \A t \in Threads : coordination[t] # "exclusive"
               PROVE  Indexed(index) = Stored(view)
    BY DEF IndexMatchesStore
  <2>1. \A t \in Threads : thread[t].pc # "index"
    BY ExclusivePoints
  <2> QED BY <2>1 DEF IInv, StateInv
<1> QED BY <1>1, Invariance, PTL

\* What a search returns is stored in the view it was asked about.
THEOREM SearchesAreSound == Spec => []SearchesSeeTheStore
<1> USE Zenon
<1>1. IInv => SearchesSeeTheStore
  <2> SUFFICES ASSUME IInv, NEW t \in Threads, thread[t].pc = "return",
                      thread[t].req.op \in {"Search", "SearchSnapshot"}, "found" \in DOMAIN thread[t]
               PROVE  {<<n.key, n.vec>> : n \in thread[t].found} \subseteq Stored(Asked(t))
    BY DEF SearchesSeeTheStore
  <2>1. SearchPhase(thread[t])
    BY DEF IInv, PhaseInv, Phase
  <2> QED BY <2>1 DEF SearchPhase, Asked
<1> QED BY <1>1, Invariance, PTL

\* The commit state that a write reports is true.
THEOREM CommitStatesAreTrue == Spec => []ResultsAreHonest
<1>1. IInv => ResultsAreHonest
  BY Zenon DEF IInv, PhaseInv, Phase, WritePhase, Entire, ResultsAreHonest
<1> QED BY <1>1, Invariance, PTL

\* The index is never unavailable without a failure below it.
THEOREM IndexStaysInService == Spec => []DirtyNeedsFault
<1>1. IInv => DirtyNeedsFault
  BY Zenon DEF IInv, StateInv, DirtyNeedsFault
<1> QED BY <1>1, Invariance, PTL
=============================================================================
