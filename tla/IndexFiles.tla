----------------------------- MODULE IndexFiles -----------------------------
(***************************************************************************)
(* A vector index and the file it is saved to: Insert, InsertVersion,      *)
(* MarkDeleted, Save, Load and MergeFrom of HNSWIndex, with I/O errors and *)
(* power failures.  Here the node ids of the code are kept, since the file *)
(* stores them and Load checks them; the links of the graph are those of   *)
(* module HNSWGraph (SavedGraphsLoad) and left out.                        *)
(*                                                                         *)
(* Two things are the caller's duty, as in the tests of the index: nothing *)
(* else runs on an index while it loads (Load replaces the graph before it *)
(* takes mutex_), and two Saves do not use one path at a time (they would  *)
(* share path.tmp).                                                        *)
(***************************************************************************)
EXTENDS HNSWIndex, Sequences

CONSTANTS SeqNumbers,  \* the sequence numbers callers pass to InsertVersion
          MaxNodes,    \* bound: nodes of the index
          MaxSaves,    \* bound: calls of Save
          MaxIOErrors, \* bound: I/O operations that fail
          MaxCrashes   \* bound: power failures

ASSUME SeqNumbersArePositive == SeqNumbers \subseteq Nat \ {0}

VARIABLES graph,     \* graph_: key and vector of each node, by id (from 1)
          versions,  \* versions_by_key_: [key, seq, deleted, id] for each version
          path,      \* the file under the index's path
          names,     \* the files that the path may name after a power failure
          saver,     \* a Save in progress; it holds mutex_ shared all along
          merger,    \* a MergeFrom in progress
          saves,     \* calls of Save, which number the files
          acked,     \* history: the number of the last Save that returned OK
          ioErrors, crashes

fileVars == <<graph, versions, path, names, saver, merger, saves, acked, ioErrors, crashes>>

Image == [graph |-> graph, versions |-> versions]
EmptyImage == [graph |-> <<>>, versions |-> {}]

\* A file is missing, whole or a fragment of what was written.
NoFile == [kind |-> "none", num |-> 0, synced |-> TRUE, image |-> EmptyImage]
IdleSaver == [pc |-> "idle", file |-> NoFile]
IdleMerger == [pc |-> "idle", all |-> {}, todo |-> {}]

-----------------------------------------------------------------------------
\* A version with its vector instead of its node, and the index as HNSWIndex has it.
Entry(img, v) == [key |-> v.key, seq |-> v.seq, deleted |-> v.deleted,
                  vec |-> IF v.deleted THEN "none" ELSE img.graph[v.id].vec]
Entries(img) == {Entry(img, v) : v \in img.versions}

Abstract ==
  [nodes |-> {[key |-> v.key, seq |-> v.seq, vec |-> graph[v.id].vec] :
                v \in {w \in versions : ~w.deleted}},
   versions |-> [k \in Keys |-> {[seq |-> v.seq, deleted |-> v.deleted] :
                                   v \in {w \in versions : w.key = k}}]]

\* (variant: any version up to s)
NodeIsVisibleEver(id, s) ==
  \E v \in versions : v.key = graph[id].key /\ v.seq <= s /\ ~v.deleted /\ v.id = id

\* The last version of the node's key up to s is this very node.
NodeIsVisible(id, s) ==
  \E v \in versions :
    /\ v.key = graph[id].key /\ v.seq <= s
    /\ \A w \in versions : w.key = v.key /\ w.seq <= s => w.seq <= v.seq
    /\ ~v.deleted /\ v.id = id

-----------------------------------------------------------------------------
(***************************************************************************)
(* Insert, InsertVersion and MarkDeleted, under the exclusive mutex_.      *)
(***************************************************************************)
At(k, s) == {v \in versions : v.key = k /\ v.seq = s}

Unlocked == saver.pc = "idle"

\* (variant: does not look for the version first; emplace keeps the old one)
InsertsVersionBlindly(k, s, vec) ==
  /\ Len(graph) < MaxNodes
  /\ graph' = Append(graph, [key |-> k, vec |-> vec])
  /\ versions' = IF At(k, s) # {} THEN versions
                 ELSE versions \cup {[key |-> k, seq |-> s, deleted |-> FALSE, id |-> Len(graph) + 1]}

\* A new version gets a new node; one that is there already is left alone.
InsertsVersion(k, s, vec) ==
  \/ /\ At(k, s) = {} /\ Len(graph) < MaxNodes
     /\ graph' = Append(graph, [key |-> k, vec |-> vec])
     /\ versions' = versions \cup {[key |-> k, seq |-> s, deleted |-> FALSE,
                                    id |-> Len(graph) + 1]}
  \/ /\ \E v \in At(k, s) : ~v.deleted /\ graph[v.id].vec = vec
     /\ UNCHANGED <<graph, versions>>

\* (variant: overwrites the version)
MarksDeletedOver(k, s) ==
  versions' = (versions \ At(k, s)) \cup {[key |-> k, seq |-> s, deleted |-> TRUE, id |-> 0]}

MarksDeleted(k, s) ==
  /\ \A v \in At(k, s) : v.deleted
  /\ versions' = versions \cup {[key |-> k, seq |-> s, deleted |-> TRUE, id |-> 0]}

\* Insert is for a new key and uses the sequence number 0.
Insert(k, vec) ==
  /\ Unlocked /\ ~\E v \in versions : v.key = k
  /\ InsertsVersion(k, 0, vec)
  /\ UNCHANGED <<path, names, saver, merger, saves, acked, ioErrors, crashes>>

InsertVersion(k, s, vec) ==
  /\ Unlocked /\ InsertsVersion(k, s, vec)
  /\ UNCHANGED <<path, names, saver, merger, saves, acked, ioErrors, crashes>>

MarksKeyDeleted(k, s) ==
  /\ Unlocked /\ MarksDeleted(k, s)
  /\ UNCHANGED <<graph, path, names, saver, merger, saves, acked, ioErrors, crashes>>

-----------------------------------------------------------------------------
(***************************************************************************)
(* Save: write path.tmp, sync it, rename it, sync the directory.           *)
(***************************************************************************)
\* Save looks up the sequence number of every node.
NodesHaveVersions == \A id \in DOMAIN graph : \E v \in versions : ~v.deleted /\ v.id = id

SaveBegins ==
  /\ Unlocked /\ saves < MaxSaves /\ NodesHaveVersions
  /\ saves' = saves + 1
  /\ saver' = [pc |-> "write",
               file |-> [kind |-> "whole", num |-> saves + 1, synced |-> FALSE, image |-> Image]]
  /\ UNCHANGED <<graph, versions, path, names, merger, acked, ioErrors, crashes>>

SaveStep(from, to) == saver.pc = from /\ saver' = [saver EXCEPT !.pc = to]

SaveWrites ==
  /\ SaveStep("write", "sync")
  /\ UNCHANGED <<graph, versions, path, names, merger, saves, acked, ioErrors, crashes>>

\* (variant: no fsync of the temporary file)
SaveSkipsSync ==
  /\ SaveStep("sync", "rename")
  /\ UNCHANGED <<graph, versions, path, names, merger, saves, acked, ioErrors, crashes>>

SaveSyncs ==
  /\ saver.pc = "sync"
  /\ saver' = [pc |-> "rename", file |-> [saver.file EXCEPT !.synced = TRUE]]
  /\ UNCHANGED <<graph, versions, path, names, merger, saves, acked, ioErrors, crashes>>

SaveRenames ==
  /\ SaveStep("rename", "directory")
  /\ path' = saver.file /\ names' = names \cup {saver.file}
  /\ UNCHANGED <<graph, versions, merger, saves, acked, ioErrors, crashes>>

SaveReturns ==
  /\ saver.pc = "directory"
  /\ names' = {path} /\ acked' = path.num
  /\ saver' = IdleSaver
  /\ UNCHANGED <<graph, versions, path, merger, saves, ioErrors, crashes>>

\* Any of these steps returns an error; path.tmp is removed or, after a failed
\* write, truncated by the next Save.
SaveFails ==
  /\ ~Unlocked /\ ioErrors < MaxIOErrors
  /\ ioErrors' = ioErrors + 1 /\ saver' = IdleSaver
  /\ UNCHANGED <<graph, versions, path, names, merger, saves, acked, crashes>>

-----------------------------------------------------------------------------
(***************************************************************************)
(* Load and MergeFrom.                                                     *)
(***************************************************************************)
\* What Load demands of the nodes and versions of a file whose length and checksum
\* are right: one state per version, every node is the version it says, and every
\* version that is not a deletion is its node's.
VersionsFit(img) ==
  /\ \A v, w \in img.versions : v.key = w.key /\ v.seq = w.seq => v = w
  /\ \A id \in DOMAIN img.graph :
       \E v \in img.versions : {w \in img.versions : ~w.deleted /\ w.id = id} = {v}
  /\ \A v \in img.versions :
       ~v.deleted => v.id \in DOMAIN img.graph /\ img.graph[v.id].key = v.key

Loads(file) == file.kind = "whole" /\ VersionsFit(file.image)

\* A file that is refused changes nothing: all checks come first.
Load ==
  /\ Unlocked /\ merger.pc = "idle"
  /\ Loads(path)
  /\ graph' = path.image.graph /\ versions' = path.image.versions
  /\ UNCHANGED <<path, names, saver, merger, saves, acked, ioErrors, crashes>>

\* MergeFrom loads the file into an index of its own, then inserts its versions
\* one by one, each under the mutex.
MergeBegins ==
  /\ merger.pc = "idle" /\ Loads(path)
  /\ merger' = [pc |-> "run", all |-> Entries(path.image), todo |-> Entries(path.image)]
  /\ UNCHANGED <<graph, versions, path, names, saver, saves, acked, ioErrors, crashes>>

\* (variant: deletions are not merged)
MergesEntryLive(e) ==
  IF e.deleted THEN UNCHANGED <<graph, versions>> ELSE InsertsVersion(e.key, e.seq, e.vec)

MergesEntry(e) ==
  IF e.deleted THEN MarksDeleted(e.key, e.seq) /\ UNCHANGED graph
  ELSE InsertsVersion(e.key, e.seq, e.vec)

\* The keys come in the order of a hash table, the versions of a key by sequence number.
MergeNext ==
  LET Begun(k) == \E e \in merger.all \ merger.todo : e.key = k
      open == {e \in merger.todo : Begun(e.key)}
  IN {e \in merger.todo :
        /\ e \in open \/ open = {}
        /\ \A f \in merger.todo : f.key = e.key => e.seq <= f.seq}

MergeInserts ==
  /\ merger.pc = "run" /\ Unlocked
  /\ \E e \in MergeNext : MergesEntry(e) /\ merger' = [merger EXCEPT !.todo = @ \ {e}]
  /\ UNCHANGED <<path, names, saver, saves, acked, ioErrors, crashes>>

\* The call returns: after the last version, or at one that conflicts.
Conflicts(e) ==
  \E v \in At(e.key, e.seq) : v.deleted # e.deleted \/ (~v.deleted /\ graph[v.id].vec # e.vec)

MergeReturns ==
  /\ merger.pc = "run" /\ Unlocked
  /\ merger.todo = {} \/ \E e \in MergeNext : Conflicts(e)
  /\ merger' = IdleMerger
  /\ UNCHANGED <<graph, versions, path, names, saver, saves, acked, ioErrors, crashes>>

\* The process is gone.  The path names one of the files it may name; a file that
\* was not synced may have lost a part.
Crash ==
  /\ crashes < MaxCrashes /\ crashes' = crashes + 1
  /\ \E f \in names, kind \in {"whole", "part"} :
       /\ f.synced \/ f.kind # "whole" => kind = "whole"
       /\ path' = IF kind = "part" THEN [f EXCEPT !.kind = "part", !.image = EmptyImage] ELSE f
  /\ names' = {path'}
  /\ graph' = <<>> /\ versions' = {}
  /\ saver' = IdleSaver /\ merger' = IdleMerger
  /\ UNCHANGED <<saves, acked, ioErrors>>

-----------------------------------------------------------------------------
IndexInit ==
  /\ graph = <<>> /\ versions = {}
  /\ path = NoFile /\ names = {NoFile}
  /\ saver = IdleSaver /\ merger = IdleMerger
  /\ saves = 0 /\ acked = 0 /\ ioErrors = 0 /\ crashes = 0

SaveSteps == SaveBegins \/ SaveWrites \/ SaveSyncs \/ SaveRenames \/ SaveReturns \/ SaveFails

IndexNext ==
  \/ \E k \in Keys, vec \in Vectors :
       Insert(k, vec) \/ \E s \in SeqNumbers : InsertVersion(k, s, vec)
  \/ \E k \in Keys, s \in SeqNumbers : MarksKeyDeleted(k, s)
  \/ SaveSteps \/ Load \/ MergeBegins \/ MergeInserts \/ MergeReturns \/ Crash

IndexSpec == IndexInit /\ [][IndexNext]_fileVars

-----------------------------------------------------------------------------
\* Whatever was inserted, deleted, merged and loaded before, Save finds the version
\* of every node ("HNSW graph node is missing version state") and Load accepts the
\* nodes and versions that Save writes.
SavesAreAccepted == NodesHaveVersions /\ VersionsFit(Image)

\* Once a Save has returned OK the path holds a whole index, of that Save or a later
\* one, through failed Saves and power failures at any point (Save writes and syncs
\* path.tmp before it renames it).
SavesSurvive == acked > 0 => Loads(path) /\ path.num >= acked

\* A node id names the version that created it, also after merges and loads gave
\* the nodes other ids: a search at any sequence number sees the nodes that the
\* versions and their keys alone determine.
IdsNameVersions ==
  \A s \in {0} \cup SeqNumbers :
    {[key |-> graph[id].key, vec |-> graph[id].vec] :
       id \in {n \in DOMAIN graph : NodeIsVisible(n, s)}}
      = {[key |-> n.key, vec |-> n.vec] : n \in Visible(Abstract, s)}

\* What a MergeFrom has passed is in the index, with what others inserted meanwhile,
\* so one that returns OK has merged the whole file.
MergeTakesAll == merger.all \ merger.todo \subseteq Entries(Image)

\* A version never changes and never goes away, except when a Load or a restart
\* replaces the index: inserting, deleting and merging refuse what conflicts.
VersionsAreImmutable ==
  [][Entries(Image) \subseteq Entries(Image') \/ Image' = path.image \/ crashes' > crashes]_fileVars
=============================================================================
