------------------------------ MODULE VectorDB ------------------------------
(***************************************************************************)
(* The vector extension: a key-value database, an HNSW index over the      *)
(* values that are vectors, and the two shared mutexes that make them look *)
(* like one.  Threads call the public operations; a call takes             *)
(* lifecycle_mu_, then coordination_mu_, in the mode its operation needs,  *)
(* runs in steps, and returns.                                             *)
(*                                                                         *)
(* The database below is the map of module KVStore, reduced to what the    *)
(* extension uses: the contents reads see, the contents a restart would    *)
(* find, and the error that stops its writes.  Faults are what the code    *)
(* guards against: a failing db_ call, a failing or throwing index update, *)
(* a failing rebuild.                                                      *)
(***************************************************************************)
EXTENDS HNSWIndex, Sequences

CONSTANTS Threads,
          Plain,           \* values that are not encoded vectors
          Malformed,       \* encoded vectors that fail decoding or validation
          Batches,         \* the batches a client may write
          InitialViews,    \* what the database may hold at first
          Snaps,           \* snapshot handles
          RebuildOps,      \* options_.index_rebuild_operations
          TopK,            \* results asked of a search
          MaxSequence,     \* the largest SequenceNumber
          MaxCalls, MaxFaults

VARIABLES view,            \* db_: what reads see
          restart,         \* db_: what reads would see after a reopen
          dbUp, dbFailed,  \* db_ is open; its background_status_ is an error
          frozen,          \* the view of each snapshot, or Released
          index,           \* *index_, EmptyIndex when reset
          state,           \* state_
          indexOk,         \* index_status_.ok()
          indexSeq,        \* index_sequence_
          opsSince,        \* operations_since_rebuild_
          lifecycle, coordination,   \* who holds the mutexes, and how
          thread,          \* what each thread is doing
          calls, faults    \* used up so far

dbVars == <<view, restart, dbUp, dbFailed, frozen>>
indexVars == <<index, state, indexOk, indexSeq, opsSince>>
lockVars == <<lifecycle, coordination>>
vars == <<dbVars, indexVars, lockVars, thread, calls, faults>>

NotFound == "not found"
Released == <<>>
Values == Vectors \cup Malformed \cup Plain
Views == [Keys -> Values \cup {NotFound}]

ASSUME BoundsAreNat ==
  MaxSequence \in Nat /\ RebuildOps \in Nat /\ MaxCalls \in Nat /\ MaxFaults \in Nat

\* Whether a value decodes is a function of the value.
ASSUME VectorsAreRecognised ==
  Vectors \cap Malformed = {} /\ NotFound \notin Vectors \cup Malformed

ASSUME BatchesAreOperations ==
  \A b \in Batches :
    /\ b \in Seq([key : Keys, deleted : BOOLEAN, value : Values \cup {NotFound}])
    /\ \A i \in DOMAIN b : b[i].deleted \/ b[i].value \in Values

ASSUME InitialViewsAreViews == InitialViews \subseteq Views

Modes == {"none", "shared", "exclusive"}
IndexStates == {"Closed", "Opening", "Ready", "Dirty", "Rebuilding"}
CommitStates == {"NotCommitted", "Committed", "Unknown"}

Operations == {"Open", "Close", "Write", "RebuildIndex", "Search", "SearchSnapshot",
               "GetSnapshot", "ReleaseSnapshot", "Compact"}
Requests ==
  [op : Operations \ {"Write", "SearchSnapshot", "GetSnapshot", "ReleaseSnapshot"}]
  \cup [op : {"Write"}, batch : Batches]
  \cup [op : {"SearchSnapshot", "GetSnapshot", "ReleaseSnapshot"}, snap : Snaps]

Idle == [pc |-> "idle"]

\* (variant: every value is taken for a vector)
PutsAnything(o) == ~o.deleted

\* An operation of a batch that the index treats as a vector.
PutsVector(o) == ~o.deleted /\ o.value \in Vectors

\* The contents after the first n operations of b; the last one on a key counts.
Applied(m, b, n) ==
  [k \in Keys |->
     LET at == {i \in 1..n : b[i].key = k}
     IN  IF at = {} THEN m[k]
         ELSE LET i == CHOOSE i \in at : \A j \in at : j <= i
              IN  IF b[i].deleted THEN NotFound ELSE b[i].value]

\* The vectors of a view, as the nodes of an index of version 0.
VectorsOf(m) == {k \in Keys : m[k] \in Vectors}

-----------------------------------------------------------------------------
(***************************************************************************)
(* Locks and calls.                                                        *)
(***************************************************************************)

LifecycleMode(op) == IF op \in {"Open", "Close"} THEN "exclusive" ELSE "shared"

CoordinationMode(op) ==
  CASE op \in {"Open", "Close", "Write", "RebuildIndex", "ReleaseSnapshot"} -> "exclusive"
    [] op \in {"Search", "SearchSnapshot", "GetSnapshot"} -> "shared"
    [] op = "Compact" -> "none"

\* std::shared_mutex, not recursive.
Grants(lock, t, mode) ==
  /\ lock[t] = "none"
  /\ \A u \in Threads : lock[u] = "none" \/ (mode = "shared" /\ lock[u] = "shared")

Call(t, r) ==
  /\ thread[t] = Idle /\ calls < MaxCalls
  /\ calls' = calls + 1
  /\ thread' = [thread EXCEPT ![t] = [pc |-> "lifecycle", req |-> r]]
  /\ UNCHANGED <<dbVars, indexVars, lockVars, faults>>

LockLifecycle(t) ==
  /\ thread[t].pc = "lifecycle"
  /\ Grants(lifecycle, t, LifecycleMode(thread[t].req.op))
  /\ lifecycle' = [lifecycle EXCEPT ![t] = LifecycleMode(thread[t].req.op)]
  /\ thread' = [thread EXCEPT ![t].pc = "coordination"]
  /\ UNCHANGED <<dbVars, indexVars, coordination, calls, faults>>

LockCoordination(t) ==
  LET mode == CoordinationMode(thread[t].req.op)
  IN  /\ thread[t].pc = "coordination"
      /\ mode = "none" \/ Grants(coordination, t, mode)
      /\ coordination' = [coordination EXCEPT ![t] = mode]
      /\ thread' = [thread EXCEPT ![t].pc = "body"]
      /\ UNCHANGED <<dbVars, indexVars, lifecycle, calls, faults>>

\* The scoped locks are released and the call returns.
Return(t) ==
  /\ thread[t].pc = "return"
  /\ lifecycle' = [lifecycle EXCEPT ![t] = "none"]
  /\ coordination' = [coordination EXCEPT ![t] = "none"]
  /\ thread' = [thread EXCEPT ![t] = Idle]
  /\ UNCHANGED <<dbVars, indexVars, calls, faults>>

InBody(t, op) == thread[t].pc = "body" /\ thread[t].req.op = op

Returns(t) == thread' = [thread EXCEPT ![t] = [pc |-> "return", req |-> @.req]]

\* A step that only happens when something below fails.
Fault == faults < MaxFaults /\ faults' = faults + 1

CheckOpen == state \notin {"Closed", "Opening"}

-----------------------------------------------------------------------------
(***************************************************************************)
(* Open, Close and rebuilding.                                             *)
(***************************************************************************)

\* BuildIndex: one pinned iterator over m, every vector inserted with version 0.
BuildIndexFails(m) == \E k \in Keys : m[k] \in Malformed

BuildIndex(m) ==
  [nodes |-> {[key |-> k, seq |-> 0, vec |-> m[k]] : k \in VectorsOf(m)},
   versions |-> [k \in Keys |-> IF k \in VectorsOf(m)
                                THEN {[seq |-> 0, deleted |-> FALSE]} ELSE {}]]

\* (variant: the status of the index is not recorded)
MarkDirtyQuietly == state' = "Dirty" /\ UNCHANGED indexOk

MarkDirty == state' = "Dirty" /\ indexOk' = FALSE

\* db_.Close(): snapshots lose their meaning, and what a failed write left in the
\* log is what the next Open finds.
CloseDB ==
  /\ dbUp' = FALSE /\ dbFailed' = FALSE
  /\ view' = restart
  /\ frozen' = [s \in Snaps |-> Released]
  /\ UNCHANGED restart

OpenRefused(t) ==
  /\ InBody(t, "Open") /\ state # "Closed"
  /\ Returns(t)
  /\ UNCHANGED <<dbVars, indexVars, lockVars, calls, faults>>

OpenStarts(t) ==
  /\ InBody(t, "Open") /\ state = "Closed"
  /\ state' = "Opening"
  /\ thread' = [thread EXCEPT ![t].pc = "opening"]
  /\ UNCHANGED <<dbVars, index, indexOk, indexSeq, opsSince, lockVars, calls, faults>>

OpenOpensDB(t) ==
  /\ thread[t].pc = "opening"
  /\ dbUp' = TRUE
  /\ state' = "Rebuilding"
  /\ thread' = [thread EXCEPT ![t].pc = "rebuild"]
  /\ UNCHANGED <<view, restart, dbFailed, frozen, index, indexOk, indexSeq, opsSince,
                 lockVars, calls, faults>>

\* The cleanup of Open when db_.Open or the rebuild failed.
OpenGivesUp(t) ==
  /\ CloseDB
  /\ index' = EmptyIndex
  /\ state' = "Closed" /\ indexOk' = FALSE
  /\ Returns(t)
  /\ UNCHANGED <<indexSeq, opsSince, lockVars, calls>>

OpenFails(t) ==
  /\ thread[t].pc = "opening"
  /\ Fault
  /\ OpenGivesUp(t)

Close(t) ==
  /\ InBody(t, "Close")
  /\ CloseDB
  /\ index' = EmptyIndex
  /\ state' = "Closed" /\ indexOk' = TRUE
  /\ Returns(t)
  /\ UNCHANGED <<indexSeq, opsSince, lockVars, calls, faults>>

RebuildIndexRefused(t) ==
  /\ InBody(t, "RebuildIndex") /\ ~CheckOpen
  /\ Returns(t)
  /\ UNCHANGED <<dbVars, indexVars, lockVars, calls, faults>>

RebuildIndex(t) ==
  /\ InBody(t, "RebuildIndex") /\ CheckOpen
  /\ state' = "Rebuilding"
  /\ thread' = [thread EXCEPT ![t].pc = "rebuild"]
  /\ UNCHANGED <<dbVars, index, indexOk, indexSeq, opsSince, lockVars, calls, faults>>

\* A write that ends returns its commit state; other calls just return.
Finishes(t, commit) ==
  thread' = [thread EXCEPT ![t] =
               IF @.req.op = "Write"
               THEN [pc |-> "return", req |-> @.req, commit |-> commit, before |-> @.before]
               ELSE [pc |-> "return", req |-> @.req]]

\* RebuildIndexLocked, once the replacement is built.
RebuildPublishes(t) ==
  /\ thread[t].pc = "rebuild" /\ ~BuildIndexFails(view)
  /\ index' = BuildIndex(view)
  /\ indexSeq' = 0 /\ opsSince' = 0
  /\ state' = "Ready" /\ indexOk' = TRUE
  /\ Finishes(t, "Committed")
  /\ UNCHANGED <<dbVars, lockVars, calls, faults>>

\* RebuildIndexLocked fails: the old index stays, but is not used.
RebuildFails(t) ==
  /\ thread[t].pc = "rebuild"
  /\ \/ BuildIndexFails(view) /\ UNCHANGED faults
     \/ Fault
  /\ \/ /\ thread[t].req.op = "Open"
        /\ OpenGivesUp(t)
     \/ /\ thread[t].req.op # "Open"
        /\ MarkDirty
        /\ Finishes(t, "Committed")
        /\ UNCHANGED <<dbVars, index, indexSeq, opsSince, lockVars, calls>>

-----------------------------------------------------------------------------
(***************************************************************************)
(* Write.                                                                  *)
(***************************************************************************)

ValidateBatch(b) == \A i \in DOMAIN b : b[i].deleted \/ b[i].value \notin Malformed

Batch(t) == thread[t].req.batch
Whole(t) == Applied(view, Batch(t), Len(Batch(t)))

WriteReturns(t, commit) ==
  thread' = [thread EXCEPT ![t] = [pc |-> "return", req |-> @.req, commit |-> commit,
                                   before |-> view]]

WriteRejected(t) ==
  /\ InBody(t, "Write")
  /\ ~CheckOpen \/ ~ValidateBatch(Batch(t))
  /\ WriteReturns(t, "NotCommitted")
  /\ UNCHANGED <<dbVars, indexVars, lockVars, calls, faults>>

\* db_.Write succeeds.  A dirty index is left alone.
WriteCommits(t) ==
  /\ InBody(t, "Write") /\ CheckOpen /\ ValidateBatch(Batch(t))
  /\ ~dbFailed
  /\ view' = Whole(t) /\ restart' = Whole(t)
  /\ \/ state = "Dirty" /\ WriteReturns(t, "Committed")
     \/ /\ state # "Dirty"
        /\ thread' = [thread EXCEPT ![t] = [pc |-> "index", req |-> @.req, pos |-> 0,
                                            before |-> view]]
  /\ UNCHANGED <<dbUp, dbFailed, frozen, indexVars, lockVars, calls, faults>>

\* db_.Write fails: at once when writes are already stopped, or in the middle, so
\* that the batch is lost, found by a restart, or (when only switching the MemTable
\* failed, which need not stop writes) visible.
WriteFails(t) ==
  /\ InBody(t, "Write") /\ CheckOpen /\ ValidateBatch(Batch(t))
  /\ \/ dbFailed /\ UNCHANGED <<view, restart, dbFailed, faults>>
     \/ /\ ~dbFailed /\ Fault
        /\ \/ UNCHANGED <<view, restart>> /\ dbFailed' = TRUE
           \/ UNCHANGED view /\ restart' = Whole(t) /\ dbFailed' = TRUE
           \/ view' = Whole(t) /\ restart' = Whole(t) /\ dbFailed' \in BOOLEAN
  /\ MarkDirty
  /\ WriteReturns(t, "Unknown")
  /\ UNCHANGED <<dbUp, frozen, index, indexSeq, opsSince, lockVars, calls>>

\* One round of the loop over the operations.
UpdatesIndex(t) ==
  /\ thread[t].pc = "index"
  /\ thread[t].pos < Len(Batch(t))
  /\ indexSeq < MaxSequence

WriteIndexes(t) ==
  LET o == Batch(t)[thread[t].pos + 1]
      s == indexSeq + 1
      refused == IF PutsVector(o) THEN InsertRefused(index, o.key, s, o.value, TRUE)
                 ELSE MarkDeletedRefused(index, o.key, s)
  IN  /\ UpdatesIndex(t)
      /\ indexSeq' = s
      /\ \/ /\ ~refused
            /\ index' = IF PutsVector(o) THEN InsertVersionLocked(index, o.key, s, o.value)
                        ELSE MarkDeleted(index, o.key, s)
            /\ thread' = [thread EXCEPT ![t].pos = @ + 1]
            /\ UNCHANGED <<state, indexOk>>
         \/ /\ refused
            /\ MarkDirty
            /\ Finishes(t, "Committed")
            /\ UNCHANGED index
      /\ UNCHANGED <<dbVars, opsSince, lockVars, calls, faults>>

\* An update fails or throws, before or after it counted, or after its node was
\* added to the graph.
IndexUpdateFails(t) ==
  LET o == Batch(t)[thread[t].pos + 1]
      s == indexSeq + 1
  IN  /\ UpdatesIndex(t)
      /\ Fault
      /\ indexSeq' \in {indexSeq, s}
      /\ \/ UNCHANGED index
         \/ /\ PutsVector(o) /\ indexSeq' = s
            /\ index' = [index EXCEPT !.nodes =
                           @ \cup {[key |-> o.key, seq |-> s, vec |-> o.value]}]
      /\ MarkDirty
      /\ Finishes(t, "Committed")
      /\ UNCHANGED <<dbVars, opsSince, lockVars, calls>>

\* (variant: the rebuild goes through the public RebuildIndex)
WriteEndsRelocking(t) ==
  /\ thread[t].pc = "index" /\ thread[t].pos = Len(Batch(t))
  /\ thread' = [thread EXCEPT ![t] = [pc |-> "lifecycle", req |-> [op |-> "RebuildIndex"]]]
  /\ UNCHANGED <<dbVars, indexVars, lockVars, calls, faults>>

\* The loop is done: return, or rebuild to reclaim obsolete nodes.
WriteEnds(t) ==
  LET ops == opsSince + Len(Batch(t))
  IN  /\ thread[t].pc = "index" /\ thread[t].pos = Len(Batch(t))
      /\ opsSince' = ops
      /\ \/ /\ RebuildOps # 0 /\ ops >= RebuildOps
            /\ state' = "Rebuilding"
            /\ thread' = [thread EXCEPT ![t].pc = "rebuild"]
         \/ /\ RebuildOps = 0 \/ ops < RebuildOps
            /\ Finishes(t, "Committed")
            /\ UNCHANGED state
      /\ UNCHANGED <<dbVars, index, indexOk, indexSeq, lockVars, calls, faults>>

-----------------------------------------------------------------------------
(***************************************************************************)
(* Searches, snapshots and maintenance.                                    *)
(***************************************************************************)

\* The view a search is asked about.
Asked(t) == IF thread[t].req.op = "Search" THEN view ELSE frozen[thread[t].req.snap]

IsSearch(t) == InBody(t, "Search") \/ InBody(t, "SearchSnapshot")

\* (variant: the state of the index is not looked at)
CanSearchAnyIndex(t) ==
  thread[t].req.op = "SearchSnapshot" =>
    Asked(t) # Released /\ ~BuildIndexFails(Asked(t))

CanSearch(t) ==
  /\ state = "Ready"
  /\ thread[t].req.op = "SearchSnapshot" =>
       Asked(t) # Released /\ ~BuildIndexFails(Asked(t))

SearchRefused(t) ==
  /\ IsSearch(t) /\ ~CanSearch(t)
  /\ Returns(t)
  /\ UNCHANGED <<dbVars, indexVars, lockVars, calls, faults>>

\* A search of a snapshot builds its own index, any other uses index_.
SearchStarts(t) ==
  /\ IsSearch(t) /\ CanSearch(t)
  /\ thread' = [thread EXCEPT ![t] =
       [pc |-> "search", req |-> @.req,
        historical |-> IF @.req.op = "Search" THEN EmptyIndex ELSE BuildIndex(Asked(t))]]
  /\ UNCHANGED <<dbVars, indexVars, lockVars, calls, faults>>

SearchEnds(t) ==
  LET selected == IF thread[t].req.op = "Search" THEN index ELSE thread[t].historical
  IN  /\ thread[t].pc = "search"
      /\ \E found \in Findings(selected, MaxSequence, TopK) :
           thread' = [thread EXCEPT ![t] = [pc |-> "return", req |-> @.req, found |-> found]]
      /\ UNCHANGED <<dbVars, indexVars, lockVars, calls, faults>>

\* A new handle, or none when db_ is closed (or Snaps is used up).
GetSnapshot(t) ==
  /\ InBody(t, "GetSnapshot")
  /\ LET s == thread[t].req.snap
     IN  frozen' = IF dbUp /\ frozen[s] = Released THEN [frozen EXCEPT ![s] = view]
                   ELSE frozen
  /\ Returns(t)
  /\ UNCHANGED <<view, restart, dbUp, dbFailed, indexVars, lockVars, calls, faults>>

ReleaseSnapshot(t) ==
  /\ InBody(t, "ReleaseSnapshot")
  /\ frozen' = [frozen EXCEPT ![thread[t].req.snap] = Released]
  /\ Returns(t)
  /\ UNCHANGED <<view, restart, dbUp, dbFailed, indexVars, lockVars, calls, faults>>

\* Compaction moves data without changing any view.
Compact(t) ==
  /\ InBody(t, "Compact")
  /\ Returns(t)
  /\ UNCHANGED <<dbVars, indexVars, lockVars, calls, faults>>

\* A flush or a compaction of db_ fails, at any time and under none of the locks.
BackgroundFails ==
  /\ dbUp /\ ~dbFailed /\ Fault
  /\ dbFailed' = TRUE
  /\ UNCHANGED <<view, restart, dbUp, frozen, indexVars, lockVars, thread, calls>>

-----------------------------------------------------------------------------
Init ==
  /\ view \in InitialViews /\ restart = view
  /\ dbUp = FALSE /\ dbFailed = FALSE
  /\ frozen = [s \in Snaps |-> Released]
  /\ index = EmptyIndex /\ state = "Closed" /\ indexOk = TRUE
  /\ indexSeq = 0 /\ opsSince = 0
  /\ lifecycle = [t \in Threads |-> "none"] /\ coordination = lifecycle
  /\ thread = [t \in Threads |-> Idle]
  /\ calls = 0 /\ faults = 0

\* A call goes on.
Step(t) ==
  \/ LockLifecycle(t) \/ LockCoordination(t) \/ Return(t)
  \/ OpenRefused(t) \/ OpenStarts(t) \/ OpenOpensDB(t) \/ OpenFails(t) \/ Close(t)
  \/ RebuildIndexRefused(t) \/ RebuildIndex(t) \/ RebuildPublishes(t) \/ RebuildFails(t)
  \/ WriteRejected(t) \/ WriteCommits(t) \/ WriteFails(t)
  \/ WriteIndexes(t) \/ IndexUpdateFails(t) \/ WriteEnds(t)
  \/ SearchRefused(t) \/ SearchStarts(t) \/ SearchEnds(t)
  \/ GetSnapshot(t) \/ ReleaseSnapshot(t) \/ Compact(t)

Next ==
  \/ \E t \in Threads : Step(t)
  \/ \E t \in Threads, r \in Requests : Call(t, r)
  \/ BackgroundFails

Spec == Init /\ [][Next]_vars

\* A thread inside a call keeps running.
FairSpec == Spec /\ \A t \in Threads : WF_vars(Step(t))

-----------------------------------------------------------------------------
(***************************************************************************)
(* Properties.                                                             *)
(***************************************************************************)

PCs == {"lifecycle", "coordination", "body", "opening", "rebuild", "return"}

ThreadStates ==
  {Idle} \cup [pc : PCs, req : Requests]
  \cup [pc : {"index"}, req : Requests, pos : Nat, before : Views]
  \cup [pc : {"rebuild"}, req : Requests, pos : Nat, before : Views]
  \cup [pc : {"return"}, req : Requests, commit : CommitStates, before : Views]
  \cup [pc : {"search"}, req : Requests, historical : Indexes]
  \cup [pc : {"return"}, req : Requests, found : SUBSET Nodes]

\* The variables have the shapes the code gives them.
TypeOK ==
  /\ view \in Views /\ restart \in Views
  /\ dbUp \in BOOLEAN /\ dbFailed \in BOOLEAN
  /\ frozen \in [Snaps -> Views \cup {Released}]
  /\ index \in Indexes /\ state \in IndexStates /\ indexOk \in BOOLEAN
  /\ indexSeq \in 0..MaxSequence /\ opsSince \in Nat
  /\ lifecycle \in [Threads -> Modes] /\ coordination \in [Threads -> Modes]
  /\ thread \in [Threads -> ThreadStates]
  /\ calls \in 0..MaxCalls /\ faults \in 0..MaxFaults

\* The pairs of key and vector that an index, and a view, hold.
Indexed(idx) == {<<n.key, n.vec>> : n \in Visible(idx, MaxSequence)}
Stored(m) == {<<k, m[k]>> : k \in VectorsOf(m)}

\* Whenever a search could run on a ready index, the index holds exactly the
\* vectors of the database: a batch is indexed as a whole, in its order, plain
\* values and deletes hide older vectors, and a rebuild loses nothing (README:
\* searches do not see half a batch).
IndexMatchesStore ==
  state = "Ready" /\ (\A t \in Threads : coordination[t] # "exclusive")
    => Indexed(index) = Stored(view)

\* A search returns only vectors that are stored under their keys in the view it
\* was asked about, the present one or a snapshot's, when it returns; never those
\* of an index that a failed update has left behind (KV_HNSW_SEPARATION_PLAN:
\* "must not silently return results of the old graph").
SearchesSeeTheStore ==
  \A t \in Threads :
    thread[t].pc = "return" /\ thread[t].req.op \in {"Search", "SearchSnapshot"}
    /\ "found" \in DOMAIN thread[t]
      => {<<n.key, n.vec>> : n \in thread[t].found} \subseteq Stored(Asked(t))

\* The commit state a write returns is true: NotCommitted changed nothing,
\* Committed stored the whole batch for good, Unknown decided nothing but disabled
\* the index, and a write that reports no error at all left the index in service.
ResultsAreHonest ==
  \A t \in Threads :
    LET th == thread[t]
        whole == Applied(th.before, th.req.batch, Len(th.req.batch))
    IN  th.pc = "return" /\ th.req.op = "Write" =>
          /\ th.commit = "NotCommitted" => view = th.before
          /\ th.commit = "Committed" => view = whole /\ restart = whole
          /\ th.commit = "Committed" /\ indexOk => state = "Ready"
          /\ th.commit = "Unknown" => view \in {th.before, whole} /\ state = "Dirty"

\* Only a failure below makes the index unavailable: the versions the extension
\* hands out never collide with those a rebuild or an earlier batch used.
DirtyNeedsFault == state = "Dirty" => faults > 0

\* Every call returns: the mutexes are always taken in the order lifecycle,
\* coordination, and never twice by one call.
CallsReturn == \A t \in Threads : thread[t] # Idle ~> thread[t] = Idle
=============================================================================
