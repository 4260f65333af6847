--------------------------------- MODULE WAL --------------------------------
(***************************************************************************)
(* One write-ahead log file, as its writer, its reader and a crash leave   *)
(* it.                                                                     *)
(*                                                                         *)
(* A file is a sequence of intact batch records, each the set of versions  *)
(* its batch writes; the number of records known to be on stable storage;  *)
(* and whether bytes of an incomplete record follow the last one.          *)
(***************************************************************************)
EXTENDS Integers, Sequences, FiniteSets, FiniteSetsExt

BatchRecords(V) == {r \in SUBSET V : IsFiniteSet(r) /\ r # {}}

WALFiles(V) == [recs : Seq(BatchRecords(V)), synced : Nat, torn : BOOLEAN]

EmptyWAL == [recs |-> <<>>, synced |-> 0, torn |-> FALSE]

\* AppendBatch writes the whole record, then syncs the file.
AppendRecord(f, r) == [f EXCEPT !.recs = Append(f.recs, r)]
SyncFile(f) == [f EXCEPT !.synced = Len(f.recs)]

\* What an AppendBatch that returns an error leaves of the record it wrote:
\* nothing, a part of it, or all of it, not known to be durable.
AppendLeaves(f, how) ==
  LET before == [f EXCEPT !.recs = SubSeq(f.recs, 1, Len(f.recs) - 1)]
  IN  CASE how = "none" -> before
        [] how = "torn" -> [before EXCEPT !.torn = TRUE]
        [] how = "full" -> f

\* WALReader stops at a torn tail, cuts it off and syncs the file.
TruncateTornTail(f) == IF f.torn THEN [SyncFile(f) EXCEPT !.torn = FALSE] ELSE f

\* The versions that a replay of the file's intact records puts in a MemTable.
RecordedVersions(f) == UNION {f.recs[i] : i \in DOMAIN f.recs}

FirstSeq(r) == Min({e.seq : e \in r})
LastSeq(r) == Max({e.seq : e \in r})

\* Recover replays the files in number order and rejects a record that does not
\* start above the last sequence number of the record before it.
ReplaysInOrder(files, live) ==
  \A n1, n2 \in live :
    \A i1 \in DOMAIN files[n1].recs, i2 \in DOMAIN files[n2].recs :
      (n1 < n2 \/ (n1 = n2 /\ i1 < i2)) =>
        LastSeq(files[n1].recs[i1]) < FirstSeq(files[n2].recs[i2])

\* A power failure keeps the synced records and any prefix of the others; the
\* first one it does not keep whole may leave a torn tail.
Dirty(f) == f.torn \/ f.synced < Len(f.recs)

AfterPowerFailure(f) ==
  {g \in {[recs |-> SubSeq(f.recs, 1, n), synced |-> n, torn |-> t] :
            n \in f.synced..Len(f.recs), t \in BOOLEAN} :
     g.torn => Len(g.recs) < Len(f.recs) \/ f.torn}

\* The file if nothing that is not synced survives.
SyncedPart(f) == [recs |-> SubSeq(f.recs, 1, f.synced), synced |-> f.synced,
                  torn |-> FALSE]
=============================================================================
