----------------------------- MODULE VersionEdit ----------------------------
(***************************************************************************)
(* The MANIFEST: an append-only log of edits, and the version it replays   *)
(* to.                                                                     *)
(*                                                                         *)
(* A VersionEdit is the whole version (file numbers, live WAL, last        *)
(* sequence, live SSTables); a record is the difference between the        *)
(* version last known durable and the one being saved.  The payload's text *)
(* and checksum are abstracted to one bit: a record is intact or torn.     *)
(***************************************************************************)
EXTENDS Integers, Sequences, FiniteSets, FiniteSetsExt

\* SSTableMeta.  lo = hi = 0 stands for the empty key range of an empty table; the
\* size is that of the table, whose contents never change.
Metas == [num : Nat, level : 0..2, lo : Nat, hi : Nat]

FileSets == {F \in SUBSET Metas : IsFiniteSet(F)}

Edits == [next : Nat, wal : Nat, last : Nat, files : FileSets]

Records == [torn : BOOLEAN, next : Nat, wal : Nat, last : Nat,
            del : SUBSET Nat, add : FileSets]

Nums(files) == {m.num : m \in files}

\* The record that Save(new) appends when "old" is the version known durable.
BuildEditPayload(old, new) ==
  [torn |-> FALSE, next |-> new.next, wal |-> new.wal, last |-> new.last,
   del  |-> Nums(old.files) \ Nums(new.files),
   add  |-> {m \in new.files : m.num \notin Nums(old.files)}]

\* Replay of the intact records log on top of the version base.  A record drops
\* the files it deletes or adds again, then adds its own; the scalar fields are
\* those of the last record.
Dropped(r) == r.del \cup Nums(r.add)

Replay(base, log) ==
  LET n == Len(log)
      Survives(m, i) == \A j \in (i+1)..n : m.num \notin Dropped(log[j])
  IN  [next  |-> IF n = 0 THEN base.next ELSE log[n].next,
       wal   |-> IF n = 0 THEN base.wal  ELSE log[n].wal,
       last  |-> IF n = 0 THEN base.last ELSE log[n].last,
       files |-> {m \in base.files : Survives(m, 0)}
                 \cup UNION {{m \in log[i].add : Survives(m, i)} : i \in 1..n}]

\* The records before the first torn one: what LoadEditLog replays when it
\* succeeds.  It always does when the torn record is the last of the file.  With
\* records after it the outcome depends on their bytes: Corruption, or, when they
\* are fewer than the torn record announces, a silent cut at the torn record.
IntactPrefix(log) ==
  SubSeq(log, 1, Max({n \in 0..Len(log) : \A j \in 1..n : ~log[j].torn}))

TornRest(log) == SubSeq(log, Len(IntactPrefix(log)) + 1, Len(log))

TornInside(log) == Len(TornRest(log)) > 1

Tear(r) == [r EXCEPT !.torn = TRUE]
=============================================================================
