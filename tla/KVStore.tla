------------------------------- MODULE KVStore ------------------------------
(***************************************************************************)
(* What the engine promises its clients: a map from keys to values that    *)
(* batches update atomically, snapshots that freeze it, and three notions  *)
(* of "the" contents that agree unless an I/O error or a crash is around.  *)
(*                                                                         *)
(*   view     what a read returns now                                      *)
(*   restart  what a read would return after the process restarts          *)
(*   durable  what a read would return after a power failure               *)
(*                                                                         *)
(* A value is the sequence number of the write that stored it; NotFound    *)
(* stands for no value.                                                    *)
(***************************************************************************)
EXTENDS Integers, Sequences

CONSTANTS Keys,      \* the user keys
          Batches,   \* the batches clients may write: sequences of operations
          Snaps      \* snapshot handles

VARIABLES up,        \* the database is open
          failed,    \* an I/O error has stopped writes until the next Open
          last,      \* the last sequence number handed out, 0 when down
          view, restart, durable,
          frozen     \* frozen[i]: the map snapshot i sees, or Released

vars == <<up, failed, last, view, restart, durable, frozen>>

NotFound == 0
Released == <<>>
Maps == [Keys -> Nat]

\* The map after batch b is applied to m with sequence numbers from first on: of
\* several operations on one key the last one counts.
Apply(m, b, first) ==
  [k \in Keys |->
     LET at == {i \in DOMAIN b : b[i].key = k}
     IN  IF at = {} THEN m[k]
         ELSE LET i == CHOOSE i \in at : \A j \in at : j <= i
              IN  IF b[i].deleted THEN NotFound ELSE first + i - 1]

Init ==
  /\ up = FALSE /\ failed = FALSE /\ last = 0
  /\ view = [k \in Keys |-> NotFound]
  /\ restart = view /\ durable = view
  /\ frozen = [i \in Snaps |-> Released]

\* A batch is on its way to the log: only a restart could find it.
Submit(b) ==
  /\ up /\ ~failed /\ view = restart
  /\ restart' = Apply(view, b, last + 1)
  /\ UNCHANGED <<up, failed, last, view, durable, frozen>>

\* The batch is durable and becomes visible, all of it at once.  What an earlier
\* error left undecided may become durable with it.
Commit(b) ==
  /\ up /\ ~failed
  /\ restart = Apply(view, b, last + 1)
  /\ view' = restart
  /\ last' = last + Len(b)
  /\ durable' \in {restart, Apply(durable, b, last + 1)}
  /\ UNCHANGED <<up, failed, restart, frozen>>

\* An I/O error.  A batch under way is not visible, and a restart finds all of
\* it or nothing.
Fail ==
  /\ up
  /\ failed' = TRUE
  /\ restart' \in {view, restart}
  /\ UNCHANGED <<up, last, view, durable, frozen>>

\* Housekeeping moves data, and may settle what a restart would find.
Settle ==
  /\ durable' \in {durable, restart, view}
  /\ UNCHANGED <<up, failed, last, view, restart, frozen>>

Snapshot(i) ==
  /\ up /\ frozen[i] = Released
  /\ frozen' = [frozen EXCEPT ![i] = view]
  /\ UNCHANGED <<up, failed, last, view, restart, durable>>

Release(i) ==
  /\ frozen[i] # Released
  /\ frozen' = [frozen EXCEPT ![i] = Released]
  /\ UNCHANGED <<up, failed, last, view, restart, durable>>

Open ==
  /\ ~up /\ up' = TRUE
  /\ failed' = FALSE
  /\ last' \in {n \in Nat : \A k \in Keys : view[k] <= n}
  /\ durable' \in {durable, restart}
  /\ UNCHANGED <<view, restart, frozen>>

Close ==
  /\ up /\ up' = FALSE
  /\ failed' = FALSE /\ last' = 0
  /\ view' = restart
  /\ frozen' = [i \in Snaps |-> Released]
  /\ durable' \in {durable, restart}
  /\ UNCHANGED restart

\* Power failure: the contents are those that were durable, or some of what was
\* still under way survived.
Crash ==
  /\ up' = FALSE /\ failed' = FALSE /\ last' = 0
  /\ durable' \in {durable, view, restart}
  /\ restart' = durable' /\ view' = durable'
  /\ frozen' = [i \in Snaps |-> Released]

Next ==
  \/ \E b \in Batches : Submit(b) \/ Commit(b)
  \/ \E i \in Snaps : Snapshot(i) \/ Release(i)
  \/ Fail \/ Settle \/ Open \/ Close \/ Crash

Spec == Init /\ [][Next]_vars
=============================================================================
