-------------------------- MODULE MarketDataConsumer --------------------------
(***************************************************************************)
(* MarketDataConsumer::recvCallback and what it calls, one message of a    *)
(* datagram per step.  The consumer forwards incremental updates while     *)
(* their numbers are consecutive; after a gap it queues both streams until *)
(* a complete snapshot and the incremental updates after it fit together.  *)
(***************************************************************************)
EXTENDS MarketUpdates

VARIABLES
  next_exp_inc_seq_num,
  in_recovery,              \* also: the snapshot socket is open and subscribed
  snapshot_queued_msgs,     \* sequence number -> update
  incremental_queued_msgs,  \* sequence number -> update
  inbound,                  \* messages of the datagram being processed
  is_snapshot,              \* the socket it came from
  book,                     \* the orders a reader of incoming_md_updates_ holds
  spliced                   \* the last snapshot used was put together from two cycles

consumer == <<next_exp_inc_seq_num, in_recovery, snapshot_queued_msgs, incremental_queued_msgs,
              inbound, is_snapshot, book, spliced>>

NoMsgs == [n \in {} |-> 0]

CInit ==
  /\ next_exp_inc_seq_num = 1
  /\ in_recovery = FALSE
  /\ snapshot_queued_msgs = NoMsgs /\ incremental_queued_msgs = NoMsgs
  /\ inbound = <<>> /\ is_snapshot = FALSE
  /\ book = {} /\ spliced = FALSE

\* McastSocket::sendAndRecv reads one datagram; the closed snapshot socket gets none.
receive(from_snapshot, datagram) ==
  /\ inbound = <<>>
  /\ inbound' = IF from_snapshot /\ ~in_recovery THEN <<>> ELSE datagram
  /\ is_snapshot' = from_snapshot
  /\ UNCHANGED <<next_exp_inc_seq_num, in_recovery, snapshot_queued_msgs, incremental_queued_msgs,
                 book, spliced>>

NextMsg == Head(inbound)

\* Consecutive update outside recovery: pass it on if it is an incremental one.
forward ==
  /\ inbound # <<>> /\ inbound' = Tail(inbound)
  /\ ~in_recovery /\ NextMsg.seq_num = next_exp_inc_seq_num
  /\ IF is_snapshot
     THEN UNCHANGED <<next_exp_inc_seq_num, book>>
     ELSE /\ next_exp_inc_seq_num' = next_exp_inc_seq_num + 1
          /\ book' = Apply(book, NextMsg.update)
  /\ UNCHANGED <<in_recovery, snapshot_queued_msgs, incremental_queued_msgs, is_snapshot, spliced>>

-----------------------------------------------------------------------------
(* checkSnapshotSync, on the queues with the new message. *)

Updates(msgs, first, last) == [i \in 1 .. last - first + 1 |-> msgs[first + i - 1]]

\* snapshot_queued_msgs_ is a map ordered by sequence number.
FirstIsStart(sq) == sq # NoMsgs /\ sq[Min(DOMAIN sq)].type = "SNAPSHOT_START"

Complete(sq) == DOMAIN sq = 0 .. Max(DOMAIN sq)

LastOf(sq) == sq[Max(DOMAIN sq)]

\* Queued incremental updates later than the snapshot.
AfterSnapshot(sq, iq) == {n \in DOMAIN iq : n > LastOf(sq).order_id}

\* next_exp_inc_seq_num_ when the loop over the queued incremental updates ends.
FirstMissing(sq, iq) ==
  LET after == AfterSnapshot(sq, iq)
  IN  CHOOSE n \in LastOf(sq).order_id + 1 .. LastOf(sq).order_id + 1 + Cardinality(after) :
        /\ n \notin after
        /\ \A k \in LastOf(sq).order_id + 1 .. n - 1 : k \in after

\* Mutant: queued updates the snapshot already contains are not skipped.
GapAfterSnapshotMutant(sq, iq) ==
  \E n \in DOMAIN iq : n <= LastOf(sq).order_id \/ n > FirstMissing(sq, iq)

GapAfterSnapshot(sq, iq) == \E n \in AfterSnapshot(sq, iq) : n > FirstMissing(sq, iq)

\* Mutant: the queued incremental updates are checked but not passed on.
FinalEventsMutant(sq, iq) ==
  SelectSeq(Updates(sq, 0, Max(DOMAIN sq)),
            LAMBDA u : u.type \notin {"SNAPSHOT_START", "SNAPSHOT_END"})

FinalEvents(sq, iq) ==
  SelectSeq(Updates(sq, 0, Max(DOMAIN sq))
              \o Updates(iq, LastOf(sq).order_id + 1, FirstMissing(sq, iq) - 1),
            LAMBDA u : u.type \notin {"SNAPSHOT_START", "SNAPSHOT_END"})

\* No snapshot yet, or its end is still to come: keep what there is.
waitForSnapshot(sq, iq) ==
  /\ sq = NoMsgs \/ (FirstIsStart(sq) /\ Complete(sq) /\ LastOf(sq).type # "SNAPSHOT_END")
  /\ snapshot_queued_msgs' = sq /\ incremental_queued_msgs' = iq
  /\ in_recovery' = TRUE
  /\ UNCHANGED <<next_exp_inc_seq_num, book, spliced>>

\* No start, or a gap: wait for another cycle.
discardSnapshot(sq, iq) ==
  /\ sq # NoMsgs /\ ~(FirstIsStart(sq) /\ Complete(sq))
  /\ snapshot_queued_msgs' = NoMsgs /\ incremental_queued_msgs' = iq
  /\ in_recovery' = TRUE
  /\ UNCHANGED <<next_exp_inc_seq_num, book, spliced>>

Usable(sq) ==
  FirstIsStart(sq) /\ Complete(sq) /\ LastOf(sq).type = "SNAPSHOT_END"

\* A gap between the snapshot and the queued incremental updates, or among them.
discardOldSnapshot(sq, iq) ==
  /\ Usable(sq) /\ GapAfterSnapshot(sq, iq)
  /\ next_exp_inc_seq_num' = FirstMissing(sq, iq)
  /\ snapshot_queued_msgs' = NoMsgs /\ incremental_queued_msgs' = iq
  /\ in_recovery' = TRUE
  /\ UNCHANGED <<book, spliced>>

\* Recovery is complete.
recover(sq, iq) ==
  /\ Usable(sq) /\ ~GapAfterSnapshot(sq, iq)
  /\ next_exp_inc_seq_num' = FirstMissing(sq, iq)
  /\ book' = ApplyAll(book, FinalEvents(sq, iq))
  /\ snapshot_queued_msgs' = NoMsgs /\ incremental_queued_msgs' = NoMsgs
  /\ in_recovery' = FALSE
  /\ spliced' = (sq[0].order_id # LastOf(sq).order_id)

checkSnapshotSync(sq, iq) ==
  waitForSnapshot(sq, iq) \/ discardSnapshot(sq, iq) \/ discardOldSnapshot(sq, iq) \/ recover(sq, iq)

\* A second message with the same number starts the snapshot queue again.
queueMessage(sq, iq) ==
  LET n == NextMsg.seq_num
      u == NextMsg.update
  IN  checkSnapshotSync(
        IF ~is_snapshot THEN sq
        ELSE IF n \in DOMAIN sq THEN n :> u ELSE (n :> u) @@ sq,
        IF is_snapshot THEN iq ELSE (n :> u) @@ iq)

\* Message in recovery, or the one that starts it (startSnapshotSync empties the queues).
queueInRecovery ==
  /\ inbound # <<>> /\ inbound' = Tail(inbound)
  /\ in_recovery \/ NextMsg.seq_num # next_exp_inc_seq_num
  /\ IF in_recovery THEN queueMessage(snapshot_queued_msgs, incremental_queued_msgs)
                    ELSE queueMessage(NoMsgs, NoMsgs)
  /\ UNCHANGED is_snapshot

recvCallback == forward \/ queueInRecovery

=============================================================================
