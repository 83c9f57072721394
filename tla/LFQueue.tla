------------------------------- MODULE LFQueue -------------------------------
(***************************************************************************)
(* The single-producer single-consumer ring of common/lf_queue.h, at the   *)
(* grain of its atomic variables.  A producer stores an element in the     *)
(* slot getNextToWriteTo returns and calls updateWriteIndex, a consumer    *)
(* reads the slot getNextToRead returns and calls updateReadIndex; each    *)
(* update changes the index first and the element count second.            *)
(*                                                                         *)
(* The code has no test for a full ring, and neither has the model: a      *)
(* producer that is N elements ahead writes over elements that are unread, *)
(* or in the reader's use.  A read of a slot while it is written gives any *)
(* element.                                                                *)
(***************************************************************************)
EXTENDS Integers, Sequences

CONSTANTS
  N,        \* store_.size()
  Value,    \* elements
  MaxAhead  \* bound: elements the producer is ahead of the reader, N and more included

ASSUME QueueAssumption == N \in Nat \ {0} /\ MaxAhead \in Nat

VARIABLES
  store,             \* store_
  next_write_index,
  next_read_index,
  num_elements,
  wpc,               \* producer: "idle", "written" the slot, "advanced" the index
  rpc,               \* consumer: "idle", "reading" the slot, "advanced" the index
  item               \* the element the consumer read last

producer == <<next_write_index, wpc, store>>
consumer == <<next_read_index, rpc, item>>
queueVars == <<store, next_write_index, next_read_index, num_elements, wpc, rpc, item>>

QueueInit ==
  /\ \E v \in Value : store = [i \in 0 .. N - 1 |-> v] /\ item = v
  /\ next_write_index = 0 /\ next_read_index = 0 /\ num_elements = 0
  /\ wpc = "idle" /\ rpc = "idle"

\* *getNextToWriteTo() = v.  If the slot is the one the consumer reads, what it reads is open.
getNextToWriteTo(v) ==
  /\ wpc = "idle" /\ num_elements < MaxAhead
  /\ store' = [store EXCEPT ![next_write_index] = v]
  /\ item' \in IF rpc = "reading" /\ next_read_index = next_write_index THEN Value ELSE {item}
  /\ wpc' = "written"
  /\ UNCHANGED <<next_write_index, num_elements, next_read_index, rpc>>

\* updateWriteIndex, first statement.
advanceWriteIndex ==
  /\ wpc = "written"
  /\ next_write_index' = (next_write_index + 1) % N
  /\ wpc' = "advanced"
  /\ UNCHANGED <<store, num_elements, consumer>>

\* updateWriteIndex, second statement.
countWrite ==
  /\ wpc = "advanced"
  /\ num_elements' = num_elements + 1
  /\ wpc' = "idle"
  /\ UNCHANGED <<store, next_write_index, consumer>>

\* What a read of slot i gives: its element, or any if the producer is writing it.
ReadOf(i) == IF wpc = "written" /\ next_write_index = i THEN Value ELSE {store[i]}

\* Mutant: the consumer does not look at the element count.
getNextToReadMutant ==
  /\ rpc = "idle"
  /\ next_read_index # next_write_index
  /\ item' \in ReadOf(next_read_index)
  /\ rpc' = "reading"
  /\ UNCHANGED <<next_read_index, num_elements, producer>>

\* Mutant: an off-by-one in the test for an element leaves the last one in the ring.
getNextToReadLate ==
  /\ rpc = "idle"
  /\ num_elements > 1
  /\ item' \in ReadOf(next_read_index)
  /\ rpc' = "reading"
  /\ UNCHANGED <<next_read_index, num_elements, producer>>

\* getNextToRead, and the caller's use of the element.
getNextToRead ==
  /\ rpc = "idle"
  /\ num_elements # 0
  /\ item' \in ReadOf(next_read_index)
  /\ rpc' = "reading"
  /\ UNCHANGED <<next_read_index, num_elements, producer>>

\* Mutant: the element is given back before the index moves on.
advanceReadIndexMutant ==
  /\ rpc = "reading"
  /\ num_elements' = num_elements - 1
  /\ rpc' = "advanced"
  /\ UNCHANGED <<item, next_read_index, producer>>

\* updateReadIndex, first statement.
advanceReadIndex ==
  /\ rpc = "reading"
  /\ next_read_index' = (next_read_index + 1) % N
  /\ rpc' = "advanced"
  /\ UNCHANGED <<item, num_elements, producer>>

\* updateReadIndex, the rest.
countRead ==
  /\ rpc = "advanced"
  /\ num_elements' = num_elements - 1
  /\ rpc' = "idle"
  /\ UNCHANGED <<item, next_read_index, producer>>

Write == (\E v \in Value : getNextToWriteTo(v)) \/ advanceWriteIndex \/ countWrite

Read == getNextToRead \/ advanceReadIndex \/ countRead

QueueNext == Write \/ Read

QueueSpec == QueueInit /\ [][QueueNext]_queueVars

-----------------------------------------------------------------------------
(* Properties. *)

\* The indices stay inside the vector, whatever the count.
QueueTypes ==
  /\ store \in [0 .. N - 1 -> Value]
  /\ item \in Value
  /\ next_write_index \in 0 .. N - 1
  /\ next_read_index \in 0 .. N - 1
  /\ num_elements \in 0 .. MaxAhead
  /\ wpc \in {"idle", "written", "advanced"}
  /\ rpc \in {"idle", "reading", "advanced"}

\* Elements counted that the consumer has not read.
Unread == IF rpc = "idle" THEN num_elements ELSE num_elements - 1

\* The slot of the oldest of them.
FirstUnread == IF rpc = "reading" THEN (next_read_index + 1) % N ELSE next_read_index

(***************************************************************************)
(* The two indices and the count, which the threads change in separate     *)
(* steps, fit together at any time, also while the ring is overrun: the    *)
(* slot the producer fills next is as many places after the reader's as    *)
(* there are elements, and the consumer, while it holds an element, has it *)
(* counted, so that updateReadIndex never finds the count at zero.         *)
(***************************************************************************)
IndicesAgree ==
  /\ (FirstUnread + Unread + (IF wpc = "advanced" THEN 1 ELSE 0)) % N = next_write_index
  /\ rpc # "idle" => num_elements > 0

Fifo == INSTANCE FifoQueue WITH q <- [j \in 1 .. Unread |-> store[(FirstUnread + j - 1) % N]]

(***************************************************************************)
(* The ring, at any load, is the queue of FifoQueue: first in first out    *)
(* until the producer is N elements ahead of what was given back.  From    *)
(* there on it spoils what its reader has in use or what has N - 1 newer   *)
(* elements behind it, and nothing else; once the reader has caught up,    *)
(* the queue is first in first out again.                                  *)
(***************************************************************************)
IsFifo == Fifo!Spec

\* An element that was counted gets read, whatever the producer does.
Drains == Unread > 0 ~> rpc = "reading"

=============================================================================
