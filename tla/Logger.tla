------------------------------- MODULE Logger -------------------------------
(***************************************************************************)
(* Common::Logger (common/logging.h): the threads of a component push log  *)
(* elements into a ring, a thread of the logger writes them to the file.   *)
(*                                                                         *)
(* The ring is the LFQueue of module LFQueue, which is made for one        *)
(* producer.  Here it has several, as the trade engine's logger does, so   *)
(* every access of pushValue to the shared indices is a step of its own,   *)
(* and the order of the steps of two threads is free.  A message is        *)
(* MessageLength elements.  What they say is left out: an element is known *)
(* by the slot it was put in, and a slot holds the last element put in it. *)
(*                                                                         *)
(* Nothing keeps the threads from getting a whole ring ahead of the        *)
(* flushing thread; what they then write over does not reach the file.     *)
(***************************************************************************)
EXTENDS Integers, Sequences

CONSTANTS
  Thread,          \* threads that log
  LOG_QUEUE_SIZE,  \* slots of the ring
  MessageLength,   \* elements of a message
  MaxPending       \* bound: elements not yet in the file, more than the ring has slots included

ASSUME LoggerAssumption ==
  LOG_QUEUE_SIZE \in Nat \ {0} /\ MessageLength \in Nat \ {0} /\ MaxPending \in Nat

VARIABLES
  next_write_index, next_read_index, num_elements,  \* queue_
  pushing,   \* thread -> where it is in pushValue and the index it loaded, while it needs it
  left,      \* thread -> elements of its message still to push
  flusher,   \* where flushQueue is
  running,   \* running_
  pending,   \* history: the slots of the elements pushed and not yet in the file, in their order
  garbled,   \* history: with no race and no overrun, the file is not what was logged, in that order
  raced      \* history: two threads were in pushValue at the same time

queue == <<next_write_index, next_read_index, num_elements>>
pushers == <<pushing, left>>
loggerVars == <<queue, pushers, flusher, running, pending, garbled, raced>>

LoggerInit ==
  /\ next_write_index = 0 /\ next_read_index = 0 /\ num_elements = 0
  /\ pushing = [t \in Thread |-> [at |-> "out", index |-> 0]]
  /\ left = [t \in Thread |-> 0]
  /\ flusher = "while" /\ running = TRUE
  /\ pending = <<>> /\ garbled = FALSE /\ raced = FALSE

Succ(i) == (i + 1) % LOG_QUEUE_SIZE

\* Thread t is inside log().
Logging(t) == left[t] > 0

\* A call of log() by thread t; the steps of pushValue follow.
log(t) ==
  /\ ~Logging(t)
  /\ left' = [left EXCEPT ![t] = MessageLength]
  /\ UNCHANGED <<queue, pushing, flusher, running, pending, garbled, raced>>

Goto(t, at, index) == pushing' = [pushing EXCEPT ![t] = [at |-> at, index |-> index]]

\* Thread t has asked for a slot and not moved the write index on.
Claiming(t) == pushing[t].at \in {"slot", "stored", "loaded"}

\* The elements in slots, with the one a thread is about to put there.
Taken == IF \E t \in Thread : pushing[t].at = "slot" THEN Len(pending) + 1 ELSE Len(pending)

\* They are more than the slots: the oldest is overwritten.
Overrun == Taken > LOG_QUEUE_SIZE

getNextToWriteTo(t) ==
  /\ Logging(t) /\ pushing[t].at = "out" /\ Taken < MaxPending
  /\ Goto(t, "slot", next_write_index)
  /\ raced' = (raced \/ \E u \in Thread \ {t} : Claiming(u))
  /\ UNCHANGED <<queue, left, flusher, running, pending, garbled>>

\* The assignment to the slot in pushValue.
storeElement(t) ==
  /\ pushing[t].at = "slot"
  /\ pending' = Append(pending, pushing[t].index)
  /\ Goto(t, "stored", 0)
  /\ UNCHANGED <<queue, left, flusher, running, garbled, raced>>

\* updateWriteIndex: the load of its first statement.
loadWriteIndex(t) ==
  /\ pushing[t].at = "stored"
  /\ Goto(t, "loaded", next_write_index)
  /\ UNCHANGED <<queue, left, flusher, running, pending, garbled, raced>>

\* updateWriteIndex: the store of its first statement.
storeWriteIndex(t) ==
  /\ pushing[t].at = "loaded"
  /\ next_write_index' = Succ(pushing[t].index)
  /\ Goto(t, "moved", 0)
  /\ UNCHANGED <<next_read_index, num_elements, left, flusher, running, pending, garbled, raced>>

\* updateWriteIndex: its second statement, an atomic increment.
countWrite(t) ==
  /\ pushing[t].at = "moved"
  /\ num_elements' = num_elements + 1
  /\ Goto(t, "out", 0)
  /\ left' = [left EXCEPT ![t] = @ - 1]
  /\ UNCHANGED <<next_write_index, next_read_index, flusher, running, pending, garbled, raced>>

pushValue(t) ==
  getNextToWriteTo(t) \/ storeElement(t) \/ loadWriteIndex(t) \/ storeWriteIndex(t) \/ countWrite(t)

-----------------------------------------------------------------------------
(***************************************************************************)
(* flushQueue.  Its two loops are one, with the tests of running_ and of   *)
(* the size in one step: running_ changes only when the queue is empty and *)
(* nobody logs any more.  flush and sleep_for have no state here.          *)
(***************************************************************************)
endFlush ==
  /\ flusher = "while" /\ ~running
  /\ flusher' = "ended"
  /\ UNCHANGED <<queue, pushers, running, pending, garbled, raced>>

\* The slot to read has the element whose turn it is: put there, and nothing since.
HasNext ==
  /\ Head(pending) = next_read_index
  /\ \A j \in 2 .. Len(pending) : pending[j] # next_read_index

writeElement ==
  /\ flusher = "while" /\ running /\ num_elements # 0
  /\ garbled' = (garbled \/ (~raced /\ ~Overrun /\ ~HasNext))
  /\ pending' = Tail(pending)
  /\ flusher' = "read"
  /\ UNCHANGED <<queue, pushers, running, raced>>

\* queue_.updateReadIndex(); the read index is the flushing thread's own.
finishElement ==
  /\ flusher = "read"
  /\ next_read_index' = Succ(next_read_index)
  /\ num_elements' = num_elements - 1
  /\ flusher' = "while"
  /\ UNCHANGED <<next_write_index, pushers, running, pending, garbled, raced>>

flushQueue == endFlush \/ writeElement \/ finishElement

\* Mutant: the destructor does not wait for the queue to be empty.
stopFlushingMutant == running' = FALSE /\ UNCHANGED <<queue, pushers, flusher, pending, garbled, raced>>

\* ~Logger up to the join of the logger's thread.
stopFlushing ==
  /\ num_elements = 0
  /\ running' = FALSE
  /\ UNCHANGED <<queue, pushers, flusher, pending, garbled, raced>>

=============================================================================
