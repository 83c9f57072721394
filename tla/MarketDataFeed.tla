---------------------------- MODULE MarketDataFeed ----------------------------
(***************************************************************************)
(* The market data path: the matching engine's updates, the publisher, the *)
(* synthesizer, two multicast streams that lose, repeat and reorder        *)
(* datagrams, and one consumer.                                            *)
(***************************************************************************)
EXTENDS SnapshotSynthesizer, MarketDataConsumer

CONSTANTS
  MaxSeq,     \* bound: updates of the matching engine
  MaxFaults   \* bound: datagrams lost, repeated or overtaken

ASSUME FeedAssumption ==
  /\ NumTickers \in Nat \ {0} /\ Qty \subseteq Nat \ {0}
  /\ MaxSeq \in Nat /\ MaxFaults \in Nat

VARIABLES
  outgoing_md_updates,  \* queue from the matching engine
  next_inc_seq_num,
  incremental_stream,   \* datagrams on their way, oldest first
  books,                \* history: books[n + 1] is the matching engine's book after n updates
  faults

publisher == <<outgoing_md_updates, next_inc_seq_num>>
vars == <<synthesizer, consumer, publisher, incremental_stream, books, faults>>

Init ==
  /\ SInit /\ CInit
  /\ outgoing_md_updates = <<>>
  /\ next_inc_seq_num = 1
  /\ incremental_stream = <<>>
  /\ books = <<{}>>
  /\ faults = 0

\* What the matching engine may report next: a new order, a partial fill or the end of an
\* order, a trade.
EngineUpdate ==
  {MEMarketUpdate("ADD", t, Len(books), q) : t \in Ticker, q \in Qty}
  \cup (UNION {{MEMarketUpdate("MODIFY", o.ticker_id, o.order_id, q) : q \in {r \in Qty : r < o.qty}}
               : o \in books[Len(books)]})
  \cup {MEMarketUpdate("CANCEL", o.ticker_id, o.order_id, Invalid) : o \in books[Len(books)]}
  \cup {MEMarketUpdate("TRADE", t, Invalid, Invalid) : t \in Ticker}

sendMarketUpdate ==
  /\ Len(books) <= MaxSeq
  /\ \E u \in EngineUpdate :
       /\ outgoing_md_updates' = Append(outgoing_md_updates, u)
       /\ books' = Append(books, Apply(books[Len(books)], u))
  /\ UNCHANGED <<synthesizer, consumer, next_inc_seq_num, incremental_stream, faults>>

\* Mutant: the number is increased once for a datagram.
publishIncrementalMutant ==
  /\ outgoing_md_updates # <<>>
  /\ LET ms == [i \in DOMAIN outgoing_md_updates |->
                  MDPMarketUpdate(next_inc_seq_num, outgoing_md_updates[i])]
     IN  /\ incremental_stream' = Append(incremental_stream, ms)
         /\ snapshot_md_updates' = snapshot_md_updates \o ms
         /\ next_inc_seq_num' = next_inc_seq_num + 1
  /\ outgoing_md_updates' = <<>>
  /\ UNCHANGED <<ticker_orders, last_inc_seq_num, snapshot_stream, consumer, books, faults>>

\* MarketDataPublisher::run empties the queue into one datagram.
publishIncremental ==
  /\ outgoing_md_updates # <<>>
  /\ LET ms == [i \in DOMAIN outgoing_md_updates |->
                  MDPMarketUpdate(next_inc_seq_num + i - 1, outgoing_md_updates[i])]
     IN  /\ incremental_stream' = Append(incremental_stream, ms)
         /\ snapshot_md_updates' = snapshot_md_updates \o ms
         /\ next_inc_seq_num' = next_inc_seq_num + Len(ms)
  /\ outgoing_md_updates' = <<>>
  /\ UNCHANGED <<ticker_orders, last_inc_seq_num, snapshot_stream, consumer, books, faults>>

SynthesizerRun ==
  /\ addToSnapshot \/ publishSnapshot
  /\ UNCHANGED <<consumer, publisher, incremental_stream, books, faults>>

deliverIncremental ==
  /\ incremental_stream # <<>>
  /\ receive(FALSE, Head(incremental_stream))
  /\ incremental_stream' = Tail(incremental_stream)
  /\ UNCHANGED <<synthesizer, publisher, books, faults>>

deliverSnapshot ==
  /\ snapshot_stream # <<>>
  /\ receive(TRUE, Head(snapshot_stream))
  /\ snapshot_stream' = Tail(snapshot_stream)
  /\ UNCHANGED <<snapshot_md_updates, ticker_orders, last_inc_seq_num, publisher,
                 incremental_stream, books, faults>>

ConsumerRun ==
  /\ recvCallback
  /\ UNCHANGED <<synthesizer, publisher, incremental_stream, books, faults>>

-----------------------------------------------------------------------------
(* The network: what can happen to the datagrams of a stream. *)

Lost(s) == IF s = <<>> THEN {} ELSE {Tail(s)}

Repeated(s) == IF s = <<>> THEN {} ELSE {<<Head(s)>> \o s}

Overtaken(s) == IF Len(s) < 2 THEN {} ELSE {<<s[2], s[1]>> \o SubSeq(s, 3, Len(s))}

Faulty(s) == Lost(s) \cup Repeated(s) \cup Overtaken(s)

fault ==
  /\ faults < MaxFaults
  /\ faults' = faults + 1
  /\ \/ incremental_stream' \in Faulty(incremental_stream) /\ UNCHANGED snapshot_stream
     \/ snapshot_stream' \in Faulty(snapshot_stream) /\ UNCHANGED incremental_stream
  /\ UNCHANGED <<snapshot_md_updates, ticker_orders, last_inc_seq_num, consumer, publisher, books>>

Next ==
  \/ sendMarketUpdate \/ publishIncremental \/ SynthesizerRun
  \/ deliverIncremental \/ deliverSnapshot \/ ConsumerRun
  \/ fault

Spec == Init /\ [][Next]_vars

\* What the threads of both processes and the network do on their own.
ThreadStep ==
  publishIncremental \/ SynthesizerRun \/ deliverIncremental \/ deliverSnapshot \/ ConsumerRun

(***************************************************************************)
(* The threads spin and datagrams that are not lost arrive: as long as one *)
(* of them can do something, one of them does.  Nothing is assumed of the  *)
(* matching engine, and not even that each thread gets its turn.           *)
(***************************************************************************)
FairSpec == Spec /\ WF_vars(ThreadStep)

-----------------------------------------------------------------------------
(* Properties. *)

\* The book of the matching engine after n updates.
BookAfter(n) == books[n + 1]

(***************************************************************************)
(* The copy of the synthesizer is the book of the matching engine as of    *)
(* last_inc_seq_num, which SNAPSHOT_START and SNAPSHOT_END announce.       *)
(***************************************************************************)
SnapshotIsBook == ticker_orders = BookAfter(last_inc_seq_num)

(***************************************************************************)
(* The ASSERTs of addToSnapshot hold for the message it handles next: no   *)
(* order is added twice, changed or removed before it was added, and no    *)
(* number is skipped.                                                      *)
(***************************************************************************)
SynthesizerAsserts ==
  snapshot_md_updates # <<>> => AddToSnapshotAsserts(Head(snapshot_md_updates))

(***************************************************************************)
(* "Incremental market data detects gaps by consecutive sequence numbers,  *)
(* and the local order book is recovered through the periodic snapshot":   *)
(* outside recovery the consumer has passed on exactly what makes the      *)
(* matching engine's book after the updates before next_exp_inc_seq_num.   *)
(***************************************************************************)
InSync == ~in_recovery => book = BookAfter(next_exp_inc_seq_num - 1)

(***************************************************************************)
(* The same for a consumer whose last snapshot carried one number in its   *)
(* SNAPSHOT_START and its SNAPSHOT_END, whatever the network did.          *)
(***************************************************************************)
InSyncUnlessSpliced == ~in_recovery /\ ~spliced => book = BookAfter(next_exp_inc_seq_num - 1)

\* A consumer that has detected a gap recovers, once the network stops failing.
RecoveryEnds == []<>~in_recovery

=============================================================================
