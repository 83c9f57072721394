------------------------- MODULE SnapshotSynthesizer -------------------------
(***************************************************************************)
(* SnapshotSynthesizer: keeps a copy of the live orders from the numbered  *)
(* updates the publisher forwards, and from time to time publishes all of  *)
(* them as one cycle of datagrams on the snapshot stream.                  *)
(***************************************************************************)
EXTENDS MarketUpdates

VARIABLES
  snapshot_md_updates,  \* queue from the publisher
  ticker_orders,        \* live orders of every ticker
  last_inc_seq_num,
  snapshot_stream       \* datagrams on their way, oldest first

synthesizer == <<snapshot_md_updates, ticker_orders, last_inc_seq_num, snapshot_stream>>

SInit ==
  /\ snapshot_md_updates = <<>>
  /\ ticker_orders = {}
  /\ last_inc_seq_num = 0
  /\ snapshot_stream = <<>>

\* Mutant: a fill does not change the quantity in the copy.
addToSnapshotMutant ==
  /\ snapshot_md_updates # <<>>
  /\ LET m == Head(snapshot_md_updates)
     IN  /\ ticker_orders' = IF m.update.type = "MODIFY" THEN ticker_orders
                                                         ELSE Apply(ticker_orders, m.update)
         /\ last_inc_seq_num' = m.seq_num
  /\ snapshot_md_updates' = Tail(snapshot_md_updates)
  /\ UNCHANGED snapshot_stream

addToSnapshot ==
  /\ snapshot_md_updates # <<>>
  /\ LET m == Head(snapshot_md_updates)
     IN  /\ ticker_orders' = Apply(ticker_orders, m.update)
         /\ last_inc_seq_num' = m.seq_num
  /\ snapshot_md_updates' = Tail(snapshot_md_updates)
  /\ UNCHANGED snapshot_stream

\* The ASSERTs of addToSnapshot for the message m.
AddToSnapshotAsserts(m) ==
  LET known == \E o \in ticker_orders : SameOrder(o, m.update)
  IN  /\ m.update.type = "ADD" => ~known
      /\ m.update.type \in {"MODIFY", "CANCEL"} => known
      /\ m.seq_num = last_inc_seq_num + 1

\* The orders of a ticker, by order id, after a CLEAR.
TickerMessages(t) ==
  <<MEMarketUpdate("CLEAR", t, Invalid, Invalid)>> \o
  LET orders == Ascending({o \in ticker_orders : o.ticker_id = t}, LAMBDA o : o.order_id)
  IN  [i \in DOMAIN orders |-> MEMarketUpdate("ADD", t, orders[i].order_id, orders[i].qty)]

\* The updates of a cycle.
SnapshotUpdates ==
  LET upTo[t \in 0 .. NumTickers] ==
        IF t = 0 THEN <<MEMarketUpdate("SNAPSHOT_START", Invalid, last_inc_seq_num, Invalid)>>
                 ELSE upTo[t - 1] \o TickerMessages(t)
  IN  Append(upTo[NumTickers], MEMarketUpdate("SNAPSHOT_END", Invalid, last_inc_seq_num, Invalid))

\* Updates first .. last of a cycle; the messages of a cycle are numbered from 0.
Datagram(us, first, last) ==
  [i \in 1 .. last - first + 1 |-> MDPMarketUpdate(first + i - 2, us[first + i - 1])]

\* sendAndRecv is called after every order and at the end.
DatagramEnds(us) == Ascending({i \in DOMAIN us : us[i].type \in {"ADD", "SNAPSHOT_END"}}, LAMBDA i : i)

\* After 60 seconds, with no update left; the previous cycle is delivered or lost by then.
publishSnapshot ==
  /\ snapshot_md_updates = <<>>
  /\ snapshot_stream = <<>>
  /\ \E us \in {SnapshotUpdates} : \E ends \in {DatagramEnds(us)} :
       snapshot_stream' = [k \in DOMAIN ends |-> Datagram(us, IF k = 1 THEN 1 ELSE ends[k - 1] + 1, ends[k])]
  /\ UNCHANGED <<snapshot_md_updates, ticker_orders, last_inc_seq_num>>

=============================================================================
