------------------------ MODULE FeedAndEngineProofs ------------------------
(***************************************************************************)
(* The exchange's half of the market data path, and the trading client's   *)
(* engine and logger.  The two share no state; each has its own invariant. *)
(*                                                                         *)
(* For any number of tickers, quantities, updates and network faults, the  *)
(* synthesizer's copy is the matching engine's book at the number it       *)
(* announces, and its ASSERTs hold.  Both follow from one fact about every *)
(* update on its way, in the queue to the publisher or in the one to the   *)
(* synthesizer: it has or will get the number of the engine's step that    *)
(* produced it.                                                            *)
(*                                                                         *)
(* What TradeEngine::stop() guarantees holds for any number of arrivals,   *)
(* of messages and any size of the log ring. What came before the call and *)
(* is not handled is in the queue, all of it and nothing else as long as   *)
(* nothing more came; and the count of a queue goes down only after an     *)
(* element was handled. So a queue found empty owes nothing.               *)
(*                                                                         *)
(* The log ring counts right although it has two producers, since the      *)
(* count is an atomic increment; and while they have not met in pushValue  *)
(* the elements lie in one slot after the other, so that the one to be     *)
(* read is there unless it was overrun.                                    *)
(***************************************************************************)
EXTENDS MarketDataFeed, TradeEngine, TLAPS

\* What the matching engine reports.
MEUpdate == [type : {"ADD", "MODIFY", "CANCEL", "TRADE"}, ticker_id : Ticker, order_id : Nat, qty : Nat]

\* The same with its number.
MDPUpdate == [seq_num : Nat, update : MEUpdate]

\* The orders of a book.
BookOrder == [ticker_id : Ticker, order_id : Nat, qty : Nat]

\* No order is added twice, changed or removed before it was added.
Applicable(b, u) ==
  LET known == \E o \in b : SameOrder(o, u)
  IN  /\ u.type = "ADD" => ~known
      /\ u.type \in {"MODIFY", "CANCEL"} => known

\* Update u may be number n of a history: it fits the book before and makes the one after.
Leads(history, n, u) == Applicable(history[n], u) /\ history[n + 1] = Apply(history[n], u)

\* The history of books, and that ids of orders are never used again.
History ==
  /\ books \in Seq(SUBSET BookOrder) /\ Len(books) > 0
  /\ \A n \in 1 .. Len(books) : \A o \in books[n] : o.order_id < n

\* Updates the publisher has still to number.
Outgoing ==
  /\ next_inc_seq_num \in Nat \ {0}
  /\ outgoing_md_updates \in Seq(MEUpdate)
  /\ next_inc_seq_num + Len(outgoing_md_updates) = Len(books)
  /\ \A i \in 1 .. Len(outgoing_md_updates) :
       Leads(books, next_inc_seq_num + i - 1, outgoing_md_updates[i])

\* Numbered updates the synthesizer has still to take.
Forwarded ==
  /\ last_inc_seq_num \in Nat
  /\ snapshot_md_updates \in Seq(MDPUpdate)
  /\ last_inc_seq_num + Len(snapshot_md_updates) + 1 = next_inc_seq_num
  /\ \A i \in 1 .. Len(snapshot_md_updates) :
       /\ snapshot_md_updates[i].seq_num = last_inc_seq_num + i
       /\ Leads(books, last_inc_seq_num + i, snapshot_md_updates[i].update)

\* The inductive invariant.
FeedInv == History /\ Outgoing /\ Forwarded /\ SnapshotIsBook

-----------------------------------------------------------------------------
(* The matching engine. *)

\* The orders left by an update are orders.
LEMMA ApplyType ==
  ASSUME NEW b \in SUBSET BookOrder, NEW u \in MEUpdate
  PROVE  /\ Apply(b, u) \in SUBSET BookOrder
         /\ \A o \in Apply(b, u) : o \in b \/ (u.type \in {"ADD", "MODIFY"} /\ o.order_id = u.order_id)
<1>1. OrderOf(u) \in BookOrder /\ OrderOf(u).order_id = u.order_id
  BY DEF OrderOf, BookOrder, MEUpdate
<1> QED
  BY <1>1 DEF Apply, Without, MEUpdate

\* What the engine reports next fits the book it has.
LEMMA EngineUpdateFits ==
  ASSUME History, NEW u \in EngineUpdate
  PROVE  /\ u \in MEUpdate
         /\ u.type = "ADD" => u.order_id = Len(books)
         /\ u.type = "MODIFY" => u.order_id < Len(books)
         /\ Applicable(books[Len(books)], u)
<1>1. /\ Len(books) \in 1 .. Len(books) /\ Len(books) \in Nat
      /\ books[Len(books)] \in SUBSET BookOrder
      /\ \A o \in books[Len(books)] : o.order_id < Len(books)
  BY DEF History
<1>2. ASSUME NEW t \in Ticker, NEW q \in Qty, u = MEMarketUpdate("ADD", t, Len(books), q)
      PROVE  u \in MEUpdate /\ u.type = "ADD" /\ u.order_id = Len(books)
  BY <1>1, <1>2, FeedAssumption DEF MEMarketUpdate, MEUpdate
<1>3. ASSUME NEW o \in books[Len(books)], NEW q \in Qty, u = MEMarketUpdate("MODIFY", o.ticker_id, o.order_id, q)
      PROVE  u \in MEUpdate /\ u.type = "MODIFY" /\ u.order_id < Len(books) /\ SameOrder(o, u)
  BY <1>1, <1>3, FeedAssumption DEF MEMarketUpdate, MEUpdate, SameOrder, BookOrder
<1>4. ASSUME NEW o \in books[Len(books)], u = MEMarketUpdate("CANCEL", o.ticker_id, o.order_id, Invalid)
      PROVE  u \in MEUpdate /\ u.type = "CANCEL" /\ SameOrder(o, u)
  BY <1>1, <1>4 DEF MEMarketUpdate, MEUpdate, SameOrder, BookOrder, Invalid
<1>5. ASSUME NEW t \in Ticker, u = MEMarketUpdate("TRADE", t, Invalid, Invalid)
      PROVE  u \in MEUpdate /\ u.type = "TRADE"
  BY <1>5 DEF MEMarketUpdate, MEUpdate, Invalid
<1>6. \/ \E t \in Ticker, q \in Qty : u = MEMarketUpdate("ADD", t, Len(books), q)
      \/ \E o \in books[Len(books)], q \in Qty : u = MEMarketUpdate("MODIFY", o.ticker_id, o.order_id, q)
      \/ \E o \in books[Len(books)] : u = MEMarketUpdate("CANCEL", o.ticker_id, o.order_id, Invalid)
      \/ \E t \in Ticker : u = MEMarketUpdate("TRADE", t, Invalid, Invalid)
  <2>1. ASSUME u \in UNION {{MEMarketUpdate("MODIFY", o.ticker_id, o.order_id, q) : q \in {r \in Qty : r < o.qty}}
                           : o \in books[Len(books)]}
        PROVE  \E o \in books[Len(books)], q \in Qty : u = MEMarketUpdate("MODIFY", o.ticker_id, o.order_id, q)
    <3>1. PICK o \in books[Len(books)] :
                 u \in {MEMarketUpdate("MODIFY", o.ticker_id, o.order_id, q) : q \in {r \in Qty : r < o.qty}}
      BY <2>1
    <3> QED
      BY <3>1
  <2>2. \/ u \in {MEMarketUpdate("ADD", t, Len(books), q) : t \in Ticker, q \in Qty}
        \/ u \in UNION {{MEMarketUpdate("MODIFY", o.ticker_id, o.order_id, q) : q \in {r \in Qty : r < o.qty}}
                       : o \in books[Len(books)]}
        \/ u \in {MEMarketUpdate("CANCEL", o.ticker_id, o.order_id, Invalid) : o \in books[Len(books)]}
        \/ u \in {MEMarketUpdate("TRADE", t, Invalid, Invalid) : t \in Ticker}
    BY DEF EngineUpdate
  <2> QED
    BY <2>1, <2>2
<1>7. CASE u.type = "ADD"
  <2>1. u.order_id = Len(books) /\ u \in MEUpdate
    BY <1>2, <1>3, <1>4, <1>5, <1>6, <1>7
  <2>2. ~\E o \in books[Len(books)] : SameOrder(o, u)
    BY <1>1, <2>1 DEF SameOrder, BookOrder
  <2> QED
    BY <1>1, <1>7, <2>1, <2>2 DEF Applicable
<1>8. CASE u.type # "ADD"
  BY <1>1, <1>2, <1>3, <1>4, <1>5, <1>6, <1>8 DEF Applicable
<1> QED
  BY <1>7, <1>8

\* A longer history says the same of the updates before.
LEMMA LeadsKept ==
  ASSUME History, NEW b, books' = Append(books, b)
  PROVE  /\ Len(books') = Len(books) + 1 /\ books'[Len(books) + 1] = b
         /\ \A n \in 1 .. Len(books) : books'[n] = books[n]
         /\ \A n \in 1 .. Len(books) - 1 : \A u : Leads(books, n, u) => Leads(books', n, u)
<1>1. /\ Len(books') = Len(books) + 1 /\ books'[Len(books) + 1] = b
      /\ \A n \in 1 .. Len(books) : books'[n] = books[n]
  BY DEF History
<1>2. ASSUME NEW n \in 1 .. Len(books) - 1, NEW u, Leads(books, n, u) PROVE Leads(books', n, u)
  <2>1. books'[n] = books[n] /\ books'[n + 1] = books[n + 1]
    BY <1>1 DEF History
  <2> QED
    BY <1>2, <2>1 DEF Leads
<1> QED
  BY <1>1, <1>2

\* A new update of the engine gets the next number of the history and of the publisher's queue.
LEMMA EngineKeeps == ASSUME FeedInv, sendMarketUpdate PROVE FeedInv'
<1>1. History /\ Outgoing /\ Forwarded /\ SnapshotIsBook
  BY DEF FeedInv
<1>2. PICK u \in EngineUpdate :
        /\ outgoing_md_updates' = Append(outgoing_md_updates, u)
        /\ books' = Append(books, Apply(books[Len(books)], u))
  BY DEF sendMarketUpdate
<1>3. UNCHANGED <<snapshot_md_updates, ticker_orders, last_inc_seq_num, next_inc_seq_num>>
  BY DEF sendMarketUpdate, synthesizer
<1>4. /\ Len(books) \in Nat \ {0}
      /\ books[Len(books)] \in SUBSET BookOrder
      /\ \A o \in books[Len(books)] : o.order_id < Len(books)
  BY <1>1 DEF History
<1>5. /\ u \in MEUpdate
      /\ u.type \in {"ADD", "MODIFY"} => u.order_id <= Len(books)
      /\ Applicable(books[Len(books)], u)
  <2>1. u \in MEUpdate
    BY <1>1, EngineUpdateFits
  <2>2. u.order_id \in Nat
    BY <2>1 DEF MEUpdate
  <2> QED
    BY <1>1, <1>4, <2>1, <2>2, EngineUpdateFits
<1>6. PICK b : b = Apply(books[Len(books)], u)
  OBVIOUS
<1>7. /\ b \in SUBSET BookOrder
      /\ \A o \in b : o.order_id < Len(books) + 1
  <2>1. /\ b \in SUBSET BookOrder
        /\ \A o \in b : o \in books[Len(books)] \/ (u.type \in {"ADD", "MODIFY"} /\ o.order_id = u.order_id)
    BY <1>4, <1>5, <1>6, ApplyType
  <2>2. ASSUME NEW o \in b PROVE o.order_id < Len(books) + 1
    <3>1. o.order_id \in Nat
      BY <2>1 DEF BookOrder
    <3> QED
      BY <1>4, <1>5, <2>1, <3>1
  <2> QED
    BY <2>1, <2>2
<1>8. books' = Append(books, b)
  BY <1>2, <1>4, <1>6
<1>9. /\ Len(books') = Len(books) + 1 /\ books'[Len(books) + 1] = b
      /\ \A n \in 1 .. Len(books) : books'[n] = books[n]
      /\ \A n \in 1 .. Len(books) - 1 : \A v : Leads(books, n, v) => Leads(books', n, v)
  BY <1>1, <1>8, LeadsKept
<1>10. History'
  <2>1. books' \in Seq(SUBSET BookOrder) /\ Len(books') > 0
    BY <1>1, <1>4, <1>7, <1>8, <1>9 DEF History
  <2>2. ASSUME NEW n \in 1 .. Len(books'), NEW o \in books'[n] PROVE o.order_id < n
    <3>1. CASE n = Len(books) + 1
      BY <1>7, <1>9, <3>1
    <3>2. CASE n # Len(books) + 1
      BY <1>1, <1>4, <1>9, <3>2 DEF History
    <3> QED
      BY <3>1, <3>2
  <2> QED
    BY <2>1, <2>2 DEF History
<1>11. Leads(books', Len(books), u)
  <2>1. books'[Len(books)] = books[Len(books)] /\ books'[Len(books) + 1] = Apply(books[Len(books)], u)
    BY <1>4, <1>6, <1>9
  <2> QED
    BY <1>5, <2>1 DEF Leads
<1>12. Outgoing'
  <2>1. /\ outgoing_md_updates' \in Seq(MEUpdate)
        /\ Len(outgoing_md_updates') = Len(outgoing_md_updates) + 1
        /\ outgoing_md_updates'[Len(outgoing_md_updates) + 1] = u
        /\ \A i \in 1 .. Len(outgoing_md_updates) : outgoing_md_updates'[i] = outgoing_md_updates[i]
    BY <1>1, <1>2, <1>5 DEF Outgoing
  <2>2. /\ next_inc_seq_num \in Nat \ {0} /\ Len(outgoing_md_updates) \in Nat
        /\ next_inc_seq_num + Len(outgoing_md_updates) = Len(books)
    BY <1>1 DEF Outgoing
  <2>3. ASSUME NEW i \in 1 .. Len(outgoing_md_updates')
        PROVE  Leads(books', next_inc_seq_num + i - 1, outgoing_md_updates'[i])
    <3>1. CASE i = Len(outgoing_md_updates) + 1
      <4>1. next_inc_seq_num + i - 1 = Len(books)
        BY <2>2, <3>1
      <4> QED
        BY <1>3, <1>11, <2>1, <3>1, <4>1 DEF Leads
    <3>2. CASE i # Len(outgoing_md_updates) + 1
      <4>1. i \in 1 .. Len(outgoing_md_updates) /\ next_inc_seq_num + i - 1 \in 1 .. Len(books) - 1
        BY <2>1, <2>2, <3>2
      <4>2. Leads(books, next_inc_seq_num + i - 1, outgoing_md_updates[i])
        BY <1>1, <4>1 DEF Outgoing
      <4>3. PICK n \in 1 .. Len(books) - 1 : n = next_inc_seq_num + i - 1
        BY <4>1
      <4>4. Leads(books', n, outgoing_md_updates[i])
        BY <1>9, <4>2, <4>3
      <4> QED
        BY <1>3, <2>1, <4>1, <4>3, <4>4 DEF Leads
    <3> QED
      BY <3>1, <3>2
  <2>4. next_inc_seq_num + Len(outgoing_md_updates') = Len(books')
    <3>1. Len(books') = Len(books) + 1
      BY <1>9, Zenon
    <3>2. Len(outgoing_md_updates') = Len(outgoing_md_updates) + 1
      BY <2>1, Zenon
    <3> QED
      BY <2>2, <3>1, <3>2
  <2> QED
    BY <1>3, <2>1, <2>2, <2>3, <2>4 DEF Outgoing
<1>13. Forwarded'
  <2>1. \A i \in 1 .. Len(snapshot_md_updates) : last_inc_seq_num + i \in 1 .. Len(books) - 1
    BY <1>1, <1>4 DEF Forwarded, Outgoing
  <2>2. \A i \in 1 .. Len(snapshot_md_updates) : Leads(books', last_inc_seq_num + i, snapshot_md_updates[i].update)
    BY <1>1, <1>9, <2>1 DEF Forwarded
  <2> QED
    BY <1>1, <1>3, <2>2 DEF Forwarded
<1>14. SnapshotIsBook'
  <2>1. last_inc_seq_num + 1 \in 1 .. Len(books)
    BY <1>1, <1>4 DEF Forwarded, Outgoing
  <2> QED
    BY <1>1, <1>3, <1>9, <2>1 DEF SnapshotIsBook, BookAfter
<1> QED
  BY <1>10, <1>12, <1>13, <1>14 DEF FeedInv

-----------------------------------------------------------------------------
(* The publisher and the synthesizer. *)

\* The publisher numbers the updates of its queue in the order of the engine's steps.
LEMMA PublisherKeeps == ASSUME FeedInv, publishIncremental PROVE FeedInv'
<1>1. History /\ Outgoing /\ Forwarded /\ SnapshotIsBook
  BY DEF FeedInv
<1>2. PICK ms : ms = [i \in DOMAIN outgoing_md_updates |->
                        MDPMarketUpdate(next_inc_seq_num + i - 1, outgoing_md_updates[i])]
  BY Zenon
<1>3. /\ snapshot_md_updates' = snapshot_md_updates \o ms
      /\ next_inc_seq_num' = next_inc_seq_num + Len(ms)
      /\ outgoing_md_updates' = <<>>
      /\ UNCHANGED <<ticker_orders, last_inc_seq_num, books>>
  BY <1>2 DEF publishIncremental
<1>domain. DOMAIN outgoing_md_updates = 1 .. Len(outgoing_md_updates)
  BY <1>1 DEF Outgoing
<1>4. /\ Len(outgoing_md_updates) \in Nat
      /\ Len(snapshot_md_updates) \in Nat /\ next_inc_seq_num \in Nat \ {0} /\ last_inc_seq_num \in Nat
      /\ last_inc_seq_num + Len(snapshot_md_updates) + 1 = next_inc_seq_num
      /\ next_inc_seq_num + Len(outgoing_md_updates) = Len(books)
  BY <1>1 DEF Outgoing, Forwarded
<1>5. ASSUME NEW i \in 1 .. Len(outgoing_md_updates)
      PROVE  /\ ms[i].seq_num = next_inc_seq_num + i - 1
             /\ ms[i] \in MDPUpdate
             /\ Leads(books, next_inc_seq_num + i - 1, ms[i].update)
  <2>1. ms[i] = [seq_num |-> next_inc_seq_num + i - 1, update |-> outgoing_md_updates[i]]
    BY <1>domain, <1>2 DEF MDPMarketUpdate
  <2>2. next_inc_seq_num + i - 1 \in Nat /\ outgoing_md_updates[i] \in MEUpdate
    BY <1>1, <1>4 DEF Outgoing
  <2>3. ms[i] \in MDPUpdate /\ ms[i].update = outgoing_md_updates[i]
    BY <2>1, <2>2 DEF MDPUpdate
  <2> QED
    BY <1>1, <2>1, <2>3 DEF Outgoing
<1>6. Len(ms) = Len(outgoing_md_updates) /\ ms \in Seq(MDPUpdate)
  <2>1. DOMAIN ms = 1 .. Len(outgoing_md_updates)
        /\ ms = [i \in 1 .. Len(outgoing_md_updates) |-> ms[i]]
    BY <1>domain, <1>2
  <2> QED
    BY <1>4, <1>5, <2>1
<1>7. /\ snapshot_md_updates' \in Seq(MDPUpdate)
      /\ Len(snapshot_md_updates') = Len(snapshot_md_updates) + Len(ms)
      /\ \A i \in 1 .. Len(snapshot_md_updates) : snapshot_md_updates'[i] = snapshot_md_updates[i]
      /\ \A i \in 1 .. Len(ms) : snapshot_md_updates'[Len(snapshot_md_updates) + i] = ms[i]
  <2>1. snapshot_md_updates \in Seq(MDPUpdate)
    BY <1>1 DEF Forwarded
  <2>2. /\ snapshot_md_updates \o ms \in Seq(MDPUpdate)
        /\ Len(snapshot_md_updates \o ms) = Len(snapshot_md_updates) + Len(ms)
        /\ \A i \in 1 .. Len(snapshot_md_updates) : (snapshot_md_updates \o ms)[i] = snapshot_md_updates[i]
        /\ \A i \in 1 .. Len(ms) : (snapshot_md_updates \o ms)[Len(snapshot_md_updates) + i] = ms[i]
    BY <1>6, <2>1
  <2> QED
    BY <1>3, <2>2
<1>8. ASSUME NEW i \in 1 .. Len(snapshot_md_updates')
      PROVE  /\ snapshot_md_updates'[i].seq_num = last_inc_seq_num + i
             /\ Leads(books, last_inc_seq_num + i, snapshot_md_updates'[i].update)
  <2>1. CASE i <= Len(snapshot_md_updates)
    <3>1. i \in 1 .. Len(snapshot_md_updates) /\ snapshot_md_updates'[i] = snapshot_md_updates[i]
      BY <1>4, <1>7, <2>1
    <3> QED
      BY <1>1, <3>1 DEF Forwarded
  <2>2. CASE i > Len(snapshot_md_updates)
    <3>1. PICK j \in 1 .. Len(ms) : i = Len(snapshot_md_updates) + j
      <4>1. i - Len(snapshot_md_updates) \in 1 .. Len(ms)
        BY <1>4, <1>6, <1>7, <2>2
      <4> QED
        BY <1>4, <4>1
    <3>2. snapshot_md_updates'[i] = ms[j] /\ j \in 1 .. Len(outgoing_md_updates)
      BY <1>6, <1>7, <3>1
    <3>3. next_inc_seq_num + j - 1 = last_inc_seq_num + i
      BY <1>4, <1>6, <3>1
    <3>4. ms[j].seq_num = next_inc_seq_num + j - 1 /\ Leads(books, next_inc_seq_num + j - 1, ms[j].update)
      BY <1>5, <3>2
    <3> QED
      BY <3>2, <3>3, <3>4
  <2> QED
    BY <1>4, <2>1, <2>2
<1>9. Outgoing'
  BY <1>3, <1>4, <1>6 DEF Outgoing
<1>10. last_inc_seq_num' + Len(snapshot_md_updates') + 1 = next_inc_seq_num'
  <2>1. Len(snapshot_md_updates') = Len(snapshot_md_updates) + Len(ms)
    BY <1>7
  <2>2. Len(ms) \in Nat /\ last_inc_seq_num' = last_inc_seq_num /\ next_inc_seq_num' = next_inc_seq_num + Len(ms)
    BY <1>3, <1>4, <1>6
  <2> QED
    BY <1>4, <2>1, <2>2
<1>11. Forwarded'
  BY <1>1, <1>3, <1>7, <1>8, <1>10 DEF Forwarded
<1> QED
  BY <1>1, <1>3, <1>9, <1>11 DEF FeedInv, History, SnapshotIsBook, BookAfter

\* The synthesizer takes the update that leads from its copy to the next book.
LEMMA SynthesizerKeeps == ASSUME FeedInv, addToSnapshot, UNCHANGED <<publisher, books>> PROVE FeedInv'
<1>1. History /\ Outgoing /\ Forwarded /\ SnapshotIsBook
  BY DEF FeedInv
<1>2. PICK m : m = Head(snapshot_md_updates)
  OBVIOUS
<1>3. /\ snapshot_md_updates # <<>> /\ snapshot_md_updates' = Tail(snapshot_md_updates)
      /\ ticker_orders' = Apply(ticker_orders, m.update)
      /\ last_inc_seq_num' = m.seq_num
      /\ UNCHANGED <<books, next_inc_seq_num, outgoing_md_updates>>
  BY <1>2 DEF addToSnapshot, publisher
<1>4. /\ last_inc_seq_num \in Nat /\ Len(snapshot_md_updates) \in Nat \ {0}
      /\ m = snapshot_md_updates[1]
      /\ snapshot_md_updates' \in Seq(MDPUpdate)
      /\ Len(snapshot_md_updates') = Len(snapshot_md_updates) - 1
      /\ \A i \in 1 .. Len(snapshot_md_updates) - 1 : snapshot_md_updates'[i] = snapshot_md_updates[i + 1]
  BY <1>1, <1>2, <1>3 DEF Forwarded
<1>5. /\ m.seq_num = last_inc_seq_num + 1
      /\ Leads(books, last_inc_seq_num + 1, m.update)
  BY <1>1, <1>4 DEF Forwarded
<1>6. SnapshotIsBook'
  BY <1>1, <1>3, <1>5 DEF SnapshotIsBook, BookAfter, Leads
<1>7. ASSUME NEW i \in 1 .. Len(snapshot_md_updates')
      PROVE  /\ snapshot_md_updates'[i].seq_num = last_inc_seq_num' + i
             /\ Leads(books, last_inc_seq_num' + i, snapshot_md_updates'[i].update)
  <2>1. i + 1 \in 1 .. Len(snapshot_md_updates) /\ last_inc_seq_num' + i = last_inc_seq_num + (i + 1)
    BY <1>3, <1>4, <1>5
  <2>2. snapshot_md_updates'[i] = snapshot_md_updates[i + 1]
    BY <1>4
  <2> QED
    BY <1>1, <2>1, <2>2 DEF Forwarded
<1>8. /\ last_inc_seq_num' \in Nat
      /\ last_inc_seq_num' + Len(snapshot_md_updates') + 1 = next_inc_seq_num
  BY <1>1, <1>3, <1>4, <1>5 DEF Forwarded
<1>9. Forwarded'
  BY <1>3, <1>4, <1>7, <1>8 DEF Forwarded
<1> QED
  BY <1>1, <1>3, <1>6, <1>9 DEF FeedInv, History, Outgoing

\* Every step keeps the invariant; the network and the consumer touch none of it.
LEMMA FeedStep == ASSUME FeedInv, [Next]_vars PROVE FeedInv'
<1>1. CASE sendMarketUpdate
  BY <1>1, EngineKeeps
<1>2. CASE publishIncremental
  BY <1>2, PublisherKeeps
<1>3. CASE SynthesizerRun /\ addToSnapshot
  BY <1>3, SynthesizerKeeps DEF SynthesizerRun
<1>4. CASE UNCHANGED <<snapshot_md_updates, ticker_orders, last_inc_seq_num, publisher, books>>
  BY <1>4 DEF FeedInv, History, Outgoing, Forwarded, SnapshotIsBook, BookAfter, publisher
<1>5. CASE (SynthesizerRun /\ publishSnapshot) \/ deliverIncremental \/ deliverSnapshot \/ ConsumerRun \/ fault
  BY <1>4, <1>5, Zenon DEF SynthesizerRun, publishSnapshot, deliverIncremental, deliverSnapshot, ConsumerRun, fault,
     synthesizer
<1>6. CASE UNCHANGED vars
  BY <1>4, <1>6 DEF vars, synthesizer
<1> QED
  BY <1>1, <1>2, <1>3, <1>5, <1>6 DEF Next, SynthesizerRun

\* In every reachable state each update on its way belongs to the engine's step of its number.
THEOREM FeedInvariant == Spec => []FeedInv
<1>1. Init => FeedInv
  <2> SUFFICES ASSUME Init PROVE FeedInv
    OBVIOUS
  <2>1. books = <<{}>> /\ Len(books) = 1 /\ books[1] = {} /\ books \in Seq(SUBSET BookOrder)
    BY DEF Init
  <2>2. History
    BY <2>1 DEF History
  <2>3. Outgoing
    BY <2>1 DEF Init, Outgoing
  <2>4. Forwarded /\ SnapshotIsBook
    BY <2>1 DEF Init, SInit, Forwarded, SnapshotIsBook, BookAfter
  <2> QED
    BY <2>2, <2>3, <2>4 DEF FeedInv
<1> QED
  BY <1>1, FeedStep, PTL DEF Spec

(***************************************************************************)
(* Whatever the engine reports and however its thread, the publisher and   *)
(* the synthesizer interleave, the copy that a snapshot is made from is    *)
(* the engine's book after the update whose number it announces.           *)
(***************************************************************************)
THEOREM FeedSnapshot == Spec => []SnapshotIsBook
<1>1. FeedInv => SnapshotIsBook
  BY DEF FeedInv
<1> QED
  BY FeedInvariant, <1>1, PTL

\* No ASSERT of addToSnapshot fails: the copy has exactly the orders its next update expects.
THEOREM FeedAsserts == Spec => []SynthesizerAsserts
<1>1. FeedInv => SynthesizerAsserts
  <2> SUFFICES ASSUME FeedInv, snapshot_md_updates # <<>>
               PROVE  AddToSnapshotAsserts(Head(snapshot_md_updates))
    BY DEF SynthesizerAsserts
  <2>1. PICK m : m = Head(snapshot_md_updates)
    OBVIOUS
  <2>2. 1 \in 1 .. Len(snapshot_md_updates) /\ m = snapshot_md_updates[1]
    BY <2>1 DEF FeedInv, Forwarded
  <2>3. m.seq_num = last_inc_seq_num + 1 /\ Leads(books, last_inc_seq_num + 1, m.update)
    BY <2>2 DEF FeedInv, Forwarded
  <2>4. books[last_inc_seq_num + 1] = ticker_orders
    BY DEF FeedInv, SnapshotIsBook, BookAfter
  <2>5. AddToSnapshotAsserts(m)
    BY <2>3, <2>4 DEF Leads, Applicable, AddToSnapshotAsserts
  <2> QED
    BY <2>1, <2>5
<1> QED
  BY FeedInvariant, <1>1, PTL

-----------------------------------------------------------------------------
\* Where the engine's thread can be.
Place == {"none", "while", "next", "handle", "index", "ended"}

\* The variables the argument needs have their types.
Types ==
  /\ engine \in Place \X Queue
  /\ size \in [Queue -> Nat] /\ owed \in [Queue -> Nat]
  /\ late \in BOOLEAN

\* What is owed is in the queue, and it is all of it as long as nothing came since the call of stop().
Owing ==
  \A q \in Queue :
    /\ engine = <<"handle", q>> \/ engine = <<"index", q>> => size[q] > 0
    /\ owed[q] <= Unhandled(q)
    /\ ~BeforeStop /\ ~late => owed[q] = Unhandled(q)

\* What main knows at each place, in stop() above all.
Stopping ==
  /\ main = "start" => engine[1] = "none"
  /\ BeforeStop => ~late /\ reported = "not yet"
  /\ main = "testMd" => owed["ogw"] = 0
  /\ main \in {"reading", "reporting", "join"} \/ Joined => \A q \in Queue : owed[q] = 0
  /\ PositionsComplete

IInv == Types /\ Owing /\ Stopping

-----------------------------------------------------------------------------
(***************************************************************************)
(* A queue that is found empty owes nothing: the test of the sizes in      *)
(* stop() is enough although the engine lowers the count only after it has *)
(* handled an element.                                                     *)
(***************************************************************************)
LEMMA EmptyOwesNothing ==
  ASSUME Types, Owing, NEW q \in Queue, size[q] = 0
  PROVE  owed[q] = 0
<1>1. engine # <<"index", q>>
  BY DEF Owing
<1>2. Unhandled(q) = 0
  BY <1>1 DEF Unhandled
<1>3. owed[q] <= 0 /\ owed[q] \in Nat
  BY <1>2 DEF Types, Owing
<1> QED
  BY <1>3

\* After the tests, an element the engine handles came late.
LEMMA HandledIsLate ==
  ASSUME Types, Owing, ~BeforeStop, \A q \in Queue : owed[q] = 0, engine[1] = "handle"
  PROVE  late
<1>1. PICK q \in Queue : engine = <<"handle", q>>
  BY DEF Types
<1>2. size[q] > 0 /\ size[q] \in Nat /\ Unhandled(q) = size[q] /\ owed[q] = 0
  BY <1>1 DEF Types, Owing, Unhandled
<1> QED
  BY <1>1, <1>2 DEF Owing, Types

\* Before start() nothing arrived and nothing is owed.
LEMMA EngineInit == TradeInit => IInv
<1> SUFFICES ASSUME TradeInit PROVE IInv
  OBVIOUS
<1>1. Types
  BY DEF TradeInit, Types, Place, Queue, Nothing
<1>2. Owing
  <2>1. \A q \in Queue : size[q] = 0 /\ owed[q] = 0
    BY DEF TradeInit, Nothing
  <2>2. \A q \in Queue : engine # <<"handle", q>> /\ engine # <<"index", q>>
    BY DEF TradeInit
  <2> QED
    BY <2>1, <2>2 DEF Owing, Unhandled
<1>3. Stopping
  BY DEF TradeInit, Stopping, Joined, PositionsComplete, BeforeStop
<1> QED
  BY <1>1, <1>2, <1>3 DEF IInv

\* An arrival raises a count and nothing that is owed; during the call of stop() it is late.
LEMMA ArriveStep == ASSUME IInv, NEW q \in Queue, arrive(q) PROVE IInv'
<1> USE DEF IInv, arrive, mainVars
<1>0. late' = (late \/ ~BeforeStop) /\ late' \in BOOLEAN /\ (BeforeStop' <=> BeforeStop)
  BY Zenon DEF Types, BeforeStop
<1>1. Types'
  BY <1>0 DEF Types
<1>2. Owing'
  <2> SUFFICES ASSUME NEW p \in Queue
               PROVE  /\ engine = <<"handle", p>> \/ engine = <<"index", p>> => size'[p] > 0
                      /\ owed[p] <= Unhandled(p)'
                      /\ ~BeforeStop' /\ ~late' => owed[p] = Unhandled(p)'
    BY DEF Owing
  <2>1. ~(~BeforeStop' /\ ~late')
    BY <1>0, Zenon
  <2>2. size'[p] >= size[p] /\ size[p] \in Nat /\ size'[p] \in Nat /\ owed[p] \in Nat
    BY DEF Types
  <2>3. engine' = engine
    OBVIOUS
  <2>4. Unhandled(p)' >= Unhandled(p)
    BY <2>2, <2>3 DEF Unhandled
  <2>5. Unhandled(p) \in Int /\ Unhandled(p)' \in Int
    BY <2>2 DEF Unhandled
  <2>6. owed[p] <= Unhandled(p) /\ (engine = <<"handle", p>> \/ engine = <<"index", p>> => size[p] > 0)
    BY DEF Owing
  <2> QED
    BY <2>1, <2>2, <2>4, <2>5, <2>6
<1>3. Stopping'
  <2>1. UNCHANGED <<main, engine, owed, reported>>
    OBVIOUS
  <2>2. late => late'
    BY <1>0, Zenon
  <2>3. BeforeStop' => ~late'
    BY <1>0, Zenon DEF Stopping
  <2> QED
    BY <1>0, <2>1, <2>2, <2>3 DEF Stopping, Joined, PositionsComplete, BeforeStop
<1> QED
  BY <1>1, <1>2, <1>3

\* The engine's own steps: the count goes down only after the element was handled.
LEMMA EngineStep == ASSUME IInv, TradeEngineRun PROVE IInv'
<1> USE DEF IInv, mainVars, environment
<1>0. UNCHANGED <<main, late>> /\ (BeforeStop' <=> BeforeStop)
  BY DEF TradeEngineRun, testRun, getNextToRead, handle, updateReadIndex, BeforeStop
<1>1. CASE testRun \/ getNextToRead
  <2>1. Types' /\ UNCHANGED <<size, owed, reported>> /\ engine[1] \in {"while", "next"}
    BY <1>0, <1>1 DEF testRun, getNextToRead, Types, Place, Queue
  <2>2. \A q \in Queue : engine # <<"index", q>> /\ engine' # <<"index", q>>
                         /\ (engine' = <<"handle", q>> => size[q] > 0)
    BY <1>1 DEF testRun, getNextToRead, Types
  <2>3. Owing'
    BY <1>0, <2>1, <2>2 DEF Owing, Unhandled, BeforeStop
  <2>4. Stopping'
    BY <1>0, <2>1 DEF Stopping, Joined, PositionsComplete, BeforeStop
  <2> QED
    BY <2>1, <2>3, <2>4
<1>2. CASE handle
  <2>1. PICK p \in Queue : engine = <<"handle", p>>
    BY <1>2 DEF handle, Types
  <2>2. /\ engine' = <<"index", p>> /\ size' = size
        /\ owed' = [owed EXCEPT ![p] = IF owed[p] = 0 THEN 0 ELSE owed[p] - 1]
        /\ reported' = IF main = "reading" THEN "torn" ELSE reported
    BY <1>2, <2>1 DEF handle
  <2>3. Types'
    BY <1>0, <2>2 DEF Types, Place
  <2>4. \A q \in Queue : owed'[q] = IF q = p /\ owed[p] # 0 THEN owed[p] - 1 ELSE owed[q]
    BY <2>2 DEF Types
  <2>5. Owing'
    <3> SUFFICES ASSUME NEW q \in Queue
                 PROVE  /\ engine' = <<"handle", q>> \/ engine' = <<"index", q>> => size'[q] > 0
                        /\ owed'[q] <= Unhandled(q)'
                        /\ ~BeforeStop' /\ ~late' => owed'[q] = Unhandled(q)'
      BY DEF Owing
    <3>1. size[q] \in Nat /\ owed[q] \in Nat /\ size[p] > 0
      BY <2>1 DEF Types, Owing
    <3>2. Unhandled(q) = size[q] /\ Unhandled(q)' = IF q = p THEN size[q] - 1 ELSE size[q]
      BY <2>1, <2>2 DEF Unhandled
    <3>3. owed[q] <= size[q] /\ (~BeforeStop' /\ ~late' => owed[q] = size[q])
      BY <1>0, <3>2 DEF Owing
    <3> QED
      BY <2>2, <2>4, <3>1, <3>2, <3>3
  <2>6. Stopping'
    <3>1. \A q \in Queue : owed[q] = 0 => owed'[q] = 0
      BY <2>4
    <3>2. main = "reading" => late
      BY <2>1, HandledIsLate DEF Stopping, BeforeStop
    <3>3. PositionsComplete'
      BY <1>0, <2>2, <3>2 DEF Stopping, PositionsComplete
    <3> QED
      BY <1>0, <2>1, <2>2, <3>1, <3>3 DEF Stopping, Joined, BeforeStop, Queue
  <2> QED
    BY <2>3, <2>5, <2>6
<1>3. CASE updateReadIndex
  <2>1. PICK p \in Queue : engine = <<"index", p>>
    BY <1>3 DEF updateReadIndex, Types
  <2>2. /\ engine' = <<"next", p>> /\ size' = [size EXCEPT ![p] = size[p] - 1]
        /\ UNCHANGED <<owed, reported>>
    BY <1>3, <2>1 DEF updateReadIndex
  <2>3. size[p] > 0 /\ size[p] \in Nat
    BY <2>1 DEF Owing, Types
  <2>4. Types'
    BY <1>0, <2>2, <2>3 DEF Types, Place
  <2>5. \A q \in Queue : Unhandled(q)' = Unhandled(q)
    BY <2>1, <2>2 DEF Unhandled, Types
  <2>6. Owing'
    BY <1>0, <2>2, <2>5 DEF Owing
  <2>7. Stopping'
    BY <1>0, <2>1, <2>2 DEF Stopping, Joined, PositionsComplete, BeforeStop
  <2> QED
    BY <2>4, <2>6, <2>7
<1> QED
  BY <1>1, <1>2, <1>3 DEF TradeEngineRun

\* Main's steps: what it finds, it finds in the order of stop().
LEMMA MainStep == ASSUME IInv, Main PROVE IInv'
<1> USE DEF IInv, engineVars, environment
<1>0. late' = late
  BY Zenon DEF Main, start, sendClientRequest, endSend, stop, testSizes, logSleeping, endSleep, logPositions, stopRun,
     join, stopOthers, deleteLogger, closeFile
<1>1. CASE start
  <2>1. Types' /\ UNCHANGED <<size, owed, reported>> /\ engine[1] = "none" /\ engine' = <<"while", "ogw">>
        /\ main = "start" /\ main' = "trading"
    BY <1>0, <1>1 DEF start, Types, Place, Queue, Stopping
  <2>2. \A q \in Queue : engine # <<"index", q>> /\ engine' # <<"index", q>> /\ engine' # <<"handle", q>>
    BY <2>1
  <2>3. Owing'
    BY <1>0, <2>1, <2>2 DEF Owing, Unhandled, BeforeStop
  <2>4. Stopping'
    BY <1>0, <2>1 DEF Stopping, Joined, PositionsComplete, BeforeStop
  <2> QED
    BY <2>1, <2>3, <2>4
<1>2. CASE stop
  <2>1. /\ UNCHANGED <<size, engine, reported>> /\ main = "trading" /\ main' = "testOgw"
        /\ owed' = [q \in Queue |-> Unhandled(q)]
    BY <1>2 DEF stop
  <2>2. \A q \in Queue : Unhandled(q) \in Nat /\ Unhandled(q)' = Unhandled(q)
    BY <2>1 DEF Types, Owing, Unhandled
  <2>3. Types'
    BY <1>0, <2>1, <2>2 DEF Types
  <2>4. Owing'
    BY <1>0, <2>1, <2>2 DEF Owing
  <2>5. Stopping'
    BY <1>0, <2>1 DEF Stopping, Joined, PositionsComplete, BeforeStop
  <2> QED
    BY <2>3, <2>4, <2>5
<1>3. CASE testSizes
  <2>1. UNCHANGED <<size, engine, owed>>
    BY <1>3 DEF testSizes
  <2>2. Types' /\ (main \in {"testOgw", "testMd"}) /\ ~BeforeStop /\ ~BeforeStop'
    BY <1>0, <1>3, <2>1 DEF testSizes, Types, BeforeStop
  <2>3. Owing'
    BY <1>0, <2>1, <2>2 DEF Owing, Unhandled
  <2>4. CASE main = "testOgw"
    <3>1. owed["ogw"] = 0 /\ main' = "testMd" /\ reported' = reported
      BY <1>3, <2>4, EmptyOwesNothing DEF testSizes, Queue
    <3>2. Stopping'
      BY <1>0, <2>1, <2>2, <3>1 DEF Stopping, Joined, PositionsComplete
    <3> QED
      BY <2>2, <2>3, <3>2
  <2>5. CASE main = "testMd"
    <3>1. \A q \in Queue : owed[q] = 0
      BY <1>3, <2>5, EmptyOwesNothing DEF testSizes, Queue, Stopping
    <3>2. owed = Nothing
      BY <3>1 DEF Types, Nothing
    <3>3. main' = "reading" /\ reported' = "whole"
      BY <1>3, <2>5, <3>2 DEF testSizes, ReadPositions
    <3>4. Stopping'
      BY <1>0, <2>1, <2>2, <3>1, <3>3 DEF Stopping, Joined, PositionsComplete
    <3> QED
      BY <2>2, <2>3, <3>4
  <2> QED
    BY <2>2, <2>4, <2>5
<1>4. CASE logPositions
  <2>1. /\ UNCHANGED <<size, engine, owed>> /\ main = "reading" /\ main' = "reporting"
        /\ reported' = IF engine[1] = "handle" THEN "torn" ELSE reported
    BY <1>4 DEF logPositions
  <2>2. Types' /\ ~BeforeStop /\ ~BeforeStop'
    BY <1>0, <2>1 DEF Types, BeforeStop
  <2>3. Owing'
    BY <1>0, <2>1, <2>2 DEF Owing, Unhandled
  <2>4. engine[1] = "handle" => late
    BY <2>1, <2>2, HandledIsLate DEF Stopping
  <2>5. Stopping'
    BY <1>0, <2>1, <2>2, <2>4 DEF Stopping, Joined, PositionsComplete
  <2> QED
    BY <2>2, <2>3, <2>5
<1>5. CASE sendClientRequest \/ endSend \/ logSleeping \/ endSleep
  <2>1. /\ UNCHANGED <<size, engine, owed, reported>>
        /\ \/ BeforeStop /\ BeforeStop' /\ main' # "start"
           \/ main \in {"testOgw", "testMd", "sleeping"} /\ main' \in {"sleeping", "testOgw"}
    BY <1>5 DEF sendClientRequest, endSend, logSleeping, endSleep, BeforeStop
  <2>2. Types' /\ (BeforeStop' <=> BeforeStop)
    BY <1>0, <2>1 DEF Types, BeforeStop
  <2>3. Owing'
    BY <1>0, <2>1, <2>2 DEF Owing, Unhandled
  <2>4. Stopping'
    BY <1>0, <2>1, <2>2 DEF Stopping, Joined, PositionsComplete, BeforeStop
  <2> QED
    BY <2>2, <2>3, <2>4
<1>6. CASE stopRun \/ join \/ stopOthers \/ deleteLogger \/ closeFile
  <2>1. /\ UNCHANGED <<size, engine, owed, reported>>
        /\ main \in {"reporting", "join"} \/ Joined
        /\ main' = "join" \/ Joined'
    BY <1>6 DEF stopRun, join, stopOthers, deleteLogger, closeFile, Joined
  <2>2. Types' /\ ~BeforeStop /\ ~BeforeStop'
    BY <1>0, <2>1 DEF Types, BeforeStop, Joined
  <2>3. Owing'
    BY <1>0, <2>1, <2>2 DEF Owing, Unhandled
  <2>4. Stopping'
    BY <1>0, <2>1, <2>2 DEF Stopping, Joined, PositionsComplete, BeforeStop
  <2> QED
    BY <2>2, <2>3, <2>4
<1> QED
  BY <1>1, <1>2, <1>3, <1>4, <1>5, <1>6 DEF Main

\* The logger, the clock, the end of the traffic and a program that has ended touch nothing the
\* invariant speaks about.
LEMMA OtherStep == ASSUME IInv, UNCHANGED <<main, size, engine, owed, reported, late>> PROVE IInv'
  BY DEF IInv, Types, Owing, Unhandled, Stopping, Joined, PositionsComplete, BeforeStop

\* Every reachable state of the shutdown satisfies the counting invariant.
THEOREM EngineInvariant == TradeSpec => []IInv
<1>1. IInv /\ [TradeNext]_tradeVars => IInv'
  <2> SUFFICES ASSUME IInv, [TradeNext]_tradeVars PROVE IInv'
    OBVIOUS
  <2>1. ASSUME NEW q \in Queue, arrive(q) PROVE IInv'
    BY <2>1, ArriveStep
  <2>2. CASE cease \/ passTime
    BY <2>2, OtherStep DEF cease, passTime, engineVars, mainVars, environment
  <2>3. CASE mainThread
    BY <2>3, MainStep, OtherStep DEF mainThread, LoggerStep, engineVars, mainVars, environment
  <2>4. CASE engineThread
    BY <2>4, EngineStep, OtherStep DEF engineThread, LoggerStep, engineVars, mainVars, environment
  <2>5. CASE loggerThread \/ Terminated \/ UNCHANGED tradeVars
    BY <2>5, OtherStep DEF loggerThread, LoggerStep, Terminated, tradeVars, engineVars, mainVars, environment
  <2> QED
    BY <2>1, <2>2, <2>3, <2>4, <2>5 DEF TradeNext, outside
<1> QED
  BY EngineInit, <1>1, PTL DEF TradeSpec

\* stop() returns only when everything that had arrived at its call is handled, whatever keeps
\* arriving while it tests the two queues.
THEOREM EngineStopHandles == TradeSpec => []StopHandlesWhatCame
<1>1. IInv => StopHandlesWhatCame
  BY DEF IInv, Types, Stopping, StopHandlesWhatCame, Nothing
<1> QED
  BY EngineInvariant, <1>1, PTL

\* The POSITIONS that stop() logs are complete, and torn only if something arrived since its call.
THEOREM EnginePositions == TradeSpec => []PositionsComplete
<1>1. IInv => PositionsComplete
  BY DEF IInv, Stopping
<1> QED
  BY EngineInvariant, <1>1, PTL

-----------------------------------------------------------------------------
(***************************************************************************)
(* The log file.  The ring is made for one producer and has two here; as   *)
(* long as they have not met in pushValue it is a queue, and whether they  *)
(* have or not it counts right, since the count is an atomic increment.    *)
(***************************************************************************)

\* The logger's variables have their types.
LogTypes ==
  /\ next_write_index \in 0 .. LOG_QUEUE_SIZE - 1 /\ next_read_index \in 0 .. LOG_QUEUE_SIZE - 1
  /\ num_elements \in Nat
  /\ pushing \in [Thread -> [at : {"out", "slot", "stored", "loaded", "moved"},
                             index : 0 .. LOG_QUEUE_SIZE - 1]]
  /\ left \in [Thread -> Nat]
  /\ flusher \in {"while", "read", "ended"}
  /\ pending \in Seq(0 .. LOG_QUEUE_SIZE - 1)

\* Elements of thread t that are in a slot and not counted yet.
NotCounted(t) == IF pushing[t].at \in {"stored", "loaded", "moved"} THEN 1 ELSE 0

\* The element in the file that is counted still.
Written == IF flusher = "read" THEN 1 ELSE 0

\* The count of the ring, raced or not, overrun or not.
LogCounts ==
  /\ num_elements + NotCounted("main") + NotCounted("engine") = Len(pending) + Written
  /\ flusher = "read" => num_elements > 0
  /\ \A t \in Thread : pushing[t].at # "out" => Logging(t)

\* The slot n places after slot i, for any n.
SlotAfter(i, n) == (i + n) % LOG_QUEUE_SIZE

\* Slot of the first element that is not in the file.
FirstPending == IF flusher = "read" THEN SlotAfter(next_read_index, 1) ELSE next_read_index

\* A thread has put its element in a slot and not moved the write index on.
Unmoved == \E t \in Thread : pushing[t].at \in {"stored", "loaded"}

\* The elements went into one slot after the other, and the write index follows them.
Ring ==
  /\ \A i \in 1 .. Len(pending) : pending[i] = SlotAfter(FirstPending, i - 1)
  /\ Unmoved => Len(pending) > 0
  /\ next_write_index = SlotAfter(FirstPending, IF Unmoved THEN Len(pending) - 1 ELSE Len(pending))

\* A thread that has asked for a slot is alone, and the index it works with is the write index.
Claimed ==
  \A t \in Thread : Claiming(t) =>
    /\ \A u \in Thread : Claiming(u) => u = t
    /\ pushing[t].at # "stored" => pushing[t].index = next_write_index

\* What holds of the logger whoever uses it.
LogCore == LogTypes /\ LogCounts /\ garbled = FALSE /\ (~raced => Ring /\ Claimed)

\* Who is inside log() at the end of the program, and what is left in the ring then.
Quiet ==
  /\ engine[1] \in {"none", "ended"} => ~Logging("engine")
  /\ Joined => engine[1] = "ended"
  /\ ~running => main \in {"joinLogger", "closed"}
  /\ main \in {"joinLogger", "closed"} =>
       ~running /\ ~Logging("main") /\ pending = <<>> /\ flusher # "read"

LogInv == LogCore /\ Quiet

-----------------------------------------------------------------------------
\* Quotient and remainder are unique.
LEMMA QuotientIsUnique ==
  ASSUME NEW k \in Nat, k > 0, NEW q \in Int, NEW r \in 0 .. k - 1
  PROVE  (k * q + r) % k = r
<1>1. k * q \in Int
  OBVIOUS
<1> DEFINE a == k * q + r
           d == a \div k
           m == a % k
<1>2. a \in Int /\ d \in Int /\ m \in 0 .. k - 1 /\ a = k * d + m
  BY <1>1
<1> HIDE DEF d, m
<1>3. k * (d - q) = k * d - k * q
  BY <1>1, <1>2
<1>4. k * (d - q) = r - m
  BY <1>1, <1>2, <1>3
<1>5. d - q >= 1 => k * (d - q) >= k
  BY <1>1, <1>2
<1>6. d - q <= -1 => k * (d - q) <= -k
  BY <1>1, <1>2
<1>7. d - q = 0
  BY <1>1, <1>2, <1>4, <1>5, <1>6
<1>8. r = m
  BY <1>1, <1>2, <1>3, <1>4, <1>7
<1> QED
  BY <1>8 DEF m

\* One more is one more or wraps around, and a whole round makes no difference.
LEMMA OneMore ==
  ASSUME NEW k \in Nat, k > 0, NEW a \in Nat
  PROVE  /\ (a % k) \in 0 .. k - 1
         /\ (a + 1) % k = IF (a % k) + 1 = k THEN 0 ELSE (a % k) + 1
         /\ (a + k) % k = a % k
<1> DEFINE q == a \div k
           m == a % k
<1>1. q \in Int /\ m \in 0 .. k - 1 /\ a = k * q + m
  OBVIOUS
<1> HIDE DEF q, m
<1>2. k * (q + 1) = k * q + k /\ q + 1 \in Int
  BY <1>1
<1>3. ASSUME m + 1 = k PROVE (a + 1) % k = 0
  <2>1. a + 1 = k * (q + 1) + 0 /\ 0 \in 0 .. k - 1
    BY <1>1, <1>2, <1>3
  <2>2. (k * (q + 1) + 0) % k = 0
    BY <1>2, <2>1, QuotientIsUnique
  <2> QED
    BY <1>3, <2>1, <2>2
<1>4. ASSUME m + 1 # k PROVE (a + 1) % k = m + 1
  <2>1. a + 1 = k * q + (m + 1) /\ m + 1 \in 0 .. k - 1
    BY <1>1, <1>4
  <2>2. (k * q + (m + 1)) % k = m + 1
    BY <1>1, <2>1, QuotientIsUnique
  <2> QED
    BY <1>4, <2>1, <2>2
<1>5. (a + 1) % k = IF m + 1 = k THEN 0 ELSE m + 1
  BY <1>3, <1>4
<1>6. (a + k) % k = m
  <2>1. a + k = k * (q + 1) + m
    BY <1>1, <1>2
  <2>2. (k * (q + 1) + m) % k = m
    BY <1>1, <1>2, QuotientIsUnique
  <2> QED
    BY <2>1, <2>2
<1> QED
  BY <1>1, <1>5, <1>6 DEF m

\* The slots after a slot: the next one, going on from it, and that a round is complete.
LEMMA SlotsAfter ==
  ASSUME NEW i \in 0 .. LOG_QUEUE_SIZE - 1, NEW n \in Nat
  PROVE  /\ Succ(i) = SlotAfter(i, 1)
         /\ SlotAfter(i, 0) = i
         /\ SlotAfter(i, n) \in 0 .. LOG_QUEUE_SIZE - 1
         /\ SlotAfter(SlotAfter(i, 1), n) = SlotAfter(i, n + 1)
         /\ Succ(SlotAfter(i, n)) = SlotAfter(i, n + 1)
         /\ n \in 1 .. LOG_QUEUE_SIZE - 1 => SlotAfter(i, n) # i
<1> DEFINE k == LOG_QUEUE_SIZE
<1>1. k \in Nat /\ k > 0 /\ i \in 0 .. k - 1 /\ i + n \in Nat
  BY LoggerAssumption
<1> SUFFICES /\ (i + 0) % k = i
             /\ (i + n) % k \in 0 .. k - 1
             /\ (((i + 1) % k) + n) % k = (i + (n + 1)) % k
             /\ (((i + n) % k) + 1) % k = (i + (n + 1)) % k
             /\ n \in 1 .. k - 1 => (i + n) % k # i
  BY DEF Succ, SlotAfter
<1> HIDE DEF k
<1>2. ASSUME NEW j \in 0 .. k - 1 PROVE j % k = j
  <2>1. j = k * 0 + j
    BY <1>1
  <2> QED
    BY <1>1, <2>1, QuotientIsUnique
<1>3. (i + 0) % k = i
  <2>1. i + 0 = i
    BY <1>1
  <2> QED
    BY <1>1, <1>2, <2>1
<1>4. (i + n) % k \in 0 .. k - 1
  BY <1>1
<1>5. (((i + 1) % k) + n) % k = (i + (n + 1)) % k
  <2>1. CASE i + 1 < k
    <3>1. (i + 1) % k = i + 1 /\ i + 1 + n = i + (n + 1)
      BY <1>1, <1>2, <2>1
    <3> QED
      BY <3>1
  <2>2. CASE ~(i + 1 < k)
    <3>1. i + 1 = k /\ i \in Nat /\ 0 + n = n /\ i + (n + 1) = n + k
      BY <1>1, <2>2
    <3>2. i % k = i
      BY <1>1, <1>2
    <3>3. (i + 1) % k = 0
      BY <1>1, <3>1, <3>2, OneMore
    <3>4. (n + k) % k = n % k
      BY <1>1, OneMore
    <3> QED
      BY <3>1, <3>3, <3>4
  <2> QED
    BY <2>1, <2>2
<1>6. (((i + n) % k) + 1) % k = (i + (n + 1)) % k
  <2> DEFINE m == (i + n) % k
  <2>1. (i + n + 1) % k = IF m + 1 = k THEN 0 ELSE m + 1
    BY <1>1, OneMore
  <2>2. m \in 0 .. k - 1
    BY <1>4
  <2> HIDE DEF m
  <2>3. m \in Nat /\ m % k = m
    BY <1>1, <1>2, <2>2
  <2>4. (m + 1) % k = IF m + 1 = k THEN 0 ELSE m + 1
    BY <1>1, <2>3, OneMore
  <2>5. i + (n + 1) = i + n + 1
    BY <1>1
  <2> QED
    BY <2>1, <2>4, <2>5 DEF m
<1>7. ASSUME n \in 1 .. k - 1 PROVE (i + n) % k # i
  <2>1. CASE i + n < k
    BY <1>1, <1>2, <1>7, <2>1
  <2>2. CASE ~(i + n < k)
    <3> DEFINE j == i + n - k
    <3>1. j \in 0 .. k - 1 /\ j \in Nat /\ i + n = j + k /\ j # i
      BY <1>1, <1>7, <2>2
    <3> HIDE DEF j
    <3>2. (j + k) % k = j % k /\ j % k = j
      BY <1>1, <1>2, <3>1, OneMore
    <3> QED
      BY <3>1, <3>2
  <2> QED
    BY <2>1, <2>2
<1> QED
  BY <1>3, <1>4, <1>5, <1>6, <1>7

\* The slot of the first element to be written is a slot of the ring.
LEMMA FirstPendingIsSlot == LogTypes => FirstPending \in 0 .. LOG_QUEUE_SIZE - 1
<1> SUFFICES ASSUME LogTypes PROVE FirstPending \in 0 .. LOG_QUEUE_SIZE - 1
  OBVIOUS
<1>1. next_read_index \in 0 .. LOG_QUEUE_SIZE - 1 /\ 1 \in Nat
  BY DEF LogTypes
<1> QED
  BY <1>1, SlotsAfter DEF FirstPending

\* Nothing is in the ring at first.
LEMMA LogCoreInit == LoggerInit => LogCore
<1> SUFFICES ASSUME LoggerInit PROVE LogCore
  OBVIOUS
<1> USE LoggerAssumption, EngineAssumption DEF LoggerInit
<1>1. LogTypes
  BY DEF LogTypes
<1>2. LogCounts
  BY DEF LogCounts, NotCounted, Written
<1>3. Ring /\ Claimed
  <2>1. Claimed /\ ~Unmoved
    BY DEF Claimed, Claiming, Unmoved
  <2>2. FirstPending = 0 /\ 0 \in 0 .. LOG_QUEUE_SIZE - 1 /\ 0 \in Nat
    BY DEF FirstPending
  <2>3. SlotAfter(0, 0) = 0
    BY <2>2, SlotsAfter
  <2> QED
    BY <2>1, <2>2, <2>3 DEF Ring
<1> QED
  BY <1>1, <1>2, <1>3 DEF LogCore

\* A call of log() touches nothing but the number of elements its thread has to push.
LEMMA LogCallStep == ASSUME LogCore, NEW t \in Thread, log(t) PROVE LogCore'
<1> USE DEF LogCore, log, queue
<1>1. LogTypes'
  BY LoggerAssumption DEF LogTypes
<1>2. LogCounts'
  <2>1. \A u \in Thread : Logging(u) => Logging(u)'
    BY LoggerAssumption DEF LogTypes, Logging
  <2> QED
    BY <2>1, EngineAssumption DEF LogCounts, NotCounted, Written
<1>3. ~raced' => (Ring /\ Claimed)'
  BY Zenon DEF Ring, Claimed, Claiming, Unmoved, FirstPending, SlotAfter
<1> QED
  BY <1>1, <1>2, <1>3

\* The steps of pushValue on the count: it goes up once for every element.
LEMMA PushCounts == ASSUME LogCore, NEW t \in Thread, pushValue(t) PROVE LogTypes' /\ LogCounts'
<1> USE DEF queue, Goto
<1>0. LogTypes /\ LogCounts
  BY DEF LogCore
<1>1. CASE getNextToWriteTo(t)
  BY <1>0, <1>1, EngineAssumption, Zenon DEF getNextToWriteTo, LogTypes, LogCounts, NotCounted, Written, Logging
<1>2. CASE storeElement(t)
  <2>1. pushing[t].index \in 0 .. LOG_QUEUE_SIZE - 1 /\ 0 \in 0 .. LOG_QUEUE_SIZE - 1
    BY <1>0, LoggerAssumption DEF LogTypes
  <2>2. pending' \in Seq(0 .. LOG_QUEUE_SIZE - 1) /\ Len(pending') = Len(pending) + 1
    BY <1>0, <1>2, <2>1 DEF storeElement, LogTypes
  <2>3. LogTypes'
    BY <1>0, <1>2, <2>1, <2>2 DEF storeElement, LogTypes
  <2>4. LogCounts'
    <3>1. /\ NotCounted(t) = 0 /\ NotCounted(t)' = 1
          /\ \A u \in Thread \ {t} : NotCounted(u)' = NotCounted(u)
          /\ Written' = Written /\ num_elements' = num_elements /\ flusher' = flusher
      BY <1>0, <1>2 DEF storeElement, LogTypes, NotCounted, Written
    <3>2. \A u \in Thread : pushing'[u].at # "out" => Logging(u)'
      BY <1>0, <1>2 DEF storeElement, LogTypes, LogCounts, Logging
    <3>3. Len(pending) \in Nat /\ num_elements \in Nat
      BY <1>0 DEF LogTypes
    <3>4. NotCounted("main") \in {0, 1} /\ NotCounted("engine") \in {0, 1} /\ Written \in {0, 1}
      BY DEF NotCounted, Written
    <3>5. num_elements + NotCounted("main") + NotCounted("engine") = Len(pending) + Written
      BY <1>0 DEF LogCounts
    <3>6. num_elements' + NotCounted("main")' + NotCounted("engine")' = Len(pending') + Written'
      <4>1. CASE t = "main"
        BY <2>2, <3>1, <3>3, <3>4, <3>5, <4>1, EngineAssumption
      <4>2. CASE t = "engine"
        BY <2>2, <3>1, <3>3, <3>4, <3>5, <4>2, EngineAssumption
      <4> QED
        BY <4>1, <4>2, EngineAssumption
    <3> QED
      BY <1>0, <3>1, <3>2, <3>6 DEF LogCounts
  <2> QED
    BY <2>3, <2>4
<1>3. CASE loadWriteIndex(t)
  BY <1>0, <1>3, EngineAssumption DEF loadWriteIndex, LogTypes, LogCounts, NotCounted, Written, Logging
<1>4. CASE storeWriteIndex(t)
  <2>1. pushing[t].index \in 0 .. LOG_QUEUE_SIZE - 1 /\ 0 \in 0 .. LOG_QUEUE_SIZE - 1 /\ 1 \in Nat
    BY <1>0, LoggerAssumption DEF LogTypes
  <2>2. Succ(pushing[t].index) \in 0 .. LOG_QUEUE_SIZE - 1
    BY <2>1, SlotsAfter
  <2>3. LogTypes'
    BY <1>0, <1>4, <2>1, <2>2 DEF storeWriteIndex, LogTypes
  <2>4. LogCounts'
    BY <1>0, <1>4, EngineAssumption DEF storeWriteIndex, LogTypes, LogCounts, NotCounted, Written, Logging
  <2> QED
    BY <2>3, <2>4
<1>5. CASE countWrite(t)
  <2>1. left[t] > 0 /\ 0 \in 0 .. LOG_QUEUE_SIZE - 1
    BY <1>0, <1>5, LoggerAssumption DEF countWrite, LogCounts, Logging
  <2>2. LogTypes'
    BY <1>0, <1>5, <2>1 DEF countWrite, LogTypes
  <2>3. LogCounts'
    <3>1. /\ NotCounted(t) = 1 /\ NotCounted(t)' = 0
          /\ \A u \in Thread \ {t} : NotCounted(u)' = NotCounted(u)
          /\ Written' = Written /\ num_elements' = num_elements + 1 /\ pending' = pending
      BY <1>0, <1>5 DEF countWrite, LogTypes, NotCounted, Written
    <3>2. \A u \in Thread : pushing'[u].at # "out" => Logging(u)'
      BY <1>0, <1>5 DEF countWrite, LogTypes, LogCounts, Logging
    <3>3. Len(pending) \in Nat /\ num_elements \in Nat
      BY <1>0 DEF LogTypes
    <3>4. NotCounted("main") \in {0, 1} /\ NotCounted("engine") \in {0, 1} /\ Written \in {0, 1}
      BY DEF NotCounted, Written
    <3>5. num_elements + NotCounted("main") + NotCounted("engine") = Len(pending) + Written
      BY <1>0 DEF LogCounts
    <3>6. num_elements' + NotCounted("main")' + NotCounted("engine")' = Len(pending') + Written'
      <4>1. CASE t = "main"
        BY <3>1, <3>3, <3>4, <3>5, <4>1, EngineAssumption
      <4>2. CASE t = "engine"
        BY <3>1, <3>3, <3>4, <3>5, <4>2, EngineAssumption
      <4> QED
        BY <4>1, <4>2, EngineAssumption
    <3>7. flusher' = "read" => num_elements' > 0
      BY <1>0, <1>5, <3>1, <3>3 DEF countWrite, LogCounts
    <3> QED
      BY <3>2, <3>6, <3>7, Zenon DEF LogCounts
  <2> QED
    BY <2>2, <2>3
<1> QED
  BY <1>1, <1>2, <1>3, <1>4, <1>5 DEF pushValue

\* The steps of pushValue on the ring: a thread that meets nobody puts its element behind the others.
LEMMA PushRing ==
  ASSUME LogCore, NEW t \in Thread, pushValue(t), ~raced'
  PROVE  Ring' /\ Claimed'
<1> USE DEF queue, Goto
<1>1. LogTypes /\ ~raced /\ Ring /\ Claimed /\ Len(pending) \in Nat
  <2>1. ~raced
    BY Zenon DEF pushValue, getNextToWriteTo, storeElement, loadWriteIndex, storeWriteIndex, countWrite
  <2>2. LogTypes /\ Ring /\ Claimed
    BY <2>1 DEF LogCore
  <2> QED
    BY <2>1, <2>2 DEF LogTypes
<1>2. FirstPending \in 0 .. LOG_QUEUE_SIZE - 1
  BY <1>1, FirstPendingIsSlot
<1>3. CASE getNextToWriteTo(t)
  <2>1. \A u \in Thread : ~Claiming(u)
    BY <1>3, Zenon DEF getNextToWriteTo, Claiming
  <2>2. pushing'[t] = [at |-> "slot", index |-> next_write_index] /\ \A u \in Thread \ {t} : pushing'[u] = pushing[u]
    BY <1>1, <1>3 DEF getNextToWriteTo, LogTypes
  <2>3. \A u \in Thread : Claiming(u)' => u = t
    BY <2>1, <2>2, Zenon DEF Claiming
  <2>4. ~Unmoved /\ ~Unmoved'
    BY <2>1, <2>2 DEF Unmoved, Claiming
  <2>5. pushing'[t].index = next_write_index
    BY <2>2
  <2>6. UNCHANGED <<pending, flusher, next_read_index, next_write_index>>
    BY <1>3 DEF getNextToWriteTo
  <2>7. Ring'
    BY <1>1, <2>4, <2>6, Zenon DEF Ring, FirstPending, SlotAfter
  <2>8. Claimed'
    BY <2>3, <2>5, <2>6, Zenon DEF Claimed
  <2> QED
    BY <2>7, <2>8
<1>4. CASE storeElement(t)
  <2>1. pushing[t].index = next_write_index /\ \A u \in Thread : Claiming(u) => u = t
    BY <1>1, <1>4 DEF storeElement, Claiming, Claimed
  <2>2. pushing'[t] = [at |-> "stored", index |-> 0] /\ \A u \in Thread \ {t} : pushing'[u] = pushing[u]
    BY <1>1, <1>4 DEF storeElement, LogTypes
  <2>3. ~Unmoved /\ Unmoved'
    BY <1>4, <2>1, <2>2 DEF Unmoved, Claiming, storeElement
  <2>4. Claimed'
    <3>1. \A u \in Thread : Claiming(u)' => u = t
      BY <2>1, <2>2, Zenon DEF Claiming
    <3>2. pushing'[t].at = "stored"
      BY <2>2
    <3> QED
      BY <3>1, <3>2, Zenon DEF Claimed
  <2>5. /\ pending' = Append(pending, next_write_index)
        /\ UNCHANGED <<next_write_index, next_read_index, flusher>>
    BY <1>4, <2>1 DEF storeElement
  <2>6. /\ Len(pending') = Len(pending) + 1 /\ pending'[Len(pending) + 1] = next_write_index
        /\ \A i \in 1 .. Len(pending) : pending'[i] = pending[i]
    BY <1>1, <2>5 DEF LogTypes
  <2>7. FirstPending' = FirstPending
    BY <2>5 DEF FirstPending, SlotAfter
  <2>8. /\ next_write_index = SlotAfter(FirstPending, Len(pending))
        /\ \A i \in 1 .. Len(pending) : pending[i] = SlotAfter(FirstPending, i - 1)
    BY <1>1, <2>3 DEF Ring
  <2>9. ASSUME NEW i \in 1 .. Len(pending') PROVE pending'[i] = SlotAfter(FirstPending, i - 1)
    <3>1. CASE i = Len(pending) + 1
      <4>1. i - 1 = Len(pending)
        BY <1>1, <3>1
      <4> QED
        BY <2>6, <2>8, <3>1, <4>1
    <3>2. CASE i # Len(pending) + 1
      <4>1. i \in 1 .. Len(pending)
        BY <1>1, <2>6, <3>2
      <4> QED
        BY <2>6, <2>8, <4>1
    <3> QED
      BY <3>1, <3>2
  <2>10. Len(pending') > 0 /\ Len(pending') - 1 = Len(pending)
    BY <1>1, <2>6
  <2>11. \A n : SlotAfter(FirstPending, n)' = SlotAfter(FirstPending, n)
    BY <2>7, Zenon DEF SlotAfter
  <2>12. Ring'
    BY <2>3, <2>5, <2>7, <2>8, <2>9, <2>10, <2>11, Zenon DEF Ring, SlotAfter
  <2> QED
    BY <2>4, <2>12
<1>5. CASE loadWriteIndex(t)
  <2>1. /\ pushing'[t] = [at |-> "loaded", index |-> next_write_index] /\ pushing[t].at = "stored"
        /\ \A u \in Thread \ {t} : pushing'[u] = pushing[u]
    BY <1>1, <1>5 DEF loadWriteIndex, LogTypes
  <2>2. Unmoved /\ Unmoved'
    BY <2>1 DEF Unmoved
  <2>3. UNCHANGED <<pending, flusher, next_read_index, next_write_index>>
    BY <1>5 DEF loadWriteIndex
  <2>4. Ring'
    BY <1>1, <2>2, <2>3, Zenon DEF Ring, FirstPending, SlotAfter
  <2>5. Claimed'
    <3>1. Claiming(t) /\ pushing'[t].index = next_write_index
      BY <2>1 DEF Claiming
    <3>2. \A u \in Thread : Claiming(u) => u = t
      BY <1>1, <3>1, Zenon DEF Claimed
    <3>3. \A u \in Thread : Claiming(u)' => u = t
      BY <2>1, <3>2, Zenon DEF Claiming
    <3> QED
      BY <2>3, <3>1, <3>3, Zenon DEF Claimed
  <2> QED
    BY <2>4, <2>5
<1>6. CASE storeWriteIndex(t)
  <2>1. pushing[t].index = next_write_index /\ \A u \in Thread : Claiming(u) => u = t
    BY <1>1, <1>6 DEF storeWriteIndex, Claiming, Claimed
  <2>2. pushing'[t] = [at |-> "moved", index |-> 0] /\ \A u \in Thread \ {t} : pushing'[u] = pushing[u]
    BY <1>1, <1>6 DEF storeWriteIndex, LogTypes
  <2>3. \A u \in Thread : ~Claiming(u)'
    BY <2>1, <2>2 DEF Claiming
  <2>4. Unmoved /\ ~Unmoved'
    BY <1>6, <2>3 DEF Unmoved, Claiming, storeWriteIndex
  <2>5. next_write_index' = Succ(next_write_index) /\ UNCHANGED <<pending, next_read_index, flusher>>
    BY <1>6, <2>1 DEF storeWriteIndex
  <2>6. FirstPending' = FirstPending
    BY <2>5 DEF FirstPending, SlotAfter
  <2>7. next_write_index = SlotAfter(FirstPending, Len(pending) - 1) /\ Len(pending) > 0
    BY <1>1, <2>4 DEF Ring
  <2>8. next_write_index' = SlotAfter(FirstPending, Len(pending))
    <3>1. Len(pending) - 1 \in Nat /\ (Len(pending) - 1) + 1 = Len(pending)
      BY <1>1, <2>7
    <3>2. Succ(SlotAfter(FirstPending, Len(pending) - 1)) = SlotAfter(FirstPending, (Len(pending) - 1) + 1)
      BY <1>2, <3>1, SlotsAfter
    <3> QED
      BY <2>5, <2>7, <3>1, <3>2
  <2>9. \A i \in 1 .. Len(pending) : pending[i] = SlotAfter(FirstPending, i - 1)
    BY <1>1 DEF Ring
  <2>10. Ring'
    BY <2>4, <2>5, <2>6, <2>8, <2>9, Zenon DEF Ring, SlotAfter
  <2> QED
    BY <2>3, <2>10 DEF Claimed
<1>7. CASE countWrite(t)
  <2>1. pushing[t].at = "moved" /\ pushing'[t].at = "out" /\ \A u \in Thread \ {t} : pushing'[u] = pushing[u]
    BY <1>1, <1>7 DEF countWrite, LogTypes
  <2>2. \A u \in Thread : Claiming(u)' => Claiming(u) /\ pushing'[u] = pushing[u]
    BY <2>1 DEF Claiming
  <2>3. Unmoved' <=> Unmoved
    BY <2>1 DEF Unmoved
  <2>4. UNCHANGED <<pending, flusher, next_read_index, next_write_index>>
    BY <1>7 DEF countWrite
  <2>5. Ring'
    BY <1>1, <2>3, <2>4, Zenon DEF Ring, FirstPending, SlotAfter
  <2>6. Claimed'
    BY <1>1, <2>2, <2>4, Zenon DEF Claimed
  <2> QED
    BY <2>5, <2>6
<1> QED
  BY <1>3, <1>4, <1>5, <1>6, <1>7 DEF pushValue

\* The elements when the first of them has gone to the file; with no more of them than slots, the
\* slot that was read had the first one and no later one.
LEMMA RingWithoutFirst ==
  ASSUME LogTypes, Ring, flusher = "while", Len(pending) > 0
  PROVE  /\ Len(pending) <= LOG_QUEUE_SIZE => HasNext
         /\ Len(Tail(pending)) = Len(pending) - 1
         /\ \A i \in 1 .. Len(Tail(pending)) :
              Tail(pending)[i] = SlotAfter(SlotAfter(next_read_index, 1), i - 1)
         /\ \A n \in Nat \ {0} :
              SlotAfter(SlotAfter(next_read_index, 1), n - 1) = SlotAfter(next_read_index, n)
<1>1. /\ Len(pending) \in Nat /\ next_read_index \in 0 .. LOG_QUEUE_SIZE - 1 /\ LOG_QUEUE_SIZE \in Nat
      /\ Head(pending) = pending[1] /\ Len(Tail(pending)) = Len(pending) - 1
      /\ \A i \in 1 .. Len(pending) - 1 : Tail(pending)[i] = pending[i + 1]
  BY LoggerAssumption DEF LogTypes
<1>2. \A i \in 1 .. Len(pending) : pending[i] = SlotAfter(next_read_index, i - 1)
  BY DEF Ring, FirstPending
<1>3. ASSUME NEW n \in Nat \ {0}
      PROVE  SlotAfter(SlotAfter(next_read_index, 1), n - 1) = SlotAfter(next_read_index, n)
  <2>1. n - 1 \in Nat /\ (n - 1) + 1 = n
    BY <1>3
  <2>2. SlotAfter(SlotAfter(next_read_index, 1), n - 1) = SlotAfter(next_read_index, (n - 1) + 1)
    BY <1>1, <2>1, SlotsAfter
  <2> QED
    BY <2>1, <2>2
<1>4. ASSUME NEW i \in 1 .. Len(pending) - 1
      PROVE  Tail(pending)[i] = SlotAfter(SlotAfter(next_read_index, 1), i - 1)
  <2>1. i + 1 \in 1 .. Len(pending) /\ (i + 1) - 1 = i /\ i \in Nat \ {0}
    BY <1>1
  <2>2. Tail(pending)[i] = SlotAfter(next_read_index, i)
    BY <1>1, <1>2, <2>1
  <2> QED
    BY <1>3, <2>1, <2>2
<1>5. ASSUME Len(pending) <= LOG_QUEUE_SIZE PROVE HasNext
  <2>1. pending[1] = next_read_index
    <3>1. 1 \in 1 .. Len(pending) /\ 1 - 1 = 0 /\ 0 \in Nat
      BY <1>1
    <3>2. SlotAfter(next_read_index, 0) = next_read_index
      BY <1>1, <3>1, SlotsAfter
    <3> QED
      BY <1>2, <3>1, <3>2
  <2>2. ASSUME NEW j \in 2 .. Len(pending) PROVE pending[j] # next_read_index
    <3>1. j \in 1 .. Len(pending) /\ j - 1 \in Nat /\ j - 1 \in 1 .. LOG_QUEUE_SIZE - 1
      BY <1>1, <1>5
    <3>2. SlotAfter(next_read_index, j - 1) # next_read_index
      BY <1>1, <3>1, SlotsAfter
    <3> QED
      BY <1>2, <3>1, <3>2
  <2> QED
    BY <1>1, <2>1, <2>2 DEF HasNext
<1> QED
  BY <1>1, <1>3, <1>4, <1>5

\* The logger's thread takes the first element, and lowers the count after that.
LEMMA FlushStep == ASSUME LogCore, flushQueue PROVE LogCore'
<1> USE DEF pushers, queue
<1>1. /\ LogTypes /\ LogCounts /\ garbled = FALSE /\ (~raced => Ring /\ Claimed)
      /\ Len(pending) \in Nat /\ num_elements \in Nat /\ LOG_QUEUE_SIZE \in Nat
      /\ NotCounted("main") \in {0, 1} /\ NotCounted("engine") \in {0, 1}
  BY LoggerAssumption DEF LogCore, LogTypes, NotCounted
<1>2. CASE endFlush
  BY <1>1, <1>2, Zenon DEF endFlush, LogCore, LogTypes, LogCounts, NotCounted, Written, Logging, Ring, Claimed,
     Claiming, Unmoved, FirstPending
<1>3. CASE writeElement
  <2>1. Len(pending) > 0 /\ num_elements > 0 /\ (Unmoved => Len(pending) > 1)
    <3>1. num_elements > 0 /\ Written = 0
      BY <1>1, <1>3 DEF writeElement, Written
    <3>2. Unmoved => NotCounted("main") = 1 \/ NotCounted("engine") = 1
      BY EngineAssumption DEF Unmoved, NotCounted
    <3>3. num_elements + NotCounted("main") + NotCounted("engine") = Len(pending) + Written
      BY <1>1 DEF LogCounts
    <3> QED
      BY <1>1, <3>1, <3>2, <3>3
  <2>2. /\ pending' = Tail(pending) /\ flusher = "while" /\ flusher' = "read"
        /\ UNCHANGED <<queue, pushers, running, raced>>
    BY <1>3 DEF writeElement
  <2>3. pending' \in Seq(0 .. LOG_QUEUE_SIZE - 1) /\ Len(pending') = Len(pending) - 1
    BY <1>1, <2>1, <2>2 DEF LogTypes
  <2>4. LogTypes'
    BY <1>1, <2>2, <2>3 DEF LogTypes
  <2>5. LogCounts'
    BY <1>1, <2>1, <2>2, <2>3 DEF LogCounts, NotCounted, Written, Logging
  <2>6. garbled' = FALSE
    <3>1. ~Overrun => Len(pending) <= LOG_QUEUE_SIZE
      BY <1>1 DEF Overrun, Taken
    <3>2. ~raced /\ ~Overrun => HasNext
      BY <1>1, <2>1, <2>2, <3>1, RingWithoutFirst
    <3> QED
      BY <1>1, <1>3, <3>2, Zenon DEF writeElement
  <2>7. ASSUME ~raced' PROVE Ring' /\ Claimed'
    <3>1. FirstPending' = SlotAfter(next_read_index, 1) /\ FirstPending = next_read_index
      BY <2>2 DEF FirstPending, SlotAfter
    <3>2. Ring /\ Claimed
      BY <1>1, <2>2, <2>7
    <3>3. (Unmoved' <=> Unmoved) /\ \A t \in Thread : Claiming(t)' <=> Claiming(t)
      BY <2>2 DEF Claiming, Unmoved
    <3>4. Claimed'
      BY <2>2, <3>2, <3>3 DEF Claimed
    <3> DEFINE b == IF Unmoved THEN Len(pending) - 1 ELSE Len(pending)
    <3>5. b \in Nat \ {0} /\ (IF Unmoved THEN Len(pending') - 1 ELSE Len(pending')) = b - 1
      BY <1>1, <2>1, <2>3
    <3>6. next_write_index = SlotAfter(next_read_index, b)
      BY <3>1, <3>2 DEF Ring
    <3> HIDE DEF b
    <3>7. next_write_index = SlotAfter(SlotAfter(next_read_index, 1), b - 1)
      BY <1>1, <2>1, <2>2, <3>2, <3>5, <3>6, RingWithoutFirst
    <3>8. \A i \in 1 .. Len(pending') : pending'[i] = SlotAfter(FirstPending', i - 1)
      BY <1>1, <2>1, <2>2, <3>1, <3>2, RingWithoutFirst
    <3>9. next_write_index' = SlotAfter(FirstPending', IF Unmoved' THEN Len(pending') - 1 ELSE Len(pending'))
      BY <2>2, <3>1, <3>3, <3>5, <3>7
    <3>10. Unmoved' => Len(pending') > 0
      BY <1>1, <2>1, <2>3, <3>3
    <3>11. Ring'
      BY <3>8, <3>9, <3>10, Zenon DEF Ring, SlotAfter
    <3> QED
      BY <3>4, <3>11
  <2> QED
    BY <2>4, <2>5, <2>6, <2>7 DEF LogCore
<1>4. CASE finishElement
  <2>1. /\ next_read_index' = Succ(next_read_index) /\ num_elements' = num_elements - 1
        /\ flusher = "read" /\ flusher' = "while" /\ num_elements > 0
        /\ UNCHANGED <<next_write_index, pushers, running, pending, garbled, raced>>
    BY <1>1, <1>4 DEF finishElement, LogCounts
  <2>2. next_read_index' = SlotAfter(next_read_index, 1) /\ next_read_index' \in 0 .. LOG_QUEUE_SIZE - 1
    <3>1. next_read_index \in 0 .. LOG_QUEUE_SIZE - 1 /\ 1 \in Nat
      BY <1>1 DEF LogTypes
    <3> QED
      BY <2>1, <3>1, SlotsAfter
  <2>3. LogTypes'
    BY <1>1, <2>1, <2>2 DEF LogTypes
  <2>4. LogCounts'
    <3>1. /\ NotCounted("main")' = NotCounted("main") /\ NotCounted("engine")' = NotCounted("engine")
          /\ \A t \in Thread : pushing'[t].at # "out" => Logging(t)'
      BY <1>1, <2>1 DEF LogCounts, NotCounted, Logging
    <3>2. Written = 1 /\ Written' = 0
      BY <2>1 DEF Written
    <3>3. num_elements + NotCounted("main") + NotCounted("engine") = Len(pending) + Written
      BY <1>1 DEF LogCounts
    <3>4. num_elements' + NotCounted("main")' + NotCounted("engine")' = Len(pending)' + Written' /\ flusher' # "read"
      BY <1>1, <2>1, <3>1, <3>2, <3>3
    <3> QED
      BY <3>1, <3>4, Zenon DEF LogCounts
  <2>5. FirstPending' = FirstPending
    BY <2>1, <2>2 DEF FirstPending, SlotAfter
  <2>6. ~raced' => Ring' /\ Claimed'
    BY <1>1, <2>1, <2>5, Zenon DEF Ring, Claimed, Claiming, Unmoved, SlotAfter
  <2> QED
    BY <1>1, <2>1, <2>3, <2>4, <2>6 DEF LogCore
<1> QED
  BY <1>2, <1>3, <1>4 DEF flushQueue

\* A step that touches nothing of the logger but running_.
LEMMA LogOtherStep ==
  ASSUME LogCore, UNCHANGED <<queue, pushers, flusher, pending, garbled, raced>> PROVE LogCore'
  BY Zenon DEF LogCore, LogTypes, LogCounts, NotCounted, Written, Logging, Ring, Claimed, Claiming, Unmoved,
     FirstPending, SlotAfter, queue, pushers

\* What the threads do at the end of the program, one lemma for each thread.
LEMMA QuietMain == ASSUME LogInv, Main PROVE Quiet'
<1>1. LogCore /\ Quiet /\ LogTypes /\ LogCounts
  BY DEF LogInv, LogCore
<1> USE <1>1 DEF Quiet, Joined, Logging, engineVars, loggerVars, pushers, queue
<1>2. CASE start
  BY <1>2 DEF start, log
<1>3. CASE sendClientRequest \/ logSleeping \/ logPositions
  BY <1>3, EngineAssumption, Zenon DEF sendClientRequest, logSleeping, logPositions, log, LogTypes
<1>4. CASE endSend \/ stop \/ testSizes \/ endSleep
  BY <1>4 DEF endSend, stop, testSizes, endSleep
<1>5. CASE stopRun \/ join
  BY <1>5 DEF stopRun, join
<1>6. CASE stopOthers
  BY <1>6, EngineAssumption, Zenon DEF stopOthers, log, LogTypes
<1>7. CASE deleteLogger
  <2>1. /\ num_elements = 0 /\ main = "deleting" /\ ~Logging("main") /\ ~Logging("engine")
        /\ UNCHANGED <<queue, pushers, flusher, pending>> /\ engine' = engine
        /\ main' = "joinLogger" /\ running' = FALSE
    BY <1>7 DEF deleteLogger, stopFlushing
  <2>2. flusher # "read" /\ NotCounted("main") = 0 /\ NotCounted("engine") = 0
    BY <2>1, EngineAssumption DEF LogCounts, NotCounted
  <2>3. Len(pending) = 0
    BY <2>1, <2>2 DEF LogCounts, Written, LogTypes
  <2>4. pending = <<>>
    BY <2>3 DEF LogTypes
  <2> QED
    BY <2>1, <2>2, <2>4
<1>8. CASE closeFile
  BY <1>8 DEF closeFile
<1> QED
  BY <1>2, <1>3, <1>4, <1>5, <1>6, <1>7, <1>8, Zenon DEF Main

\* The engine's thread ends outside log(), and does nothing afterwards.
LEMMA QuietEngine == ASSUME Types, LogInv, TradeEngineRun PROVE Quiet'
<1>1. Quiet /\ LogTypes
  BY DEF LogInv, LogCore
<1>2. ASSUME handle \/ updateReadIndex
      PROVE  engine'[1] \in {"index", "next"} /\ engine[1] \in {"handle", "index"} /\ UNCHANGED <<loggerVars, mainVars>>
  BY <1>2 DEF handle, updateReadIndex
<1> USE <1>1 DEF Quiet, Joined, Logging, mainVars, loggerVars, pushers, queue
<1>3. CASE testRun
  BY <1>3 DEF testRun
<1>4. CASE getNextToRead
  BY <1>4, EngineAssumption DEF getNextToRead, log, LogTypes, Types
<1>5. CASE handle \/ updateReadIndex
  BY <1>2, <1>5
<1> QED
  BY <1>3, <1>4, <1>5 DEF TradeEngineRun

\* A thread that pushes is inside log(), so main is not at the join of the logger's thread.
LEMMA QuietPush == ASSUME LogInv, NEW t \in Thread, LoggerStep(pushValue(t)) PROVE Quiet'
<1>1. Quiet /\ LogTypes /\ LogCounts
  BY DEF LogInv, LogCore
<1>2. Logging(t) /\ UNCHANGED <<engine, main, running, flusher>> /\ \A u \in Thread \ {t} : left'[u] = left[u]
  BY <1>1, Zenon DEF LoggerStep, engineVars, mainVars, pushValue, getNextToWriteTo, storeElement, loadWriteIndex,
     storeWriteIndex, countWrite, LogCounts, LogTypes
<1>3. main \notin {"joinLogger", "closed"} /\ (engine[1] \in {"none", "ended"} => t # "engine")
  BY <1>1, <1>2, EngineAssumption DEF Quiet, Joined
<1> QED
  BY <1>1, <1>2, <1>3, EngineAssumption DEF Quiet, Joined, Logging

\* The logger's thread adds nothing to the ring.
LEMMA QuietFlush == ASSUME LogInv, loggerThread PROVE Quiet'
  BY DEF LogInv, LogCore, Quiet, Joined, Logging, loggerThread, LoggerStep, flushQueue, endFlush, writeElement,
     finishElement, engineVars, mainVars, pushers, queue

\* Every step of the program keeps the invariant of the log.
LEMMA LogStep == ASSUME Types, LogInv, [TradeNext]_tradeVars PROVE LogInv'
<1>1. LogCore /\ "main" \in Thread /\ "engine" \in Thread
  BY EngineAssumption DEF LogInv
<1>2. CASE outside
  <2>1. UNCHANGED <<loggerVars, engine, main>>
    BY <1>2 DEF outside, arrive, cease, passTime, engineVars, mainVars
  <2> QED
    BY <1>1, <2>1, LogOtherStep DEF LogInv, Quiet, Joined, Logging, loggerVars, pushers
<1>3. CASE Main
  <2>1. (\E t \in Thread : log(t)) \/ UNCHANGED <<queue, pushers, flusher, pending, garbled, raced>>
    BY <1>1, <1>3, Zenon DEF Main, start, sendClientRequest, endSend, stop, testSizes, logSleeping, endSleep,
       logPositions, stopRun, join, stopOthers, deleteLogger, closeFile, stopFlushing, loggerVars
  <2> QED
    BY <1>1, <1>3, <2>1, LogCallStep, LogOtherStep, QuietMain DEF LogInv
<1>4. CASE TradeEngineRun
  <2>1. (\E t \in Thread : log(t)) \/ UNCHANGED <<queue, pushers, flusher, pending, garbled, raced>>
    BY <1>1, <1>4 DEF TradeEngineRun, testRun, getNextToRead, handle, updateReadIndex, loggerVars
  <2> QED
    BY <1>1, <1>4, <2>1, LogCallStep, LogOtherStep, QuietEngine DEF LogInv
<1>5. ASSUME NEW t \in Thread, LoggerStep(pushValue(t)) PROVE LogInv'
  <2>1. pushValue(t) /\ garbled' = garbled
    BY <1>5, Zenon DEF LoggerStep, pushValue, getNextToWriteTo, storeElement, loadWriteIndex, storeWriteIndex, countWrite
  <2> QED
    BY <1>1, <1>5, <2>1, PushCounts, PushRing, QuietPush, Zenon DEF LogInv, LogCore
<1>6. CASE loggerThread
  BY <1>1, <1>6, FlushStep, QuietFlush DEF LogInv, loggerThread, LoggerStep
<1>7. CASE UNCHANGED tradeVars
  <2>1. UNCHANGED <<loggerVars, engine, main>>
    BY <1>7 DEF tradeVars, engineVars, mainVars
  <2> QED
    BY <1>1, <2>1, LogOtherStep DEF LogInv, Quiet, Joined, Logging, loggerVars, pushers
<1> QED
  BY <1>1, <1>2, <1>3, <1>4, <1>5, <1>6, <1>7 DEF TradeNext, mainThread, engineThread, Terminated

(***************************************************************************)
(* For any size of the ring and any number of messages: ~Logger closes the *)
(* file when as many elements are in it as were pushed, and an element in  *)
(* the file is the one that was pushed at its place, unless two threads    *)
(* were in pushValue at once or the ring was overrun.                      *)
(***************************************************************************)
THEOREM LogFile == TradeSpec => []FileIsLog
<1>1. TradeInit => LogInv
  <2> SUFFICES ASSUME TradeInit PROVE LogInv
    OBVIOUS
  <2>1. Quiet
    <3>1. running /\ left = [t \in Thread |-> 0] /\ main = "start"
      BY Zenon DEF TradeInit, LoggerInit
    <3>2. ~Logging("engine")
      BY <3>1, EngineAssumption DEF Logging
    <3> QED
      BY <3>1, <3>2 DEF Quiet, Joined
  <2> QED
    BY <2>1, LogCoreInit DEF TradeInit, LogInv
<1>2. IInv /\ LogInv /\ [TradeNext]_tradeVars => LogInv'
  BY LogStep DEF IInv
<1>3. LogInv => FileIsLog
  BY DEF LogInv, LogCore, Quiet, FileIsLog
<1> QED
  BY EngineInvariant, <1>1, <1>2, <1>3, PTL DEF TradeSpec

=============================================================================
