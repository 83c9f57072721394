--------------------------- MODULE MarketOrderBook ---------------------------
(***************************************************************************)
(* The trade engine thread on market data: the order book it keeps of each *)
(* ticker, the best bid and offer derived from it, the features, shared by *)
(* all tickers, and the prices the trading algorithm asks for.             *)
(*                                                                         *)
(* A book is the set of its orders; its levels and their ring are the code *)
(* of the matching engine's book (PriceLevelRing).  The table of levels is *)
(* modelled for what the code leaves in it.  CLEAR gives back every level  *)
(* and order and leaves the table's entries.  An order that is added later *)
(* at such a price is linked behind the freed orders of the freed level,   *)
(* which is in no list of levels: it can be found by its id and is at no   *)
(* price of the book.  The freed orders stay linked there, so the level    *)
(* never becomes empty and its entry never goes.                           *)
(*                                                                         *)
(* The pools search forward for a free block (MemPool), so that one that   *)
(* was freed is in use again only after a round through the pool: 256      *)
(* levels or a million orders later.  That is left out, and with it what   *)
(* an entry for a freed level then points to.                              *)
(***************************************************************************)
EXTENDS Integers, FiniteSetsExt

CONSTANTS
  Ticker, Id, Price, Qty,
  Recovered,                  \* bound: the tickers whose book is cleared
  MaxVolume,                  \* bound: the quantity in the books at a time
  ThresholdNum, ThresholdDen  \* TradeEngineCfg::threshold_, a fraction

Invalid == 0
ASSUME BookAssumption ==
  /\ Price \subseteq Nat \ {Invalid} /\ IsFiniteSet(Price) /\ Qty \subseteq Nat \ {0}
  /\ Recovered \subseteq Ticker /\ MaxVolume \in Nat
  /\ ThresholdNum \in Nat /\ ThresholdDen \in Nat \ {0}

VARIABLES
  algo,       \* the trading algorithm of the process
  orders,     \* Ticker -> orders in oid_to_order_
  freed,      \* Ticker -> prices whose entry of price_orders_at_price_ is a freed level
  bbo,        \* Ticker -> Side -> [price, qty]
  stale,      \* history: Ticker -> sides with no update since the last CLEAR
  feature,    \* mkt_price_ (maker) or agg_trade_qty_ratio_ (taker) as [num, den, of]
  quote       \* call of moveOrders by the last update, if any: [ticker, bid, ask, of]

vars == <<algo, orders, freed, bbo, stale, feature, quote>>

Side == {"BUY", "SELL"}
None == "none"
NoBBO == [price |-> Invalid, qty |-> 0]
NoQuote == [ticker |-> None, bid |-> Invalid, ask |-> Invalid, of |-> None]
Order == [id : Id, side : Side, price : Price, qty : Qty]

Better(side, p, q) == IF side = "BUY" THEN p > q ELSE p < q
On(book, side) == {o \in book : o.side = side}
BestPrice(book, side) == CHOOSE p \in {o.price : o \in On(book, side)} :
                           \A o \in On(book, side) : ~Better(side, o.price, p)

Init ==
  /\ algo \in {"MAKER", "TAKER"}
  /\ orders = [t \in Ticker |-> {}] /\ freed = [t \in Ticker |-> {}] /\ stale = [t \in Ticker |-> {}]
  /\ bbo = [t \in Ticker |-> [s \in Side |-> NoBBO]]
  /\ feature = [num |-> 0, den |-> 0, of |-> None]  \* NaN
  /\ quote = NoQuote

-----------------------------------------------------------------------------
(* The book. *)

\* The orders at the levels that bids_by_price_ and asks_by_price_ lead to.
Listed(t) == {o \in orders[t] : o.price \notin freed[t]}

\* Mutant: an update at the best price does not count as one of the top.
UpdatedMutant(book, u) ==
  {s \in Side : u.side = s /\ (On(book, s) = {} \/ Better(s, u.price, BestPrice(book, s)))}

\* bid_updated, ask_updated: decided on the book before the update.
Updated(book, u) ==
  {s \in Side : u.side = s /\ (On(book, s) = {} \/ ~Better(s, BestPrice(book, s), u.price))}

\* The quantities of a level added up.
LevelQty(level) == MapThenSumSet(LAMBDA o : o.qty, level)

Top(book, s) ==
  IF On(book, s) = {} THEN NoBBO
  ELSE LET best == BestPrice(book, s)
       IN  [price |-> best, qty |-> LevelQty({o \in On(book, s) : o.price = best})]

updateBBO(t, book, updated) == [s \in Side |-> IF s \in updated THEN Top(book, s) ELSE bbo[t][s]]

\* The orders after ADD, MODIFY, CANCEL and CLEAR.
Applied(book, u) ==
  CASE u.type = "ADD"    -> book \cup {u.order}
    [] u.type = "MODIFY" -> {o \in book : o.id # u.order.id} \cup {u.order}
    [] u.type = "CANCEL" -> {o \in book : o.id # u.order.id}
    [] u.type = "CLEAR"  -> {}

\* CLEAR gives back every level and leaves its table entry.
Freed(t, u) ==
  IF u.type = "CLEAR" THEN freed[t] \cup {o.price : o \in orders[t]} ELSE freed[t]

-----------------------------------------------------------------------------
(* Features and algorithms.  b: best bid and offer of the ticker. *)

Both(b) == b["BUY"].price # Invalid /\ b["SELL"].price # Invalid

AtLeastThreshold(f) == f.num * ThresholdDen >= ThresholdNum * f.den

FairPrice(t, b) ==
  [num |-> b["BUY"].price * b["SELL"].qty + b["SELL"].price * b["BUY"].qty,
   den |-> b["BUY"].qty + b["SELL"].qty, of |-> t]

\* Mutant: both sides are improved by a tick.
MakerQuoteMutant(t, b, fair) ==
  [ticker |-> t, of |-> fair.of, bid |-> b["BUY"].price + 1, ask |-> b["SELL"].price - 1]

\* MarketMaker::onOrderBookUpdate
MakerQuote(t, b, fair) ==
  LET above == [fair EXCEPT !.num = fair.num - b["BUY"].price * fair.den]
      below == [fair EXCEPT !.num = b["SELL"].price * fair.den - fair.num]
  IN  [ticker |-> t, of |-> fair.of,
       bid |-> b["BUY"].price - (IF AtLeastThreshold(above) THEN 0 ELSE 1),
       ask |-> b["SELL"].price + (IF AtLeastThreshold(below) THEN 0 ELSE 1)]

\* Mutant: the algorithm runs before the feature engine.
onOrderBookUpdateMutant(t, b) ==
  /\ feature' = IF algo = "MAKER" /\ Both(b) THEN FairPrice(t, b) ELSE feature
  /\ quote' = IF algo = "MAKER" /\ Both(b) THEN MakerQuote(t, b, feature) ELSE NoQuote

\* TradeEngine::onOrderBookUpdate: feature engine, then algorithm.
onOrderBookUpdate(t, b) ==
  /\ feature' = IF algo = "MAKER" /\ Both(b) THEN FairPrice(t, b) ELSE feature
  /\ quote' = IF algo = "MAKER" /\ Both(b) THEN MakerQuote(t, b, feature') ELSE NoQuote

\* LiquidityTaker::onTradeUpdate
TakerQuote(t, b, side, ratio) ==
  [ticker |-> t, of |-> ratio.of,
   bid |-> IF side = "BUY" THEN b["SELL"].price ELSE Invalid,
   ask |-> IF side = "BUY" THEN Invalid ELSE b["BUY"].price]

Opposite(side) == IF side = "BUY" THEN "SELL" ELSE "BUY"

\* TradeEngine::onTradeUpdate: the traded quantity against that of the other side's best.
onTradeUpdate(t, b, side, qty) ==
  /\ feature' = IF algo = "TAKER" /\ Both(b)
                THEN [num |-> qty, den |-> b[Opposite(side)].qty, of |-> t] ELSE feature
  /\ quote' = IF algo = "TAKER" /\ Both(b) /\ AtLeastThreshold(feature')
              THEN TakerQuote(t, b, side, feature') ELSE NoQuote

-----------------------------------------------------------------------------
(* MarketOrderBook::onMarketUpdate on each type of update. *)

onMarketUpdate(t, u) ==
  /\ orders' = [orders EXCEPT ![t] = Applied(@, u)]
  /\ freed' = [freed EXCEPT ![t] = Freed(t, u)]
  /\ bbo' = [bbo EXCEPT ![t] = updateBBO(t, Listed(t)', Updated(Listed(t), u))]
  /\ stale' = [stale EXCEPT ![t] = IF u.type = "CLEAR" THEN Side ELSE @ \ {u.side}]
  /\ onOrderBookUpdate(t, bbo'[t])
  /\ UNCHANGED algo

Update(type, o) == [type |-> type, side |-> o.side, price |-> o.price, order |-> o]

\* A book of the matching engine is never crossed.
Fits(book, o) == /\ \A x \in book : x.id # o.id
                 /\ \A x \in book : x.side # o.side => Better(o.side, x.price, o.price)

\* What may still be added.
VolumeLeft == MaxVolume - MapThenSumSet(LAMBDA t : LevelQty(orders[t]), Ticker)

Add ==
  /\ VolumeLeft > 0
  /\ \E t \in Ticker, o \in Order :
       Fits(orders[t], o) /\ o.qty <= VolumeLeft /\ onMarketUpdate(t, Update("ADD", o))

Modify == \E t \in Ticker : \E o \in orders[t], q \in Qty :
            q < o.qty /\ onMarketUpdate(t, Update("MODIFY", [o EXCEPT !.qty = q]))

Cancel == \E t \in Ticker : \E o \in orders[t] : onMarketUpdate(t, Update("CANCEL", o))

Clear == \E t \in Recovered : onMarketUpdate(t, [type |-> "CLEAR", side |-> "INVALID", price |-> Invalid])

\* A trade is announced before the orders it changes.
Trade ==
  /\ \E t \in Ticker, q \in Qty : \E o \in orders[t] :
       q <= o.qty /\ onTradeUpdate(t, bbo[t], Opposite(o.side), q)
  /\ UNCHANGED <<algo, orders, freed, bbo, stale>>

Next == Add \/ Modify \/ Cancel \/ Clear \/ Trade

Spec == Init /\ [][Next]_vars

-----------------------------------------------------------------------------
(* Properties. *)

(***************************************************************************)
(* onMarketUpdate recomputes a side of the BBO only when it finds, before  *)
(* the update, that the update is at the top.  Still the BBO of a side is  *)
(* its best listed price and the whole quantity there, with orders that    *)
(* are not listed coming and going, at better prices too.  After a CLEAR   *)
(* this holds from the first update of the side on; until then the BBO is  *)
(* the one before the CLEAR.                                               *)
(***************************************************************************)
BBOIsTop == \A t \in Ticker : \A s \in Side \ stale[t] : bbo[t][s] = Top(Listed(t), s)

(***************************************************************************)
(* The features are kept once for all tickers and the test for an invalid  *)
(* feature compares with NaN, which is always true.  Still an algorithm    *)
(* never acts on the feature of another ticker or on one never computed.   *)
(***************************************************************************)
FeatureIsOwn == quote.of = quote.ticker

(***************************************************************************)
(* The market maker's orders do not cross the exchange's book: its bid is  *)
(* below every sell order and its ask above every buy order, also those    *)
(* its own book has lost from the levels, if the side it quotes has had an *)
(* update since the last CLEAR.                                            *)
(***************************************************************************)
MakerDoesNotCross ==
  algo = "MAKER" /\ quote # NoQuote =>
    LET t == quote.ticker
    IN  /\ "BUY" \notin stale[t] => \A o \in On(orders[t], "SELL") : quote.bid < o.price
        /\ "SELL" \notin stale[t] => \A o \in On(orders[t], "BUY") : quote.ask > o.price

=============================================================================
