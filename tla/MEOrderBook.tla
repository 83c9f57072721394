----------------------------- MODULE MEOrderBook -----------------------------
(***************************************************************************)
(* The limit order book of one ticker and the matching engine thread that  *)
(* drives it (exchange/matcher/me_order_book.{h,cpp}, matching_engine.h).   *)
(*                                                                         *)
(* MatchingEngine::run hands the book one client request at a time.  A NEW *)
(* request runs MEOrderBook::add, whose loop in checkForMatch consumes one *)
(* passive order per iteration; each iteration is a step of its own here,  *)
(* because its responses and market updates become visible to the order    *)
(* server and the market data publisher before the next one starts.        *)
(*                                                                         *)
(* An MEOrder object is named by its market order id.  A price level is the *)
(* MEOrdersAtPrice object of a slot of price_orders_at_price_, with the     *)
(* ring of its orders as the sequence that starts at first_me_order_.  The  *)
(* rings that link the levels of a side are the subject of PriceLevelRing;  *)
(* here bids_by_price_ and asks_by_price_ are the best level of the side.   *)
(***************************************************************************)
EXTENDS Integers, Sequences

CONSTANTS
  ClientId,             \* trading clients
  OrderId,              \* order ids a client may use
  Price,                \* prices of the orders clients send
  Qty,                  \* quantities of the orders clients send
  ME_MAX_PRICE_LEVELS,  \* slots of price_orders_at_price_
  MaxOrders,            \* bound: orders accepted in a behaviour
  QtyModulus            \* 2^32, one more than the largest Qty

ASSUME SizeAssumption ==
  /\ Price \subseteq Nat
  /\ Qty \subseteq Nat
  /\ ME_MAX_PRICE_LEVELS \in Nat \ {0}
  /\ MaxOrders \in Nat
  /\ QtyModulus \in Nat \ {0}

priceToIndex(p) == p % ME_MAX_PRICE_LEVELS

\* The prices in use share no slot of the table, which resolves no collision.
NoCollision ==
  \A p, q \in Price : priceToIndex(p) = priceToIndex(q) => p = q

Side == {"BUY", "SELL"}

Opposite(s) == IF s = "BUY" THEN "SELL" ELSE "BUY"

\* Order_INVALID, Price_INVALID, Qty_INVALID and Priority_INVALID.
Invalid == -1

\* A null MEOrder pointer.
NoOrder == 0

MarketOrderId == 1 .. MaxOrders

PriceIndex == 0 .. ME_MAX_PRICE_LEVELS - 1

MEOrder ==
  [client_id : ClientId, client_order_id : OrderId, side : Side,
   price : Price, qty : Nat, priority : Nat]

MEOrdersAtPrice ==
  [side : Side, price : Price, fifo : Seq(MarketOrderId)]

\* The request add() is working on, with the quantity still to be matched.
Aggressor ==
  [client_id : ClientId, client_order_id : OrderId, market_order_id : MarketOrderId,
   side : Side, price : Price, leaves_qty : Nat]

VARIABLES
  next_market_order_id,
  order,             \* live MEOrder objects, by market order id
  level,             \* price_orders_at_price_: the levels in use, by slot
  cid_oid_to_order,  \* client id, client order id -> market order id
  aggressor,         \* the order add() is matching; <<>> between requests
  responses,         \* client responses sent by the last step
  updates            \* market updates sent by the last step

vars == <<next_market_order_id, order, level, cid_oid_to_order, aggressor,
          responses, updates>>

Idle == aggressor = <<>>

-----------------------------------------------------------------------------
(* Messages. *)

ClientResponse(type, c, o, m, s, p, exec, leaves) ==
  [type |-> type, client_id |-> c, client_order_id |-> o, market_order_id |-> m,
   side |-> s, price |-> p, exec_qty |-> exec, leaves_qty |-> leaves]

MarketUpdate(type, m, s, p, q, prio) ==
  [type |-> type, order_id |-> m, side |-> s, price |-> p, qty |-> q, priority |-> prio]

-----------------------------------------------------------------------------
(* Price levels. *)

\* Price p is nearer to the top of side s than price q.
Better(s, p, q) == IF s = "BUY" THEN p > q ELSE p < q

LevelsOf(s) == {i \in DOMAIN level : level[i].side = s}

\* Mutant: the best pointer does not follow a better level.
IsBestMutant(s, i) ==
  /\ i \in LevelsOf(s)
  /\ \A j \in LevelsOf(s) \ {i} : Better(s, level[j].price, level[i].price)

\* Slot i holds the level bids_by_price_ or asks_by_price_ points to.
IsBest(s, i) ==
  /\ i \in LevelsOf(s)
  /\ \A j \in LevelsOf(s) \ {i} : Better(s, level[i].price, level[j].price)

\* An order of side s and limit p trades with an order priced q.
Crosses(s, p, q) == IF s = "BUY" THEN p >= q ELSE p <= q

\* Mutant: the priority follows the first order of the level.
getNextPriorityMutant(p) ==
  IF priceToIndex(p) \in DOMAIN level
  THEN order[level[priceToIndex(p)].fifo[1]].priority + 1
  ELSE 1

getNextPriority(p) ==
  IF priceToIndex(p) \in DOMAIN level
  THEN LET fifo == level[priceToIndex(p)].fifo
       IN  order[fifo[Len(fifo)]].priority + 1
  ELSE 1

\* The ring without order m.
Unlink(fifo, m) ==
  LET k == CHOOSE i \in DOMAIN fifo : fifo[i] = m
  IN  [i \in 1 .. Len(fifo) - 1 |-> IF i < k THEN fifo[i] ELSE fifo[i + 1]]

\* Mutant: the client's entry of a removed order stays.
removeOrderMutant(m) ==
  LET i == priceToIndex(order[m].price)
  IN  /\ level' = IF Len(level[i].fifo) = 1
                  THEN [j \in DOMAIN level \ {i} |-> level[j]]
                  ELSE [level EXCEPT ![i].fifo = Unlink(@, m)]
      /\ order' = [n \in DOMAIN order \ {m} |-> order[n]]
      /\ UNCHANGED cid_oid_to_order

removeOrder(m) ==
  LET o == order[m]
      i == priceToIndex(o.price)
  IN  /\ level' = IF Len(level[i].fifo) = 1
                  THEN [j \in DOMAIN level \ {i} |-> level[j]]
                  ELSE [level EXCEPT ![i].fifo = Unlink(@, m)]
      /\ cid_oid_to_order' =
           [cid_oid_to_order EXCEPT ![<<o.client_id, o.client_order_id>>] = NoOrder]
      /\ order' = [n \in DOMAIN order \ {m} |-> order[n]]

addOrder(m, o) ==
  LET i == priceToIndex(o.price)
  IN  /\ level' = IF i \in DOMAIN level
                  THEN [level EXCEPT ![i].fifo = Append(@, m)]
                  ELSE [j \in DOMAIN level \cup {i} |->
                          IF j = i THEN [side |-> o.side, price |-> o.price, fifo |-> <<m>>]
                                   ELSE level[j]]
      /\ cid_oid_to_order' =
           [cid_oid_to_order EXCEPT ![<<o.client_id, o.client_order_id>>] = m]
      /\ order' = [n \in DOMAIN order \cup {m} |-> IF n = m THEN o ELSE order[n]]

-----------------------------------------------------------------------------
Init ==
  /\ next_market_order_id = 1
  /\ order = <<>>
  /\ level = <<>>
  /\ cid_oid_to_order = [co \in ClientId \X OrderId |-> NoOrder]
  /\ aggressor = <<>>
  /\ responses = <<>>
  /\ updates = <<>>

(***************************************************************************)
(* A NEW request: add() up to the call of checkForMatch.  A client does    *)
(* not reuse the id of an order that is still live (order_manager.cpp      *)
(* takes its ids from a counter); the book itself does not check.          *)
(***************************************************************************)
add(c, o, s, p, q) ==
  /\ Idle
  /\ next_market_order_id <= MaxOrders
  /\ cid_oid_to_order[<<c, o>>] = NoOrder
  /\ next_market_order_id' = next_market_order_id + 1
  /\ aggressor' = [client_id |-> c, client_order_id |-> o,
                   market_order_id |-> next_market_order_id,
                   side |-> s, price |-> p, leaves_qty |-> q]
  /\ responses' = <<ClientResponse("ACCEPTED", c, o, next_market_order_id, s, p, 0, q)>>
  /\ updates' = <<>>
  /\ UNCHANGED <<order, level, cid_oid_to_order>>

\* Mutant: a fill that removes the passive order takes one unit too few.
FillQtyShort(leaves_qty, order_qty) == IF leaves_qty < order_qty THEN leaves_qty ELSE order_qty - 1

FillQty(leaves_qty, order_qty) == IF leaves_qty < order_qty THEN leaves_qty ELSE order_qty

\* What the market is told of passive order m, which had o.qty and keeps qty.
PassiveUpdate(m, o, qty) ==
  IF qty = 0
  THEN MarketUpdate("CANCEL", m, o.side, o.price, o.qty, Invalid)
  ELSE MarketUpdate("MODIFY", m, o.side, o.price, qty, o.priority)

(***************************************************************************)
(* One iteration of checkForMatch: the head m of the best opposite level   *)
(* crosses, and match() trades against it.  The aggressor's market order   *)
(* id passes through checkForMatch's Qty parameter.                        *)
(***************************************************************************)
match ==
  /\ ~Idle
  /\ aggressor.leaves_qty > 0
  /\ \E i \in LevelsOf(Opposite(aggressor.side)) :
       LET a        == aggressor
           m        == level[i].fifo[1]
           o        == order[m]
           fill_qty == FillQty(a.leaves_qty, o.qty)
           leaves   == a.leaves_qty - fill_qty
           qty      == o.qty - fill_qty
       IN  /\ IsBest(Opposite(a.side), i)
           /\ Crosses(a.side, a.price, o.price)
           /\ aggressor' = [a EXCEPT !.leaves_qty = leaves]
           /\ responses' =
                <<ClientResponse("FILLED", a.client_id, a.client_order_id,
                                 a.market_order_id % QtyModulus, a.side, o.price, fill_qty, leaves),
                  ClientResponse("FILLED", o.client_id, o.client_order_id,
                                 m, o.side, o.price, fill_qty, qty)>>
           /\ updates' =
                <<MarketUpdate("TRADE", Invalid, a.side, o.price, fill_qty, Invalid),
                  PassiveUpdate(m, o, qty)>>
           /\ \/ /\ qty = 0
                 /\ removeOrder(m)
              \/ /\ qty > 0
                 /\ order' = [order EXCEPT ![m].qty = qty]
                 /\ UNCHANGED <<level, cid_oid_to_order>>
  /\ UNCHANGED next_market_order_id

\* Mutant: checkForMatch trades once instead of in a loop.
MatchingDoneMutant ==
  \/ aggressor.leaves_qty = 0
  \/ LevelsOf(Opposite(aggressor.side)) = {}
  \/ responses # <<>> /\ responses[1].type = "FILLED"
  \/ \E i \in LevelsOf(Opposite(aggressor.side)) :
       /\ IsBest(Opposite(aggressor.side), i)
       /\ ~Crosses(aggressor.side, aggressor.price, order[level[i].fifo[1]].price)

\* The loop of checkForMatch is over.
MatchingDone ==
  \/ aggressor.leaves_qty = 0
  \/ LevelsOf(Opposite(aggressor.side)) = {}
  \/ \E i \in LevelsOf(Opposite(aggressor.side)) :
       /\ IsBest(Opposite(aggressor.side), i)
       /\ ~Crosses(aggressor.side, aggressor.price, order[level[i].fifo[1]].price)

\* The rest of add(): what is left of the order rests in the book.
addRest ==
  /\ ~Idle
  /\ MatchingDone
  /\ \/ /\ aggressor.leaves_qty > 0
        /\ LET a        == aggressor
               priority == getNextPriority(a.price)
           IN  /\ addOrder(a.market_order_id,
                           [client_id |-> a.client_id, client_order_id |-> a.client_order_id,
                            side |-> a.side, price |-> a.price,
                            qty |-> a.leaves_qty, priority |-> priority])
               /\ updates' = <<MarketUpdate("ADD", a.market_order_id, a.side, a.price,
                                            a.leaves_qty, priority)>>
     \/ /\ aggressor.leaves_qty = 0
        /\ updates' = <<>>
        /\ UNCHANGED <<order, level, cid_oid_to_order>>
  /\ aggressor' = <<>>
  /\ responses' = <<>>
  /\ UNCHANGED next_market_order_id

\* A CANCEL request.
cancel(c, o) ==
  /\ Idle
  /\ LET m == cid_oid_to_order[<<c, o>>]
     IN  \/ /\ m = NoOrder
            /\ responses' = <<ClientResponse("CANCEL_REJECTED", c, o, Invalid, "INVALID",
                                             Invalid, Invalid, Invalid)>>
            /\ updates' = <<>>
            /\ UNCHANGED <<order, level, cid_oid_to_order>>
         \/ /\ m # NoOrder
            /\ responses' = <<ClientResponse("CANCELED", c, o, m, order[m].side,
                                             order[m].price, Invalid, order[m].qty)>>
            /\ updates' = <<MarketUpdate("CANCEL", m, order[m].side, order[m].price,
                                         0, order[m].priority)>>
            /\ removeOrder(m)
  /\ UNCHANGED <<next_market_order_id, aggressor>>

\* MatchingEngine::processClientRequest.
processClientRequest ==
  \/ \E c \in ClientId, o \in OrderId, s \in Side, p \in Price, q \in Qty : add(c, o, s, p, q)
  \/ \E c \in ClientId, o \in OrderId : cancel(c, o)

Next == processClientRequest \/ match \/ addRest

Spec == Init /\ [][Next]_vars

\* The matching engine thread spins on its queue and is never blocked.
FairSpec == Spec /\ WF_vars(match) /\ WF_vars(addRest)

-----------------------------------------------------------------------------
(* Properties. *)

\* The state has the types of the code's members.
TypeOK ==
  /\ next_market_order_id \in 1 .. MaxOrders + 1
  /\ DOMAIN order \subseteq MarketOrderId
  /\ order \in [DOMAIN order -> MEOrder]
  /\ DOMAIN level \subseteq PriceIndex
  /\ level \in [DOMAIN level -> MEOrdersAtPrice]
  /\ cid_oid_to_order \in [ClientId \X OrderId -> MarketOrderId \cup {NoOrder}]
  /\ Idle \/ aggressor \in Aggressor

LevelHoldsItsOrders(i) ==
  /\ i = priceToIndex(level[i].price)
  /\ Len(level[i].fifo) > 0
  /\ \A k \in 1 .. Len(level[i].fifo) :
       LET m == level[i].fifo[k]
       IN  m \in DOMAIN order /\ order[m].price = level[i].price /\ order[m].side = level[i].side

OrderIsInItsLevel(m) ==
  LET i == priceToIndex(order[m].price)
  IN  /\ order[m].qty > 0
      /\ i \in DOMAIN level
      /\ \E k \in 1 .. Len(level[i].fifo) : level[i].fifo[k] = m

(***************************************************************************)
(* The two ways to reach an order agree.  A level in use is the level of   *)
(* its own price, is not empty and holds only orders of its price and      *)
(* side; every live order is in the ring of its level; and the client's    *)
(* entry of cid_oid_to_order_ names the order exactly while it lives, so   *)
(* that a cancel can neither miss nor free the wrong object.               *)
(***************************************************************************)
EntriesAgree ==
  /\ \A i \in DOMAIN level : LevelHoldsItsOrders(i)
  /\ \A m \in DOMAIN order : OrderIsInItsLevel(m)
  /\ \A m \in DOMAIN order :
       cid_oid_to_order[<<order[m].client_id, order[m].client_order_id>>] = m
  /\ \A co \in ClientId \X OrderId : cid_oid_to_order[co] # NoOrder =>
       LET m == cid_oid_to_order[co]
       IN  m \in DOMAIN order /\ co = <<order[m].client_id, order[m].client_order_id>>

(***************************************************************************)
(* Time priority: along the ring of a level, from first_me_order_ on, the  *)
(* orders come in the order the exchange accepted them and priority_,      *)
(* which subscribers see, grows with it, whatever was cancelled between.   *)
(***************************************************************************)
FifoIsTimeOrder ==
  \A i \in DOMAIN level : \A j, k \in 1 .. Len(level[i].fifo) :
    j < k => /\ level[i].fifo[j] < level[i].fifo[k]
             /\ order[level[i].fifo[j]].priority < order[level[i].fifo[k]].priority

(***************************************************************************)
(* The book is never crossed or locked, not even between two fills of an   *)
(* aggressive order: every bid is below every ask.  The slot lookup of     *)
(* getOrdersAtPrice, which ignores the side, is only right because of it.  *)
(***************************************************************************)
NotCrossed ==
  \A i \in LevelsOf("BUY"), j \in LevelsOf("SELL") : level[i].price < level[j].price

Filled(m) == ~Idle /\ (m \in DOMAIN order' => order'[m].qty < order[m].qty)

(***************************************************************************)
(* Price-time priority of match(): an order that is traded against is one  *)
(* the aggressor's limit allows, on the other side, and no order of that   *)
(* side has a better price, or the same price and an earlier acceptance.   *)
(***************************************************************************)
FillsBestFirst ==
  [][\A m \in DOMAIN order : Filled(m) =>
       /\ order[m].side = Opposite(aggressor.side)
       /\ Crosses(aggressor.side, aggressor.price, order[m].price)
       /\ \A n \in DOMAIN order : order[n].side = order[m].side =>
            /\ ~Better(order[m].side, order[n].price, order[m].price)
            /\ order[n].price = order[m].price => m <= n]_vars

(***************************************************************************)
(* The order add() is matching has the newest market order id, and neither *)
(* the ring of a level nor cid_oid_to_order_ knows it yet.                 *)
(***************************************************************************)
AggressorIsNew ==
  /\ \A m \in DOMAIN order : m < next_market_order_id
  /\ ~Idle =>
       /\ next_market_order_id = aggressor.market_order_id + 1
       /\ aggressor.market_order_id \notin DOMAIN order
       /\ cid_oid_to_order[<<aggressor.client_id, aggressor.client_order_id>>] = NoOrder

\* Every request is worked off: the loop of checkForMatch terminates.
RequestCompletes == ~Idle ~> Idle

=============================================================================
