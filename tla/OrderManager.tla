----------------------------- MODULE OrderManager -----------------------------
(***************************************************************************)
(* The trade engine's order manager, risk check and position for one       *)
(* ticker: one order slot per side, moved by the strategy on market data   *)
(* and by the responses of the exchange.  Requests and responses cross two *)
(* first-in first-out paths (LFQueue, gateway, TCP, order server), so what *)
(* the client knows is always behind what the exchange did.                *)
(***************************************************************************)
EXTENDS Integers, Sequences, FiniteSets

CONSTANTS
  Price,        \* prices the strategy may ask for
  Clip,         \* TradeEngineCfg::clip_
  MaxOrderSize, \* RiskCfg::max_order_size_
  MaxPosition,  \* RiskCfg::max_position_
  MaxOrders     \* bound: orders sent

ASSUME OrderManagerAssumption ==
  /\ Price \subseteq Nat \ {0}
  /\ Clip \in Nat \ {0} /\ MaxOrderSize \in Nat
  /\ MaxPosition \in Nat /\ MaxOrders \in Nat

VARIABLES
  order,          \* ticker_side_order_ of the ticker: Side -> OMOrder
  next_order_id,
  position,       \* PositionInfo::position_
  requests,       \* on the way to the matching engine
  responses,      \* on the way to the trade engine
  live,           \* the client's orders in the matching engine's book
  executed        \* history: the position by the trades the matching engine made

vars == <<order, next_order_id, position, requests, responses, live, executed>>

Side == {"BUY", "SELL"}
sideToValue(side) == IF side = "BUY" THEN 1 ELSE -1
Abs(n) == IF n < 0 THEN -n ELSE n

\* Price_INVALID, OrderId_INVALID
Invalid == 0

OMOrder(id, price, qty, state) ==
  [order_id |-> id, price |-> price, qty |-> qty, order_state |-> state]

Init ==
  /\ order = [s \in Side |-> OMOrder(Invalid, Invalid, 0, "INVALID")]
  /\ next_order_id = 1
  /\ position = 0 /\ executed = 0
  /\ requests = <<>> /\ responses = <<>>
  /\ live = {}

-----------------------------------------------------------------------------
(* Trade engine thread: the strategy wants orders at bid and ask. *)

\* Mutant: the check looks at the position only, not at the order.
checkPreTradeRiskMutant(side, qty, pnl_ok) ==
  qty <= MaxOrderSize /\ Abs(position) <= MaxPosition /\ pnl_ok

\* pnl_ok stands for total_pnl_ >= max_loss_.
checkPreTradeRisk(side, qty, pnl_ok) ==
  /\ qty <= MaxOrderSize
  /\ Abs(position + sideToValue(side) * qty) <= MaxPosition
  /\ pnl_ok

Request(type, id, side, price, qty) ==
  [type |-> type, order_id |-> id, side |-> side, price |-> price, qty |-> qty]

newOrder(st, side, price, qty) ==
  [requests |-> Append(st.requests, Request("NEW", st.next_order_id, side, price, qty)),
   order |-> [st.order EXCEPT ![side] = OMOrder(st.next_order_id, price, qty, "PENDING_NEW")],
   next_order_id |-> st.next_order_id + 1]

cancelOrder(st, side) ==
  LET o == st.order[side]
  IN  [requests |-> Append(st.requests, Request("CANCEL", o.order_id, side, o.price, o.qty)),
       order |-> [st.order EXCEPT ![side].order_state = "PENDING_CANCEL"],
       next_order_id |-> st.next_order_id]

\* Mutant: an order that is being cancelled is replaced at once.
moveOrderMutant(st, side, price, qty, pnl_ok) ==
  LET state == st.order[side].order_state
  IN  CASE state = "LIVE" /\ st.order[side].price # price -> cancelOrder(st, side)
        [] /\ state \in {"INVALID", "DEAD", "PENDING_CANCEL"} /\ price # Invalid
           /\ checkPreTradeRisk(side, qty, pnl_ok) -> newOrder(st, side, price, qty)
        [] OTHER -> st

moveOrder(st, side, price, qty, pnl_ok) ==
  LET state == st.order[side].order_state
  IN  CASE state = "LIVE" /\ st.order[side].price # price -> cancelOrder(st, side)
        [] /\ state \in {"INVALID", "DEAD"} /\ price # Invalid
           /\ checkPreTradeRisk(side, qty, pnl_ok) -> newOrder(st, side, price, qty)
        [] OTHER -> st

moveOrders(bid, ask, pnl_ok) ==
  LET st == [order |-> order, next_order_id |-> next_order_id, requests |-> requests]
      moved == moveOrder(moveOrder(st, "BUY", bid, Clip, pnl_ok), "SELL", ask, Clip, pnl_ok)
  IN  /\ moved.next_order_id <= MaxOrders + 1
      /\ order' = moved.order
      /\ next_order_id' = moved.next_order_id
      /\ requests' = moved.requests
      /\ UNCHANGED <<position, responses, live, executed>>

\* The market maker quotes both sides, the liquidity taker one.
Strategy == \E bid, ask \in Price \cup {Invalid}, pnl_ok \in BOOLEAN :
              (bid # Invalid \/ ask # Invalid) /\ moveOrders(bid, ask, pnl_ok)

-----------------------------------------------------------------------------
(* Trade engine thread: a response.  A CANCEL_REJECTED names no side and changes nothing. *)

\* Mutant: a fill does not reduce the quantity of the slot.
UpdatedMutant(o, r) ==
  CASE r.type = "ACCEPTED" -> [o EXCEPT !.order_state = "LIVE"]
    [] r.type = "CANCELED" -> [o EXCEPT !.order_state = "DEAD"]
    [] r.type = "FILLED"   -> [o EXCEPT !.order_state = IF r.leaves_qty = 0 THEN "DEAD" ELSE @]

\* Mutant: a complete fill does not free the slot.
UpdatedNotDead(o, r) ==
  CASE r.type = "ACCEPTED" -> [o EXCEPT !.order_state = "LIVE"]
    [] r.type = "CANCELED" -> [o EXCEPT !.order_state = "DEAD"]
    [] r.type = "FILLED"   -> [o EXCEPT !.qty = r.leaves_qty]

Updated(o, r) ==
  CASE r.type = "ACCEPTED" -> [o EXCEPT !.order_state = "LIVE"]
    [] r.type = "CANCELED" -> [o EXCEPT !.order_state = "DEAD"]
    [] r.type = "FILLED"   -> [o EXCEPT !.qty = r.leaves_qty,
                                        !.order_state = IF r.leaves_qty = 0 THEN "DEAD" ELSE @]

onOrderUpdate ==
  /\ responses # <<>>
  /\ LET r == Head(responses)
     IN  /\ position' = IF r.type = "FILLED" THEN position + r.exec_qty * sideToValue(r.side)
                                             ELSE position
         /\ order' = IF r.type = "CANCEL_REJECTED" THEN order
                     ELSE [order EXCEPT ![r.side] = Updated(@, r)]
  /\ responses' = Tail(responses)
  /\ UNCHANGED <<next_order_id, requests, live, executed>>

-----------------------------------------------------------------------------
(* The exchange, as the client sees it: every request is answered in order, and an order in *)
(* the book trades with the orders of others at any time. *)

Response(type, id, side, exec_qty, leaves_qty) ==
  [type |-> type, order_id |-> id, side |-> side, exec_qty |-> exec_qty, leaves_qty |-> leaves_qty]

processClientRequest ==
  /\ requests # <<>>
  /\ LET r == Head(requests)
         known == {o \in live : o.order_id = r.order_id}
     IN  CASE r.type = "NEW" ->
                /\ live' = live \cup {[order_id |-> r.order_id, side |-> r.side, qty |-> r.qty]}
                /\ responses' = Append(responses, Response("ACCEPTED", r.order_id, r.side, 0, r.qty))
           [] r.type = "CANCEL" /\ known # {} ->
                /\ live' = live \ known
                /\ responses' = Append(responses, Response("CANCELED", r.order_id, r.side, 0, (CHOOSE o \in known : TRUE).qty))
           [] r.type = "CANCEL" /\ known = {} ->
                /\ live' = live
                /\ responses' = Append(responses, Response("CANCEL_REJECTED", r.order_id, "INVALID", 0, 0))
  /\ requests' = Tail(requests)
  /\ UNCHANGED <<order, next_order_id, position, executed>>

fill ==
  /\ \E o \in live, q \in 1 .. Clip :
       /\ q <= o.qty
       /\ live' = (live \ {o}) \cup (IF q = o.qty THEN {} ELSE {[o EXCEPT !.qty = o.qty - q]})
       /\ responses' = Append(responses, Response("FILLED", o.order_id, o.side, q, o.qty - q))
       /\ executed' = executed + q * sideToValue(o.side)
  /\ UNCHANGED <<order, next_order_id, position, requests>>

Next == Strategy \/ onOrderUpdate \/ processClientRequest \/ fill

Spec == Init /\ [][Next]_vars

\* The trade engine drains its responses and the exchange its requests; nothing makes a
\* strategy quote or an order trade.
FairSpec == Spec /\ WF_vars(onOrderUpdate) /\ WF_vars(processClientRequest)

-----------------------------------------------------------------------------
(* Properties. *)

(***************************************************************************)
(* onOrderUpdate finds the slot by side and never compares order ids.      *)
(* Still every response on its way that changes a slot is about the order  *)
(* in that slot: an answer never hits the successor of its order.          *)
(***************************************************************************)
ResponsesFitSlots ==
  \A i \in DOMAIN responses :
    responses[i].type # "CANCEL_REJECTED" =>
      responses[i].order_id = order[responses[i].side].order_id

(***************************************************************************)
(* checkPreTradeRisk looks at a position without the fills that are under  *)
(* way and without the order open on the other side.  Still the trades     *)
(* made at the exchange never take the position beyond max_position_.      *)
(***************************************************************************)
PositionWithinRisk == Abs(executed) <= MaxPosition /\ Abs(position) <= MaxPosition

\* When the paths are empty, the client's position and slots are the exchange's.
SettledAgree ==
  requests = <<>> /\ responses = <<>> =>
    /\ position = executed
    /\ \A s \in Side : LET o == order[s]
                       IN  o.order_state = "LIVE" <=> [order_id |-> o.order_id, side |-> s, qty |-> o.qty] \in live

(***************************************************************************)
(* An order whose cancel was sent ends, whether the cancel or a fill came  *)
(* first: the rejected cancel of a filled order leaves no slot blocked.    *)
(***************************************************************************)
CancelEnds == \A s \in Side : order[s].order_state = "PENDING_CANCEL" ~> order[s].order_state = "DEAD"

=============================================================================
