-------------------------- MODULE OrderManagerInvariant ------------------------
(***************************************************************************)
(* The safety properties of OrderManager for every clip, limit, set of     *)
(* prices and number of orders.                                            *)
(*                                                                         *)
(* Paths: at any time an order is in exactly one place, and each place     *)
(* excludes the next ones.  Its NEW is on the way and nothing else is; or  *)
(* it is in the book and no response that ends it is on the way; or such a *)
(* response is on the way, and it is the last one about its side.  So when *)
(* the response that frees a slot is handled, nothing about the slot is    *)
(* left on either path.                                                    *)
(*                                                                         *)
(* Money: the slot's quantity less what the last fill on the way leaves is *)
(* what the client does not know yet, so the position of the exchange      *)
(* differs from the client's by these two amounts.  And the position plus  *)
(* the quantity in the buying slot never exceeds the limit, because a fill *)
(* moves quantity from the slot to the position.                           *)
(***************************************************************************)
EXTENDS OrderManager, TLAPS

OMOrders ==
  [order_id : Nat, price : Nat, qty : Nat,
   order_state : {"INVALID", "PENDING_NEW", "LIVE", "PENDING_CANCEL", "DEAD"}]
Requests == [type : {"NEW", "CANCEL"}, order_id : Nat, side : Side, price : Nat, qty : Nat]
Responses ==
  [type : {"ACCEPTED", "CANCELED", "FILLED"}, order_id : Nat, side : Side, exec_qty : Nat, leaves_qty : Nat]
    \cup [type : {"CANCEL_REJECTED"}, order_id : Nat, side : {"INVALID"}, exec_qty : Nat, leaves_qty : Nat]
BookOrders == [order_id : Nat, side : Side, qty : Nat \ {0}]

\* The trade engine's part of the state, as moveOrder passes it on.
States == [order : [Side -> OMOrders], next_order_id : Nat \ {0}, requests : Seq(Requests)]

\* Responses on the way about side s, and the fills among them.
About(s) == {i \in DOMAIN responses : responses[i].side = s}
Fills(s) == {i \in About(s) : responses[i].type = "FILLED"}

\* Response r ends its order.
Final(r) == r.type = "CANCELED" \/ (r.type = "FILLED" /\ r.leaves_qty = 0)

NewSent(st, s) == \E i \in DOMAIN st.requests : st.requests[i].type = "NEW" /\ st.requests[i].side = s
InBook(s) == \E o \in live : o.side = s
Ending(s) == \E i \in About(s) : Final(responses[i])

-----------------------------------------------------------------------------
(* The invariant of state st of the trade engine with the rest of the variables. *)

Types ==
  /\ responses \in Seq(Responses)
  /\ live \in SUBSET BookOrders
  /\ position \in Int /\ executed \in Int

\* No two slots and no slot and a foreign request share an order id.
Ids(st) ==
  /\ \A s \in Side : st.order[s].order_id < st.next_order_id
  /\ \A s \in Side : st.order[s].order_state # "INVALID" => st.order[s].order_id > 0
  /\ \A s, t \in Side : st.order[s].order_id = st.order[t].order_id => s = t \/ st.order[s].order_id = 0
  /\ \A i \in DOMAIN st.requests, s \in Side :
       /\ 0 < st.requests[i].order_id /\ st.requests[i].order_id < st.next_order_id
       /\ st.order[s].order_id = st.requests[i].order_id => s = st.requests[i].side

\* What is on the way or in the book about a side is about the order in its slot.
Current(st) ==
  /\ \A s \in Side : \A i \in About(s) : responses[i].order_id = st.order[s].order_id
  /\ \A o \in live : o.order_id = st.order[o.side].order_id
  /\ \A i \in DOMAIN st.requests :
       st.requests[i].type = "NEW" =>
         /\ st.requests[i].order_id = st.order[st.requests[i].side].order_id
         /\ st.requests[i].qty = st.order[st.requests[i].side].qty
         /\ st.requests[i].qty # 0

\* Each place of an order excludes the next ones.
Paths(st) ==
  /\ \A s \in Side : NewSent(st, s) => About(s) = {} /\ ~InBook(s)
  /\ \A i, j \in DOMAIN st.requests :
       /\ st.requests[i].type = "NEW" /\ st.requests[j].type = "NEW"
       /\ st.requests[i].side = st.requests[j].side
       => i = j
  /\ \A o, p \in live : o.side = p.side => o = p
  /\ \A s \in Side : \A i \in About(s) :
       Final(responses[i]) => ~InBook(s) /\ \A j \in About(s) : j <= i
  /\ \A s \in Side :
       st.order[s].order_state \in {"INVALID", "DEAD"} => About(s) = {} /\ ~InBook(s) /\ ~NewSent(st, s)

\* An order that has not ended for the client is somewhere.
Places(st) ==
  \A s \in Side :
    /\ st.order[s].order_state \in {"LIVE", "PENDING_CANCEL"} => InBook(s) \/ Ending(s)
    /\ st.order[s].order_state = "PENDING_NEW" =>
         \/ NewSent(st, s)
         \/ (InBook(s) \/ Ending(s)) /\ \E i \in About(s) : responses[i].type = "ACCEPTED"
    /\ st.order[s].order_state = "PENDING_CANCEL" =>
         \/ Ending(s)
         \/ \E i \in DOMAIN st.requests :
              st.requests[i].type = "CANCEL" /\ st.requests[i].order_id = st.order[s].order_id

\* n is what the last fill of side s on the way leaves, or the slot's quantity if there is none.
IsRest(st, s, n) ==
  \/ Fills(s) = {} /\ n = st.order[s].qty
  \/ \E i \in Fills(s) : (\A j \in Fills(s) : j <= i) /\ n = responses[i].leaves_qty

\* Each fill starts where the one before it ended, the first at the slot's quantity.
Chain(st) ==
  \A s \in Side : \A j \in Fills(s) :
    /\ (\A i \in Fills(s) : j <= i) =>
         responses[j].exec_qty + responses[j].leaves_qty = st.order[s].qty
    /\ \A i \in Fills(s) :
         i < j /\ (\A k \in Fills(s) : k <= i \/ j <= k) =>
           responses[j].exec_qty + responses[j].leaves_qty = responses[i].leaves_qty

\* Amounts: rest is what the exchange has left of each slot's order.
Amounts(st, rest) ==
  /\ \A s \in Side : IsRest(st, s, rest[s]) /\ rest[s] <= st.order[s].qty
  /\ \A s \in Side : \A i \in Fills(s) : rest[s] <= responses[i].leaves_qty
  /\ \A o \in live : o.qty = rest[o.side]
  /\ executed = position + (st.order["BUY"].qty - rest["BUY"]) - (st.order["SELL"].qty - rest["SELL"])

\* The position with the whole of a slot's order filled is within the limit.
Limits(st) ==
  /\ position + st.order["BUY"].qty <= MaxPosition
  /\ position - st.order["SELL"].qty >= -MaxPosition

Good(st) ==
  /\ st \in States /\ Types
  /\ Ids(st) /\ Current(st) /\ Paths(st) /\ Places(st) /\ Chain(st) /\ Limits(st)
  /\ \E rest \in [Side -> Nat] : Amounts(st, rest)

Here == [order |-> order, next_order_id |-> next_order_id, requests |-> requests]

IInv == Good(Here)

-----------------------------------------------------------------------------
(* Sequences. *)

\* What Append does, index by index.
LEMMA AppendIs ==
  ASSUME NEW S, NEW q \in Seq(S), NEW e \in S
  PROVE  /\ Append(q, e) \in Seq(S)
         /\ DOMAIN Append(q, e) = DOMAIN q \cup {Len(q) + 1}
         /\ DOMAIN q = 1 .. Len(q) /\ Len(q) \in Nat
         /\ \A i \in DOMAIN q : Append(q, e)[i] = q[i]
         /\ Append(q, e)[Len(q) + 1] = e
  OBVIOUS

\* What Head and Tail do, index by index.
LEMMA TailIs ==
  ASSUME NEW S, NEW q \in Seq(S), q # <<>>
  PROVE  /\ Tail(q) \in Seq(S) /\ Head(q) \in S /\ Head(q) = q[1]
         /\ 1 \in DOMAIN q /\ DOMAIN q \subseteq Nat \ {0}
         /\ \A i \in Nat : i \in DOMAIN Tail(q) <=> i # 0 /\ i + 1 \in DOMAIN q
         /\ \A i \in DOMAIN Tail(q) : Tail(q)[i] = q[i + 1]
  OBVIOUS

-----------------------------------------------------------------------------
(* The trade engine's steps. *)

\* The fields of the trade engine's state have their types.
LEMMA FieldsOf ==
  ASSUME NEW st \in States
  PROVE  /\ st.next_order_id \in Nat \ {0} /\ st.requests \in Seq(Requests)
         /\ st.order \in [Side -> OMOrders]
         /\ \A t \in Side : /\ st.order[t].order_id \in Nat /\ st.order[t].price \in Nat
                             /\ st.order[t].qty \in Nat
         /\ \A i \in DOMAIN st.requests :
              /\ st.requests[i].side \in Side /\ st.requests[i].order_id \in Nat
              /\ st.requests[i].qty \in Nat /\ st.requests[i].type \in {"NEW", "CANCEL"}
<1>1. st.next_order_id \in Nat \ {0} /\ st.requests \in Seq(Requests) /\ st.order \in [Side -> OMOrders]
  BY DEF States
<1>2. \A i \in DOMAIN st.requests : st.requests[i] \in Requests
  BY <1>1
<1> QED
  BY Zenon, <1>1, <1>2 DEF OMOrders, Requests

\* newOrder on a free slot: the check made before it is what Limits needs, and a free slot has
\* nothing on either path that the new order could be confused with.
LEMMA NewOrderGood ==
  ASSUME NEW st, Good(st), NEW side \in Side, NEW price \in Nat,
         st.order[side].order_state \in {"INVALID", "DEAD"},
         Abs(position + sideToValue(side) * Clip) <= MaxPosition
  PROVE  Good(newOrder(st, side, price, Clip))
<1> DEFINE id == st.next_order_id
           r  == Request("NEW", id, side, price, Clip)
           new == newOrder(st, side, price, Clip)
<1>1. st \in States /\ Types /\ Clip \in Nat \ {0} /\ r \in Requests
  BY OrderManagerAssumption DEF Good, Request, Requests, States
<1>2. /\ new.order = [st.order EXCEPT ![side] = OMOrder(id, price, Clip, "PENDING_NEW")]
      /\ new.next_order_id = id + 1
      /\ new.requests = Append(st.requests, r)
  BY DEF newOrder
<1>3. new \in States
  BY <1>1, <1>2, AppendIs DEF newOrder, States, OMOrder, OMOrders
<1>4. /\ DOMAIN new.requests = DOMAIN st.requests \cup {Len(st.requests) + 1}
      /\ Len(st.requests) + 1 \notin DOMAIN st.requests
      /\ \A i \in DOMAIN st.requests : new.requests[i] = st.requests[i]
      /\ new.requests[Len(st.requests) + 1] = r
  BY <1>1, <1>2, AppendIs DEF States
<1>5. /\ new.order[side].order_id = id /\ new.order[side].qty = Clip
      /\ new.order[side].order_state = "PENDING_NEW"
      /\ \A t \in Side \ {side} : new.order[t] = st.order[t]
  BY <1>1, <1>2 DEF States, OMOrder
<1>a. r.type = "NEW" /\ r.order_id = id /\ r.side = side /\ r.qty = Clip
  BY DEF Request
<1> HIDE DEF new, r
<1>b. /\ id \in Nat \ {0}
      /\ \A t \in Side : /\ st.order[t].order_id \in Nat /\ st.order[t].qty \in Nat
                          /\ new.order[t].order_id \in Nat /\ new.order[t].qty \in Nat
      /\ \A i \in DOMAIN st.requests : /\ st.requests[i].order_id \in Nat /\ st.requests[i].side \in Side
      /\ \A o \in live : o.side \in Side
  BY <1>1, <1>3, FieldsOf DEF Types, BookOrders
<1> HIDE DEF id
<1>6. About(side) = {} /\ Fills(side) = {} /\ ~InBook(side) /\ ~NewSent(st, side)
  BY DEF Good, Paths, Fills
<1>7. Ids(new)
  <2>1. new.next_order_id = id + 1
    BY <1>2
  <2>2. \A i \in DOMAIN st.requests, s \in Side :
          /\ 0 < st.requests[i].order_id /\ st.requests[i].order_id < id
          /\ st.order[s].order_id = st.requests[i].order_id => s = st.requests[i].side
    BY DEF Good, Ids, id
  <2>3. \A i \in DOMAIN st.requests : st.requests[i].order_id \in Nat
    BY <1>b
  <2>4. \A s \in Side : st.order[s].order_id < id
    BY DEF Good, Ids, id
  <2>5. ASSUME NEW i \in DOMAIN new.requests, NEW s \in Side
        PROVE
          /\ 0 < new.requests[i].order_id /\ new.requests[i].order_id < new.next_order_id
          /\ new.order[s].order_id = new.requests[i].order_id => s = new.requests[i].side
    <3>1. CASE i \in DOMAIN st.requests
      BY <1>4, <1>5, <1>b, <2>1, <2>2, <2>3, <3>1
    <3>2. CASE i = Len(st.requests) + 1
      BY <1>4, <1>5, <1>a, <1>b, <2>1, <2>4, <3>2
    <3> QED
      BY <1>4, <3>1, <3>2
  <2> QED
    BY <1>5, <1>b, <2>1, <2>4, <2>5 DEF Good, Ids
<1>8. Current(new)
  <2>1. \A i \in DOMAIN new.requests :
          new.requests[i].type = "NEW" =>
            /\ new.requests[i].order_id = new.order[new.requests[i].side].order_id
            /\ new.requests[i].qty = new.order[new.requests[i].side].qty
            /\ new.requests[i].qty # 0
    <3>1. ASSUME NEW i \in DOMAIN st.requests, st.requests[i].type = "NEW"
          PROVE  st.requests[i].side \in Side \ {side}
      BY <1>6, <1>b, <3>1 DEF NewSent
    <3>2. Current(st)
      BY DEF Good
    <3> QED
      BY <1>1, <1>4, <1>5, <1>a, <3>1, <3>2 DEF Current
  <2>2. \A o \in live : o.order_id = new.order[o.side].order_id
    BY <1>5, <1>6, <1>b DEF Good, Current, InBook
  <2> QED
    BY <1>5, <1>6, <2>1, <2>2 DEF Good, Current
<1>9. \A t \in Side \ {side} : NewSent(new, t) <=> NewSent(st, t)
  BY <1>4, <1>a DEF NewSent
<1>10. NewSent(new, side)
  BY <1>4, <1>a DEF NewSent
<1>11. Paths(new)
  <2>1. ASSUME NEW i \in DOMAIN new.requests, NEW j \in DOMAIN new.requests,
               new.requests[i].type = "NEW", new.requests[j].type = "NEW",
               new.requests[i].side = new.requests[j].side
        PROVE  i = j
    BY <1>4, <1>6, <1>a, <2>1 DEF Good, Paths, NewSent
  <2> QED
    BY <1>5, <1>6, <1>9, <2>1 DEF Good, Paths
<1>12. Places(new)
  BY <1>4, <1>5, <1>9, <1>10 DEF Good, Places
<1>13. Chain(new)
  BY <1>5, <1>6 DEF Good, Chain
<1>14. Limits(new)
  <2>1. position \in Int /\ Clip \in Nat /\ MaxPosition \in Nat
    BY <1>1, OrderManagerAssumption DEF Types
  <2>2. CASE side = "BUY"
    <3>1. position + Clip <= MaxPosition
      BY <2>1, <2>2 DEF Abs, sideToValue
    <3> QED
      BY <1>5, <2>2, <3>1 DEF Good, Limits, Side
  <2>3. CASE side = "SELL"
    <3>1. position - Clip >= -MaxPosition
      BY <2>1, <2>3 DEF Abs, sideToValue
    <3> QED
      BY <1>5, <2>3, <3>1 DEF Good, Limits, Side
  <2> QED
    BY <2>2, <2>3 DEF Side
<1>15. \E rest \in [Side -> Nat] : Amounts(new, rest)
  <2>1. PICK rest \in [Side -> Nat] : Amounts(st, rest)
    BY DEF Good
  <2> DEFINE rest2 == [rest EXCEPT ![side] = Clip]
  <2>2. rest2 \in [Side -> Nat] /\ rest2[side] = Clip /\ \A t \in Side \ {side} : rest2[t] = rest[t]
    BY <1>1
  <2>3. rest[side] = st.order[side].qty
    BY <1>6, <2>1 DEF Amounts, IsRest
  <2>4. \A s \in Side : IsRest(new, s, rest2[s]) /\ rest2[s] <= new.order[s].qty
    BY <1>1, <1>5, <1>6, <2>1, <2>2 DEF Amounts, IsRest
  <2>5. \A s \in Side : \A i \in Fills(s) : rest2[s] <= responses[i].leaves_qty
    BY <1>6, <2>1, <2>2 DEF Amounts
  <2>6. \A o \in live : o.qty = rest2[o.side]
    BY <1>1, <1>6, <2>1, <2>2 DEF Amounts, InBook, Types, BookOrders
  <2>7. executed = position + (new.order["BUY"].qty - rest2["BUY"]) - (new.order["SELL"].qty - rest2["SELL"])
    <3>1. new.order[side].qty - rest2[side] = 0 /\ st.order[side].qty - rest[side] = 0
      BY <1>1, <1>5, <1>b, <2>2, <2>3
    <3>2. \A t \in Side \ {side} : new.order[t].qty - rest2[t] = st.order[t].qty - rest[t]
      BY <1>5, <2>2
    <3>3. executed = position + (st.order["BUY"].qty - rest["BUY"]) - (st.order["SELL"].qty - rest["SELL"])
      BY <2>1 DEF Amounts
    <3> QED
      BY <3>1, <3>2, <3>3 DEF Side
  <2> HIDE DEF rest2
  <2> QED
    BY <2>2, <2>4, <2>5, <2>6, <2>7 DEF Amounts
<1> QED
  BY <1>1, <1>3, <1>7, <1>8, <1>11, <1>12, <1>13, <1>14, <1>15 DEF Good, new

\* cancelOrder on a live slot: nothing moves but the state of the slot.
LEMMA CancelOrderGood ==
  ASSUME NEW st, Good(st), NEW side \in Side, st.order[side].order_state = "LIVE"
  PROVE  Good(cancelOrder(st, side))
<1> DEFINE o == st.order[side]
           r == Request("CANCEL", o.order_id, side, o.price, o.qty)
           new == cancelOrder(st, side)
<1>1. st \in States /\ Types /\ r \in Requests
  BY DEF Good, Request, Requests, States, OMOrders
<1>2. /\ new.order = [st.order EXCEPT ![side].order_state = "PENDING_CANCEL"]
      /\ new.next_order_id = st.next_order_id
      /\ new.requests = Append(st.requests, r)
  BY DEF cancelOrder
<1>3. new \in States
  <2>1. new.order \in [Side -> OMOrders]
    <3>1. [o EXCEPT !.order_state = "PENDING_CANCEL"] \in OMOrders
      BY <1>1, FieldsOf DEF OMOrders
    <3> QED
      BY <1>1, <1>2, <3>1, FieldsOf
  <2>2. new.requests \in Seq(Requests) /\ new.next_order_id \in Nat \ {0}
    BY <1>1, <1>2, FieldsOf, AppendIs
  <2> QED
    BY <2>1, <2>2 DEF cancelOrder, States
<1>4. /\ DOMAIN new.requests = DOMAIN st.requests \cup {Len(st.requests) + 1}
      /\ \A i \in DOMAIN st.requests : new.requests[i] = st.requests[i]
      /\ new.requests[Len(st.requests) + 1] = r
  BY <1>1, <1>2, AppendIs DEF States
<1>5. /\ new.order[side].order_state = "PENDING_CANCEL"
      /\ \A t \in Side \ {side} : new.order[t].order_state = st.order[t].order_state
      /\ \A t \in Side : new.order[t].order_id = st.order[t].order_id /\ new.order[t].qty = st.order[t].qty
  BY <1>1, <1>2 DEF States, OMOrders
<1>a. r.type = "CANCEL" /\ r.order_id = st.order[side].order_id /\ r.side = side
  BY DEF Request
<1> HIDE DEF new, r, o
<1>b. /\ st.next_order_id \in Nat
      /\ \A t \in Side : st.order[t].order_id \in Nat /\ st.order[t].qty \in Nat
      /\ \A i \in DOMAIN st.requests : st.requests[i].side \in Side
      /\ \A x \in live : x.side \in Side
  BY <1>1, FieldsOf DEF Types, BookOrders
<1>6. \A t \in Side : NewSent(new, t) <=> NewSent(st, t)
  BY <1>4, <1>a DEF NewSent
<1>7. Ids(new)
  <2>1. 0 < st.order[side].order_id /\ st.order[side].order_id < st.next_order_id
    BY DEF Good, Ids
  <2>2. \A s \in Side : st.order[s].order_id = st.order[side].order_id => s = side
    BY <1>b, <2>1 DEF Good, Ids
  <2>3. \A i \in DOMAIN new.requests, s \in Side :
          /\ 0 < new.requests[i].order_id /\ new.requests[i].order_id < st.next_order_id
          /\ new.order[s].order_id = new.requests[i].order_id => s = new.requests[i].side
    BY <1>4, <1>5, <1>a, <2>1, <2>2 DEF Good, Ids
  <2> QED
    BY <1>2, <1>5, <2>1, <2>3 DEF Good, Ids
<1>8. Current(new)
  <2>1. Current(st)
    BY DEF Good
  <2>2. \A i \in DOMAIN new.requests :
          new.requests[i].type = "NEW" => i \in DOMAIN st.requests /\ new.requests[i] = st.requests[i]
    BY <1>4, <1>a
  <2> QED
    BY <1>5, <1>b, <2>1, <2>2 DEF Current
<1>9. Paths(new)
  <2>1. ASSUME NEW i \in DOMAIN new.requests, NEW j \in DOMAIN new.requests,
               new.requests[i].type = "NEW", new.requests[j].type = "NEW",
               new.requests[i].side = new.requests[j].side
        PROVE  i = j
    BY <1>4, <1>a, <2>1 DEF Good, Paths
  <2> QED
    BY <1>5, <1>6, <2>1 DEF Good, Paths
<1>10. Places(new)
  <2>1. \A t \in Side : new.order[t].order_state = "PENDING_CANCEL" =>
          \/ Ending(t)
          \/ \E i \in DOMAIN new.requests :
               new.requests[i].type = "CANCEL" /\ new.requests[i].order_id = new.order[t].order_id
    BY <1>4, <1>5, <1>a DEF Good, Places
  <2> QED
    BY <1>5, <1>6, <2>1 DEF Good, Places
<1>11. Chain(new) /\ Limits(new)
  BY <1>5 DEF Good, Chain, Limits, Side
<1>12. \A rest \in [Side -> Nat] : Amounts(st, rest) => Amounts(new, rest)
  BY <1>5 DEF Amounts, IsRest, Side
<1> QED
  BY <1>1, <1>3, <1>7, <1>8, <1>9, <1>10, <1>11, <1>12 DEF Good, new

\* moveOrder cancels, replaces or leaves the slot; in each case the invariant stays.
LEMMA MoveOrderGood ==
  ASSUME NEW st, Good(st), NEW side \in Side, NEW price \in Nat, NEW pnl_ok \in BOOLEAN
  PROVE  Good(moveOrder(st, side, price, Clip, pnl_ok))
<1>1. CASE st.order[side].order_state = "LIVE" /\ st.order[side].price # price
  BY <1>1, CancelOrderGood DEF moveOrder
<1>2. CASE /\ st.order[side].order_state \in {"INVALID", "DEAD"} /\ price # Invalid
           /\ checkPreTradeRisk(side, Clip, pnl_ok)
  <2>1. Abs(position + sideToValue(side) * Clip) <= MaxPosition
    BY <1>2 DEF checkPreTradeRisk
  <2>2. Good(newOrder(st, side, price, Clip))
    BY <1>2, <2>1, NewOrderGood
  <2>3. moveOrder(st, side, price, Clip, pnl_ok) = newOrder(st, side, price, Clip)
    BY <1>2 DEF moveOrder
  <2> QED
    BY <2>2, <2>3
<1>3. CASE /\ ~(st.order[side].order_state = "LIVE" /\ st.order[side].price # price)
           /\ ~(/\ st.order[side].order_state \in {"INVALID", "DEAD"} /\ price # Invalid
                /\ checkPreTradeRisk(side, Clip, pnl_ok))
  <2>1. moveOrder(st, side, price, Clip, pnl_ok) = st
    BY <1>3 DEF moveOrder
  <2> QED
    BY <2>1
<1> QED
  BY <1>1, <1>2, <1>3

\* Nothing the invariant says of a state of the trade engine depends on anything but these variables.
LEMMA GoodKept ==
  ASSUME NEW st, Good(st), UNCHANGED <<responses, live, position, executed>>
  PROVE  Good(st)'
<1>1. /\ Types' <=> Types
      /\ Ids(st)' <=> Ids(st)
      /\ Limits(st)' <=> Limits(st)
  BY DEF Types, Ids, Limits
<1>2. Current(st)' <=> Current(st)
  BY DEF Current, About
<1>3. Paths(st)' <=> Paths(st)
  BY DEF Paths, About, InBook, NewSent
<1>4. Places(st)' <=> Places(st)
  BY DEF Places, About, InBook, Ending, NewSent
<1>5. Chain(st)' <=> Chain(st)
  BY DEF Chain, Fills, About
<1>6. \A rest \in [Side -> Nat] : Amounts(st, rest)' <=> Amounts(st, rest)
  BY DEF Amounts, IsRest, Fills, About
<1> QED
  BY <1>1, <1>2, <1>3, <1>4, <1>5, <1>6 DEF Good

\* The strategy moves the buying slot, then the selling one.
LEMMA StrategyStep == ASSUME IInv, Strategy PROVE IInv'
<1>1. PICK bid \in Price \cup {Invalid}, ask \in Price \cup {Invalid}, pnl_ok \in BOOLEAN :
        moveOrders(bid, ask, pnl_ok)
  BY DEF Strategy
<1>2. bid \in Nat /\ ask \in Nat
  BY OrderManagerAssumption DEF Invalid
<1> DEFINE bought == moveOrder(Here, "BUY", bid, Clip, pnl_ok)
           moved == moveOrder(bought, "SELL", ask, Clip, pnl_ok)
<1>3. Good(bought)
  BY <1>2, MoveOrderGood DEF IInv, Side
<1> HIDE DEF bought
<1>4. Good(moved)
  BY <1>2, <1>3, MoveOrderGood DEF Side
<1>5. /\ order' = moved.order /\ next_order_id' = moved.next_order_id /\ requests' = moved.requests
      /\ UNCHANGED <<position, responses, live, executed>>
  BY <1>1 DEF moveOrders, moved, bought, Here
<1> HIDE DEF moved
<1>6. PICK st \in States : st = moved
  BY <1>4 DEF Good
<1>7. Here' = st
  <2>1. st = [order |-> st.order, next_order_id |-> st.next_order_id, requests |-> st.requests]
    BY DEF States
  <2> QED
    BY <1>5, <1>6, <2>1 DEF Here
<1>8. Good(st)'
  <2>1. Good(st)
    BY <1>4, <1>6
  <2> QED
    BY <1>5, <2>1, GoodKept
<1> QED
  BY <1>7, <1>8 DEF IInv

\* The record of the trade engine's state is made of its variables.
LEMMA HereIs ==
  /\ Here.order = order /\ Here.next_order_id = next_order_id /\ Here.requests = requests
  /\ Here'.order = order' /\ Here'.next_order_id = next_order_id' /\ Here'.requests = requests'
  BY DEF Here

\* Taking the first response: the others move one place down.
LEMMA ResponsesShift ==
  ASSUME Types, responses # <<>>, responses' = Tail(responses)
  PROVE  /\ Head(responses) \in Responses /\ Head(responses) = responses[1]
         /\ responses' \in Seq(Responses)
         /\ \A t \in Side :
              /\ \A i \in About(t)' : i \in Nat /\ i + 1 \in About(t) /\ responses'[i] = responses[i + 1]
              /\ \A i \in About(t) : /\ i \in Nat /\ i >= 1
                                     /\ i # 1 => i - 1 \in About(t)' /\ responses'[i - 1] = responses[i]
              /\ \A i \in Fills(t)' : i \in Nat /\ i + 1 \in Fills(t) /\ responses'[i] = responses[i + 1]
              /\ \A i \in Fills(t) : /\ i \in Nat /\ i >= 1
                                     /\ i # 1 => i - 1 \in Fills(t)' /\ responses'[i - 1] = responses[i]
              /\ 1 \in About(t) <=> Head(responses).side = t
              /\ 1 \in Fills(t) <=> Head(responses).side = t /\ Head(responses).type = "FILLED"
<1>1. /\ responses' \in Seq(Responses) /\ Head(responses) \in Responses /\ Head(responses) = responses[1]
      /\ 1 \in DOMAIN responses /\ DOMAIN responses \subseteq Nat \ {0}
      /\ \A i \in Nat : i \in DOMAIN responses' <=> i # 0 /\ i + 1 \in DOMAIN responses
      /\ \A i \in DOMAIN responses' : responses'[i] = responses[i + 1]
      /\ DOMAIN responses' \subseteq Nat
  BY TailIs DEF Types
<1>2. ASSUME NEW t \in Side
      PROVE  /\ \A i \in About(t)' : i \in Nat /\ i + 1 \in About(t) /\ responses'[i] = responses[i + 1]
             /\ \A i \in About(t) : /\ i \in Nat /\ i >= 1
                                    /\ i # 1 => i - 1 \in About(t)' /\ responses'[i - 1] = responses[i]
  <2>1. ASSUME NEW i \in About(t), i # 1
        PROVE  i - 1 \in About(t)' /\ responses'[i - 1] = responses[i]
    <3>1. i \in DOMAIN responses /\ i \in Nat /\ i - 1 \in Nat /\ i - 1 # 0 /\ (i - 1) + 1 = i
      BY <1>1, <2>1 DEF About
    <3>2. i - 1 \in DOMAIN responses' /\ responses'[i - 1] = responses[i]
      BY Zenon, <1>1, <3>1
    <3> QED
      BY <3>2 DEF About
  <2> QED
    BY <1>1, <2>1 DEF About
<1>3. \A t \in Side : /\ 1 \in About(t) <=> Head(responses).side = t
                      /\ 1 \in Fills(t) <=> Head(responses).side = t /\ Head(responses).type = "FILLED"
  BY <1>1 DEF About, Fills
<1> QED
  BY Zenon, <1>1, <1>2, <1>3 DEF Fills

(***************************************************************************)
(* onOrderUpdate, which looks at the side of the response only: it is      *)
(* about the order in the slot, and if it ends the order it was the last.  *)
(***************************************************************************)
LEMMA ResponseStep == ASSUME IInv, onOrderUpdate PROVE IInv'
<1>1. /\ Here \in States /\ Types
      /\ Ids(Here) /\ Current(Here) /\ Paths(Here) /\ Places(Here) /\ Chain(Here) /\ Limits(Here)
  BY DEF IInv, Good
<1>a. responses # <<>> /\ responses' = Tail(responses)
  BY DEF onOrderUpdate
<1>b. PICK r \in Responses : r = Head(responses)
  BY <1>1, <1>a, ResponsesShift
<1> DEFINE s == r.side
           ends == Final(r)
<1>2. /\ responses # <<>> /\ responses' = Tail(responses)
      /\ UNCHANGED <<next_order_id, requests, live, executed>>
      /\ position' = IF r.type = "FILLED" THEN position + r.exec_qty * sideToValue(s) ELSE position
      /\ order' = IF r.type = "CANCEL_REJECTED" THEN order ELSE [order EXCEPT ![s] = Updated(@, r)]
  BY <1>b DEF onOrderUpdate
<1>3. order \in [Side -> OMOrders] /\ \A t \in Side : order[t].qty \in Nat
  BY <1>1, FieldsOf, HereIs
<1>4. /\ r = responses[1]
      /\ r.exec_qty \in Nat /\ r.leaves_qty \in Nat
      /\ r.type = "CANCEL_REJECTED" => s \notin Side
      /\ r.type # "CANCEL_REJECTED" => s \in Side /\ r.type \in {"ACCEPTED", "CANCELED", "FILLED"}
  BY <1>1, <1>a, <1>b, ResponsesShift DEF Responses, Side
<1>5. order' \in [Side -> OMOrders]
  <2>1. CASE r.type = "CANCEL_REJECTED"
    BY <1>2, <1>3, <2>1
  <2>2. CASE r.type # "CANCEL_REJECTED"
    <3>1. Updated(order[s], r) \in OMOrders
      BY Zenon, <1>3, <1>4, <2>2 DEF Updated, OMOrders
    <3> QED
      BY Zenon, <1>2, <1>3, <2>2, <3>1
  <2> QED
    BY <2>1, <2>2
<1>6. /\ \A t \in Side : t # s => order'[t] = order[t]
      /\ \A t \in Side : order'[t].order_id = order[t].order_id
      /\ s \in Side => /\ order'[s].qty = IF r.type = "FILLED" THEN r.leaves_qty ELSE order[s].qty
                       /\ order'[s].order_state = IF ends THEN "DEAD"
                                                 ELSE IF r.type = "ACCEPTED" THEN "LIVE"
                                                 ELSE order[s].order_state
  BY <1>2, <1>3, <1>4 DEF Updated, OMOrders, Final
<1>7. \A t \in Side :
        /\ \A i \in About(t)' : i \in Nat /\ i + 1 \in About(t) /\ responses'[i] = responses[i + 1]
        /\ \A i \in About(t) : /\ i \in Nat /\ i >= 1
                               /\ i # 1 => i - 1 \in About(t)' /\ responses'[i - 1] = responses[i]
        /\ \A i \in Fills(t)' : i \in Nat /\ i + 1 \in Fills(t) /\ responses'[i] = responses[i + 1]
        /\ \A i \in Fills(t) : /\ i \in Nat /\ i >= 1
                               /\ i # 1 => i - 1 \in Fills(t)' /\ responses'[i - 1] = responses[i]
        /\ 1 \in About(t) <=> s = t
        /\ 1 \in Fills(t) <=> s = t /\ r.type = "FILLED"
  BY Zenon, <1>1, <1>a, <1>b, ResponsesShift
<1>8. /\ \A t \in Side : InBook(t)' <=> InBook(t)
      /\ \A t \in Side : NewSent(Here, t)' <=> NewSent(Here, t)
  BY <1>2, HereIs DEF InBook, NewSent
<1>9. s \in Side => /\ ~NewSent(Here, s) /\ order[s].order_state \notin {"INVALID", "DEAD"}
                    /\ ends => About(s)' = {} /\ ~InBook(s)
  <2> SUFFICES ASSUME s \in Side
               PROVE  /\ ~NewSent(Here, s) /\ order[s].order_state \notin {"INVALID", "DEAD"}
                      /\ ends => About(s)' = {} /\ ~InBook(s)
    OBVIOUS
  <2>1. 1 \in About(s)
    BY <1>7
  <2>2. ASSUME ends PROVE About(s)' = {} /\ ~InBook(s)
    <3>1. ~InBook(s) /\ \A j \in About(s) : j <= 1
      BY <1>1, <1>4, <2>1, <2>2 DEF Paths
    <3>2. ASSUME NEW i \in About(s)' PROVE FALSE
      <4>1. i \in Nat /\ i + 1 \in About(s) /\ i + 1 <= 1
        BY <1>7, <3>1, <3>2
      <4>2. i \in About(s)' => i \in DOMAIN responses'
        BY DEF About
      <4>3. responses' \in Seq(Responses)
        BY <1>1, <1>2, ResponsesShift
      <4> QED
        BY <3>2, <4>1, <4>2, <4>3
    <3> QED
      BY <3>1, <3>2
  <2> QED
    BY <1>1, <2>1, <2>2, HereIs DEF Paths
<1> HIDE DEF s, ends
<1>10. Here' \in States /\ Types'
  <2>1. Here' \in States
    BY <1>1, <1>2, <1>5 DEF Here, States
  <2>2. position' \in Int
    BY <1>1, <1>2, <1>4 DEF Types, sideToValue
  <2> QED
    BY <1>1, <1>2, <2>1, <2>2, ResponsesShift DEF Types
<1>11. Ids(Here)'
  <2>1. \A t \in Side : order'[t].order_state # "INVALID" => order[t].order_state # "INVALID"
    BY <1>6, <1>9
  <2> QED
    BY <1>1, <1>2, <1>6, <2>1, HereIs DEF Ids
<1>12. Current(Here)'
  <2>1. \A t \in Side : \A i \in About(t)' : responses'[i].order_id = order'[t].order_id
    BY <1>1, <1>6, <1>7, HereIs DEF Current
  <2>2. \A o \in live' : o.order_id = order'[o.side].order_id
    BY <1>1, <1>2, <1>6, HereIs DEF Current, Types, BookOrders
  <2>3. \A i \in DOMAIN requests' :
          requests'[i].type = "NEW" =>
            /\ requests'[i].order_id = order'[requests'[i].side].order_id
            /\ requests'[i].qty = order'[requests'[i].side].qty
            /\ requests'[i].qty # 0
    <3>1. ASSUME NEW i \in DOMAIN requests, requests[i].type = "NEW"
          PROVE  requests[i].side \in Side /\ requests[i].side # s
      BY <1>1, <1>9, <3>1, HereIs, FieldsOf DEF NewSent
    <3> QED
      BY <1>1, <1>2, <1>6, <3>1, HereIs DEF Current
  <2> QED
    BY <2>1, <2>2, <2>3, HereIs DEF Current
<1>13. Paths(Here)'
  <2>1. \A t \in Side : About(t) = {} => About(t)' = {}
    BY <1>7
  <2>2. \A t \in Side : NewSent(Here, t)' => About(t)' = {} /\ ~InBook(t)'
    BY <1>1, <1>8, <2>1 DEF Paths
  <2>3. ASSUME NEW t \in Side, NEW i \in About(t)', Final(responses'[i])
        PROVE  ~InBook(t)' /\ \A j \in About(t)' : j <= i
    <3>1. i \in Nat /\ i + 1 \in About(t) /\ Final(responses[i + 1])
      BY <1>7, <2>3
    <3>2. ~InBook(t) /\ \A j \in About(t) : j <= i + 1
      BY <1>1, <3>1 DEF Paths
    <3>3. ASSUME NEW j \in About(t)' PROVE j <= i
      <4>1. j \in Nat /\ j + 1 \in About(t) /\ j + 1 <= i + 1
        BY <1>7, <3>2, <3>3
      <4> QED
        BY <3>1, <4>1
    <3> QED
      BY <1>8, <3>2, <3>3
  <2>4. ASSUME NEW t \in Side, order'[t].order_state \in {"INVALID", "DEAD"}
        PROVE  About(t)' = {} /\ ~InBook(t)' /\ ~NewSent(Here, t)'
    <3>1. CASE t = s
      BY <1>6, <1>8, <1>9, <2>4, <3>1
    <3>2. CASE t # s
      BY <1>1, <1>6, <1>8, <2>1, <2>4, <3>2, HereIs DEF Paths
    <3> QED
      BY <3>1, <3>2
  <2> QED
    BY Zenon, <1>1, <1>2, <2>2, <2>3, <2>4, HereIs DEF Paths
<1>14. Places(Here)'
  <2>a. \A t \in Side :
          /\ order[t].order_state \in {"LIVE", "PENDING_CANCEL"} => InBook(t) \/ Ending(t)
          /\ order[t].order_state = "PENDING_NEW" =>
               \/ NewSent(Here, t)
               \/ (InBook(t) \/ Ending(t)) /\ \E i \in About(t) : responses[i].type = "ACCEPTED"
          /\ order[t].order_state = "PENDING_CANCEL" =>
               \/ Ending(t)
               \/ \E i \in DOMAIN requests :
                    requests[i].type = "CANCEL" /\ requests[i].order_id = order[t].order_id
    BY <1>1, HereIs DEF Places
  <2>1. ASSUME NEW t \in Side, t # s \/ ~ends, Ending(t) PROVE Ending(t)'
    <3>1. PICK i \in About(t) : Final(responses[i])
      BY <2>1 DEF Ending
    <3>2. i # 1
      BY <1>4, <1>7, <2>1, <3>1 DEF ends
    <3> QED
      BY <1>7, <3>1, <3>2 DEF Ending
  <2>2. ASSUME NEW t \in Side, t # s \/ r.type # "ACCEPTED",
               \E i \in About(t) : responses[i].type = "ACCEPTED"
        PROVE  \E i \in About(t)' : responses'[i].type = "ACCEPTED"
    <3>1. PICK i \in About(t) : responses[i].type = "ACCEPTED"
      BY <2>2
    <3>2. i # 1
      BY <1>4, <1>7, <2>2, <3>1
    <3> QED
      BY <1>7, <3>1, <3>2
  <2>3. ASSUME NEW t \in Side, t # s
        PROVE  /\ order'[t].order_state \in {"LIVE", "PENDING_CANCEL"} => InBook(t)' \/ Ending(t)'
               /\ order'[t].order_state = "PENDING_NEW" =>
                    \/ NewSent(Here, t)'
                    \/ (InBook(t)' \/ Ending(t)') /\ \E i \in About(t)' : responses'[i].type = "ACCEPTED"
               /\ order'[t].order_state = "PENDING_CANCEL" =>
                    \/ Ending(t)'
                    \/ \E i \in DOMAIN requests' :
                         requests'[i].type = "CANCEL" /\ requests'[i].order_id = order'[t].order_id
    <3>1. order'[t] = order[t] /\ requests' = requests
      BY <1>2, <1>6, <2>3
    <3>2. Ending(t) => Ending(t)'
      BY <2>1, <2>3
    <3>3. (\E i \in About(t) : responses[i].type = "ACCEPTED") => \E i \in About(t)' : responses'[i].type = "ACCEPTED"
      BY <2>2, <2>3
    <3> QED
      BY <1>8, <2>a, <3>1, <3>2, <3>3
  <2>4. ASSUME s \in Side, ~ends
        PROVE  /\ order'[s].order_state \in {"LIVE", "PENDING_CANCEL"} => InBook(s)' \/ Ending(s)'
               /\ order'[s].order_state = "PENDING_NEW" =>
                    \/ NewSent(Here, s)'
                    \/ (InBook(s)' \/ Ending(s)') /\ \E i \in About(s)' : responses'[i].type = "ACCEPTED"
               /\ order'[s].order_state = "PENDING_CANCEL" =>
                    \/ Ending(s)'
                    \/ \E i \in DOMAIN requests' :
                         requests'[i].type = "CANCEL" /\ requests'[i].order_id = order'[s].order_id
    <3>1. order[s].order_state \in {"LIVE", "PENDING_CANCEL", "PENDING_NEW"}
      BY <1>3, <1>9, <2>4 DEF OMOrders
    <3>2. InBook(s) \/ Ending(s)
      BY <1>9, <2>a, <2>4, <3>1
    <3>3. InBook(s)' \/ Ending(s)'
      BY <1>8, <2>1, <2>4, <3>2
    <3> QED
      <4>1. order'[s].order_state = "PENDING_CANCEL" =>
              \/ Ending(s)'
              \/ \E i \in DOMAIN requests' :
                   requests'[i].type = "CANCEL" /\ requests'[i].order_id = order'[s].order_id
        BY <1>2, <1>6, <2>a, <2>1, <2>4
      <4>2. ASSUME order'[s].order_state = "PENDING_NEW"
            PROVE  \E i \in About(s)' : responses'[i].type = "ACCEPTED"
        <5>1. r.type # "ACCEPTED" /\ order[s].order_state = "PENDING_NEW"
          BY <1>6, <2>4, <4>2
        <5> QED
          BY <1>9, <2>a, <2>2, <2>4, <5>1
      <4> QED
        BY <3>3, <4>1, <4>2
  <2> QED
    BY <1>6, <2>3, <2>4, HereIs DEF Places
<1>c. 0 \notin DOMAIN responses'
  BY <1>1, <1>a, ResponsesShift
<1>15. s \in Side /\ r.type = "FILLED" => r.exec_qty + r.leaves_qty = order[s].qty
  BY <1>1, <1>4, <1>7, HereIs DEF Chain
<1>16. Chain(Here)'
  <2>a. \A t \in Side : \A j \in Fills(t) :
          /\ (\A i \in Fills(t) : j <= i) =>
               responses[j].exec_qty + responses[j].leaves_qty = order[t].qty
          /\ \A i \in Fills(t) :
               i < j /\ (\A k \in Fills(t) : k <= i \/ j <= k) =>
                 responses[j].exec_qty + responses[j].leaves_qty = responses[i].leaves_qty
    BY <1>1, HereIs DEF Chain
  <2>b. \A t \in Side : 0 \notin Fills(t)'
    BY <1>c DEF Fills, About
  <2>1. ASSUME NEW t \in Side, NEW j \in Fills(t)', \A i \in Fills(t)' : j <= i
        PROVE  responses'[j].exec_qty + responses'[j].leaves_qty = order'[t].qty
    <3>1. j \in Nat /\ j + 1 \in Fills(t) /\ responses'[j] = responses[j + 1]
      BY <1>7, <2>1
    <3>2. ASSUME NEW k \in Fills(t), k # 1 PROVE j + 1 <= k
      <4>1. k \in Nat /\ k - 1 \in Fills(t)'
        BY <1>7, <3>2
      <4>2. j <= k - 1
        BY <2>1, <4>1
      <4> QED
        BY <3>1, <4>1, <4>2
    <3>3. CASE 1 \in Fills(t)
      <4>1. t = s /\ r.type = "FILLED" /\ order'[t].qty = responses[1].leaves_qty
        BY <1>4, <1>6, <1>7, <3>3
      <4>2. 1 < j + 1
        BY <1>7, <2>b, <2>1, <3>1
      <4> QED
        BY <2>a, <3>1, <3>2, <3>3, <4>1, <4>2
    <3>4. CASE 1 \notin Fills(t)
      <4>1. order'[t].qty = order[t].qty
        BY <1>6, <1>7, <3>4
      <4> QED
        BY <2>a, <3>1, <3>2, <3>4, <4>1
    <3> QED
      BY <3>3, <3>4
  <2>2. ASSUME NEW t \in Side, NEW j \in Fills(t)', NEW i \in Fills(t)', i < j,
               \A k \in Fills(t)' : k <= i \/ j <= k
        PROVE  responses'[j].exec_qty + responses'[j].leaves_qty = responses'[i].leaves_qty
    <3>1. /\ j \in Nat /\ j + 1 \in Fills(t) /\ responses'[j] = responses[j + 1]
          /\ i \in Nat /\ i + 1 \in Fills(t) /\ responses'[i] = responses[i + 1]
      BY <1>7, <2>2
    <3>2. ASSUME NEW k \in Fills(t) PROVE k <= i + 1 \/ j + 1 <= k
      <4>1. CASE k = 1
        BY <3>1, <4>1
      <4>2. CASE k # 1
        <5>1. k \in Nat /\ k - 1 \in Fills(t)'
          BY <1>7, <3>2, <4>2
        <5>2. k - 1 <= i \/ j <= k - 1
          BY <2>2, <5>1
        <5> QED
          BY <3>1, <5>1, <5>2
      <4> QED
        BY <4>1, <4>2
    <3>3. i + 1 < j + 1
      BY <2>2, <3>1
    <3> QED
      BY <2>a, <3>1, <3>2, <3>3
  <2> QED
    BY <2>1, <2>2, HereIs DEF Chain
<1>17. position' = IF s \in Side /\ r.type = "FILLED"
                   THEN IF s = "BUY" THEN position + r.exec_qty ELSE position - r.exec_qty
                   ELSE position
  BY <1>1, <1>2, <1>4 DEF s, Side, sideToValue, Types
<1>18. \A t \in Side : order'[t].qty = IF t = s /\ r.type = "FILLED" THEN order[t].qty - r.exec_qty ELSE order[t].qty
  BY <1>3, <1>4, <1>6, <1>15
<1>19. Limits(Here)'
  <2>1. /\ position' = (IF s \in Side /\ r.type = "FILLED"
                        THEN IF s = "BUY" THEN position + r.exec_qty ELSE position - r.exec_qty
                        ELSE position)
        /\ order'["BUY"].qty = IF s = "BUY" /\ r.type = "FILLED" THEN order["BUY"].qty - r.exec_qty ELSE order["BUY"].qty
        /\ order'["SELL"].qty = IF s = "SELL" /\ r.type = "FILLED" THEN order["SELL"].qty - r.exec_qty ELSE order["SELL"].qty
    BY <1>17, <1>18 DEF Side
  <2>2. /\ position + order["BUY"].qty <= MaxPosition /\ position - order["SELL"].qty >= -MaxPosition
        /\ order["BUY"].qty \in Nat /\ order["SELL"].qty \in Nat
    BY <1>1, <1>3, HereIs DEF Limits, Side
  <2>3. position \in Int /\ r.exec_qty \in Nat /\ MaxPosition \in Nat
    BY <1>1, <1>4, OrderManagerAssumption DEF Types
  <2>4. position' + order'["BUY"].qty <= MaxPosition
    BY <2>1, <2>2, <2>3 DEF Side
  <2>5. position' - order'["SELL"].qty >= -MaxPosition
    BY <2>1, <2>2, <2>3 DEF Side
  <2> QED
    BY <2>4, <2>5, HereIs DEF Limits
<1>20. \E rest \in [Side -> Nat] : Amounts(Here, rest)'
  <2>1. PICK rest \in [Side -> Nat] : Amounts(Here, rest)
    BY DEF IInv, Good
  <2>2. executed' = position' + (order'["BUY"].qty - rest["BUY"]) - (order'["SELL"].qty - rest["SELL"])
    <3>1. executed = position + (order["BUY"].qty - rest["BUY"]) - (order["SELL"].qty - rest["SELL"])
      BY <2>1, HereIs DEF Amounts
    <3>2. /\ order["BUY"].qty \in Nat /\ order["SELL"].qty \in Nat /\ rest["BUY"] \in Nat /\ rest["SELL"] \in Nat
          /\ position \in Int /\ executed' = executed
      BY <1>1, <1>2, <1>3 DEF Side, Types
    <3>3. CASE s = "BUY" /\ r.type = "FILLED"
      <4>1. /\ position' = position + r.exec_qty
            /\ order'["BUY"].qty = order["BUY"].qty - r.exec_qty /\ order'["SELL"].qty = order["SELL"].qty
        BY <1>17, <1>18, <3>3 DEF Side
      <4> QED
        BY <1>4, <3>1, <3>2, <4>1
    <3>4. CASE s = "SELL" /\ r.type = "FILLED"
      <4>1. /\ position' = position - r.exec_qty
            /\ order'["SELL"].qty = order["SELL"].qty - r.exec_qty /\ order'["BUY"].qty = order["BUY"].qty
        BY <1>17, <1>18, <3>4 DEF Side
      <4> QED
        BY <1>4, <3>1, <3>2, <4>1
    <3>5. CASE ~(s \in Side /\ r.type = "FILLED")
      <4>1. position' = position /\ \A t \in Side : order'[t].qty = order[t].qty
        BY <1>17, <1>18, <3>5
      <4> QED
        BY <3>1, <3>2, <4>1 DEF Side
    <3> QED
      BY <3>3, <3>4, <3>5 DEF Side
  <2>3. \A t \in Side : \A i \in Fills(t)' : rest[t] <= responses'[i].leaves_qty
    BY <1>7, <2>1 DEF Amounts
  <2>4. \A o \in live' : o.qty = rest[o.side]
    BY <1>2, <2>1 DEF Amounts
  <2>5. ASSUME NEW t \in Side PROVE IsRest(Here, t, rest[t])' /\ rest[t] <= order'[t].qty
    <3>1. IsRest(Here, t, rest[t]) /\ rest[t] <= order[t].qty
      BY <2>1, HereIs DEF Amounts
    <3>2. rest[t] <= order'[t].qty
      BY <1>4, <1>6, <1>7, <2>1, <3>1 DEF Amounts
    <3>3. CASE Fills(t) = {} /\ rest[t] = order[t].qty
      BY <1>6, <1>7, <3>2, <3>3, HereIs DEF IsRest
    <3>4. CASE \E i \in Fills(t) : (\A j \in Fills(t) : j <= i) /\ rest[t] = responses[i].leaves_qty
      <4>1. PICK i \in Fills(t) : (\A j \in Fills(t) : j <= i) /\ rest[t] = responses[i].leaves_qty
        BY <3>4
      <4>2. ASSUME NEW j \in Fills(t)' PROVE j <= i - 1
        <5>1. j \in Nat /\ j + 1 \in Fills(t) /\ j + 1 <= i /\ i \in Nat
          BY <1>7, <4>1, <4>2
        <5> QED
          BY <5>1
      <4>3. CASE i = 1
        <5>1. Fills(t)' = {}
          BY <1>7, <1>c, <4>2, <4>3 DEF Fills, About
        <5> QED
          BY <1>4, <1>6, <1>7, <3>2, <4>1, <4>3, <5>1, HereIs DEF IsRest
      <4>4. CASE i # 1
        BY <1>7, <3>2, <4>1, <4>2, <4>4, HereIs DEF IsRest
      <4> QED
        BY <4>3, <4>4
    <3> QED
      BY <3>1, <3>3, <3>4, HereIs DEF IsRest
  <2> QED
    BY <2>2, <2>3, <2>4, <2>5, HereIs DEF Amounts
<1> QED
  BY <1>10, <1>11, <1>12, <1>13, <1>14, <1>16, <1>19, <1>20 DEF IInv, Good

=============================================================================
