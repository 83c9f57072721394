---------------------------- MODULE MarketUpdates ----------------------------
(***************************************************************************)
(* Market updates as the matching engine produces them, the numbered form  *)
(* that goes over the network, and what an update does to a set of live    *)
(* orders.                                                                 *)
(***************************************************************************)
EXTENDS Integers, Sequences, FiniteSetsExt, TLC

CONSTANTS
  NumTickers,  \* ME_MAX_TICKERS
  Qty          \* quantities of an order

Ticker == 1 .. NumTickers

\* An order of a snapshot, by the fields an update can change or is looked up by.
Order == [ticker_id : Ticker, order_id : Nat, qty : Qty]

\* OrderId_INVALID, TickerId_INVALID and Qty_INVALID.
Invalid == 0

MEMarketUpdate(type, ticker_id, order_id, qty) ==
  [type |-> type, ticker_id |-> ticker_id, order_id |-> order_id, qty |-> qty]

MDPMarketUpdate(seq_num, update) == [seq_num |-> seq_num, update |-> update]

OrderOf(u) == [ticker_id |-> u.ticker_id, order_id |-> u.order_id, qty |-> u.qty]

SameOrder(o, u) == o.ticker_id = u.ticker_id /\ o.order_id = u.order_id

Without(orders, u) == {o \in orders : ~SameOrder(o, u)}

\* The orders left by an update of any type.
Apply(orders, u) ==
  CASE u.type = "ADD"    -> orders \cup {OrderOf(u)}
    [] u.type = "MODIFY" -> Without(orders, u) \cup {OrderOf(u)}
    [] u.type = "CANCEL" -> Without(orders, u)
    [] u.type = "CLEAR"  -> {o \in orders : o.ticker_id # u.ticker_id}
    [] OTHER             -> orders

ApplyAll(orders, us) ==
  LET after[n \in 0 .. Len(us)] == IF n = 0 THEN orders ELSE Apply(after[n - 1], us[n])
  IN  after[Len(us)]

\* The elements of S, least key first.
Ascending(S, key(_)) ==
  [n \in 1 .. Cardinality(S) |-> CHOOSE x \in S : Cardinality({y \in S : key(y) < key(x)}) = n - 1]

=============================================================================
