----------------------------- MODULE PriceLevels -----------------------------
(***************************************************************************)
(* What one side of an order book promises of its price levels: a set of   *)
(* prices with the best one at hand.  MEOrderBook is written against this  *)
(* (its IsBest), PriceLevelRing implements it.                             *)
(***************************************************************************)
EXTENDS Integers

CONSTANT Price

\* A null MEOrdersAtPrice pointer.
Nil == -1

VARIABLES
  side,    \* the side this list belongs to
  levels,  \* prices of the levels in use
  best     \* bids_by_price_ or asks_by_price_

vars == <<side, levels, best>>

Better(p, q) == IF side = "BUY" THEN p > q ELSE p < q

IsBestOf(p, S) == p \in S /\ \A q \in S \ {p} : Better(p, q)

Init == side \in {"BUY", "SELL"} /\ levels = {} /\ best = Nil

Add(p) ==
  /\ p \notin levels
  /\ levels' = levels \cup {p}
  /\ IsBestOf(best', levels')
  /\ UNCHANGED side

Remove(p) ==
  /\ p \in levels
  /\ levels' = levels \ {p}
  /\ IF levels' = {} THEN best' = Nil ELSE IsBestOf(best', levels')
  /\ UNCHANGED side

Next == \E p \in Price : Add(p) \/ Remove(p)

Spec == Init /\ [][Next]_vars
=============================================================================
