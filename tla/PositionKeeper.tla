---------------------------- MODULE PositionKeeper ----------------------------
(***************************************************************************)
(* PositionInfo of one ticker: the position, its volume-weighted opening   *)
(* cost and the profit computed from them, by fills and by changes of the  *)
(* best bid and offer.  The code's doubles are exact rationals here, pairs *)
(* <<numerator, denominator>>: rounding is not modelled.                   *)
(***************************************************************************)
EXTENDS Integers, Sequences

CONSTANTS
  Price, Qty,
  Garbage,   \* what open_vwap_, which has no initialiser, may hold at first
  MaxFills   \* bound: executions

Invalid == 0
ASSUME PositionAssumption ==
  /\ Price \subseteq Nat \ {Invalid} /\ Qty \subseteq Nat \ {0}
  /\ Garbage \subseteq Int /\ MaxFills \in Nat

VARIABLES
  position, volume, real_pnl, unreal_pnl, total_pnl,
  open_vwap,   \* Side -> cost of the open position
  fills,       \* history: executions so far, <<side, price, qty>>
  cash,        \* history: cash the executions brought in
  mark,        \* history: twice the price of the last valuation
  offset       \* history: initial open_vwap_ of the side that traded first, signed

positionVars == <<position, volume, real_pnl, unreal_pnl, total_pnl, open_vwap, fills, cash, mark, offset>>

-----------------------------------------------------------------------------
Side == {"BUY", "SELL"}
Opposite(side) == IF side = "BUY" THEN "SELL" ELSE "BUY"
sideToValue(side) == IF side = "BUY" THEN 1 ELSE -1
Abs(n) == IF n < 0 THEN -n ELSE n

Rat(n) == <<n, 1>>
Plus(a, b) == IF a[2] = b[2] THEN <<a[1] + b[1], a[2]>> ELSE <<a[1] * b[2] + b[1] * a[2], a[2] * b[2]>>
Scale(a, n) == <<a[1] * n, a[2]>>
Over(a, n) == <<a[1], a[2] * n>>
Minus(a, b) == Plus(a, Scale(b, -1))
Eq(a, b) == a[1] * b[2] = b[1] * a[2]
Leq(a, b) == a[1] * b[2] <= b[1] * a[2]

PositionInit ==
  /\ position = 0 /\ volume = 0
  /\ real_pnl = Rat(0) /\ unreal_pnl = Rat(0) /\ total_pnl = Rat(0)
  /\ \E g \in [Side -> Garbage] : open_vwap = [s \in Side |-> Rat(g[s])]
  /\ fills = <<>> /\ cash = 0 /\ mark = 0 /\ offset = Rat(0)

-----------------------------------------------------------------------------
\* open_vwap_ after a fill of q at p that moves the position from old to new.
\* Mutant: a flip keeps the cost of the closed side and adds to the other.
OpenVwapMutant(side, p, q, old, new) ==
  IF old * sideToValue(side) >= 0
  THEN [open_vwap EXCEPT ![side] = Plus(@, Rat(p * q))]
  ELSE [open_vwap EXCEPT ![Opposite(side)] = Over(Scale(@, Abs(new)), Abs(old))]

OpenVwap(side, p, q, old, new) ==
  IF new = 0
  THEN [s \in Side |-> Rat(0)]
  ELSE IF old * sideToValue(side) >= 0
  THEN [open_vwap EXCEPT ![side] = Plus(@, Rat(p * q))]
  ELSE IF new * old < 0
  THEN [open_vwap EXCEPT ![side] = Rat(p * Abs(new)), ![Opposite(side)] = Rat(0)]
  ELSE [open_vwap EXCEPT ![Opposite(side)] = Over(Scale(@, Abs(new)), Abs(old))]

\* Mutant: the whole execution is taken as closing, the part that opens included.
ClosedMutant(q, old) == q
Closed(q, old) == IF q < Abs(old) THEN q ELSE Abs(old)

RealPnl(side, p, q, old) ==
  IF old * sideToValue(side) >= 0 THEN real_pnl
  ELSE LET opp_side_vwap == Over(open_vwap[Opposite(side)], Abs(old))
       IN  Plus(real_pnl, Scale(Minus(opp_side_vwap, Rat(p)), Closed(q, old) * sideToValue(side)))

\* The open position of cost vwap valued at half of twice.
UnrealPnl(pos, vwap, twice) ==
  IF pos > 0 THEN Minus(Over(Rat(twice * pos), 2), vwap["BUY"])
             ELSE Minus(vwap["SELL"], Over(Rat(twice * Abs(pos)), 2))

addFill(side, p, q) ==
  /\ Len(fills) < MaxFills
  /\ position' = position + q * sideToValue(side)
  /\ volume' = volume + q
  /\ open_vwap' = OpenVwap(side, p, q, position, position')
  /\ real_pnl' = RealPnl(side, p, q, position)
  /\ unreal_pnl' = IF position' = 0 THEN Rat(0) ELSE UnrealPnl(position', open_vwap', 2 * p)
  /\ total_pnl' = Plus(unreal_pnl', real_pnl')
  /\ fills' = Append(fills, <<side, p, q>>)
  /\ cash' = cash - sideToValue(side) * p * q
  /\ mark' = 2 * p
  /\ offset' = IF fills = <<>> THEN Scale(open_vwap[side], -sideToValue(side)) ELSE offset

\* Without a position or with one side of the book empty, nothing is valued.
updateBBO(bid, ask) ==
  /\ position # 0 /\ bid # Invalid /\ ask # Invalid
  /\ unreal_pnl' = UnrealPnl(position, open_vwap, bid + ask)
  /\ total_pnl' = Plus(unreal_pnl', real_pnl)
  /\ mark' = bid + ask
  /\ UNCHANGED <<position, volume, real_pnl, open_vwap, fills, cash, offset>>

PositionNext ==
  \/ \E side \in Side, p \in Price, q \in Qty : addFill(side, p, q)
  \/ \E bid, ask \in Price \cup {Invalid} : updateBBO(bid, ask)

PositionSpec == PositionInit /\ [][PositionNext]_positionVars

-----------------------------------------------------------------------------
(* Properties. *)

\* What the executions earned, with the open position valued at the last price.
Marked == Over(Rat(2 * cash + mark * position), 2)

(***************************************************************************)
(* addFill and updateBBO split the profit into realised and unrealised     *)
(* parts through averages, partial closes and flips; their sum is the cash *)
(* of the executions and the value of what is left, off by exactly what    *)
(* the uninitialised cost of the first side held.                          *)
(***************************************************************************)
PnlOffByInitialCost == Eq(total_pnl, Plus(Marked, offset))

(***************************************************************************)
(* The average cost of an open position lies between the lowest and the    *)
(* highest price executed, however addFill increased, reduced and flipped  *)
(* it, if the first side began without a cost.                             *)
(***************************************************************************)
AverageIsAPrice ==
  position # 0 /\ Eq(offset, Rat(0)) =>
    LET side == IF position > 0 THEN "BUY" ELSE "SELL"
        prices == {fills[i][2] : i \in DOMAIN fills}
        vwap == Over(open_vwap[side], Abs(position))
    IN  \E low, high \in prices : Leq(Rat(low), vwap) /\ Leq(vwap, Rat(high))

=============================================================================
