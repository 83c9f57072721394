---------------------- MODULE PositionAndSocketProofs ----------------------
(***************************************************************************)
(* The trading client's accounts, and the socket its orders leave through. *)
(* The two share no state; each has its own invariant.                     *)
(*                                                                         *)
(* The profit and the average cost PositionKeeper computes, for any        *)
(* prices, quantities and number of executions, and whatever the costs     *)
(* began with.  Amounts are exact: a rational is a pair of an integer and  *)
(* a positive integer, never reduced, so that the lemmas state every       *)
(* equation without division.                                              *)
(*                                                                         *)
(* The argument: the realised profit is always the cash the executions     *)
(* brought in, plus the offset, plus the signed cost of what is open.      *)
(* addFill keeps this when it adds to the position, closes a part of it,   *)
(* closes all of it or turns it to the other side; valuing the position    *)
(* then replaces its cost by its value.                                    *)
(*                                                                         *)
(* TCPSocket delivers the messages whole and in order for any frame length *)
(* and any size of the buffers, although the kernel takes and gives any    *)
(* number of bytes at a time.                                              *)
(***************************************************************************)
EXTENDS TCPSocket, PositionKeeper, TLAPS

Rational == Int \X (Nat \ {0})

(* A positive factor cancels. *)
LEMMA Cancel ==
  ASSUME NEW x \in Int, NEW y \in Int, NEW d \in Nat \ {0}, d * x = d * y
  PROVE  x = y
  OBVIOUS

(* The sum with an integer keeps the denominator. *)
LEMMA PlusRat ==
  ASSUME NEW x \in Int, NEW d \in Nat \ {0}, NEW n \in Int
  PROVE  Plus(<<x, d>>, Rat(n)) = <<x + n * d, d>>
<1>1. CASE d = 1
  BY <1>1 DEF Plus, Rat
<1>2. CASE d # 1
  BY <1>2 DEF Plus, Rat
<1> QED
  BY <1>1, <1>2

(* The sum of two rationals, over whichever denominator Plus chooses. *)
LEMMA PlusIs ==
  ASSUME NEW x \in Int, NEW d \in Nat \ {0}, NEW y \in Int, NEW e \in Nat \ {0}
  PROVE  \E z \in Int, f \in Nat \ {0} :
           Plus(<<x, d>>, <<y, e>>) = <<z, f>> /\ z * (d * e) = (x * e + y * d) * f
<1>1. CASE d = e
  <2>1. Plus(<<x, d>>, <<y, e>>) = <<x + y, d>>
    BY <1>1 DEF Plus
  <2>2. (x + y) * (d * e) = (x * e + y * d) * d
    BY <1>1
  <2> QED
    BY <2>1, <2>2
<1>2. CASE d # e
  <2>1. Plus(<<x, d>>, <<y, e>>) = <<x * e + y * d, d * e>>
    BY <1>2 DEF Plus
  <2>2. d * e \in Nat \ {0} /\ x * e + y * d \in Int
    OBVIOUS
  <2> QED
    BY <2>1, <2>2
<1> QED
  BY <1>1, <1>2, Zenon

(***************************************************************************)
(* The realised profit <<r, d>>, the cost <<v, e>> of a position of sign s *)
(* and the cash and offset k agree: r / d = k + s * v / e.                 *)
(***************************************************************************)
Agree(r, d, v, e, k, s) == r * e = k * d * e + s * v * d

(* An execution of quantity q at p on side s adds to the position. *)
LEMMA Increased ==
  ASSUME NEW r \in Int, NEW d \in Nat \ {0}, NEW v \in Int, NEW e \in Nat \ {0}, NEW k \in Int,
         NEW s \in Int, NEW c \in Int, Agree(r, d, v, e, k, s)
  PROVE  Agree(r, d, v + c * e, e, k - s * c, s)
<1>1. r * e = k * d * e + s * v * d
  BY DEF Agree
<1>2. (k - s * c) * d * e + s * (v + c * e) * d = k * d * e + s * v * d
  OBVIOUS
<1> QED
  BY <1>1, <1>2 DEF Agree

(***************************************************************************)
(* Of a position of size a and sign -s, the quantity q is closed at p and  *)
(* the realised profit goes from r / d to z / f.                           *)
(***************************************************************************)
Earned(z, f, r, d, v, e, s, a, p, q) ==
  z * (d * (e * a)) = (r * (e * a) + (v - p * (e * a)) * (q * s) * d) * f

(***************************************************************************)
(* z / f is the cash and offset k, less what q cost at p, plus the signed  *)
(* cost of the rest of the position, of size a - q.                        *)
(***************************************************************************)
Remains(z, f, v, e, k, s, a, p, q) ==
  z * (e * a) = (k - s * p * q) * f * (e * a) - s * (v * (a - q)) * f

(* The realised profit after RealPnl, without the profit before it. *)
LEMMA Reduced ==
  ASSUME NEW r \in Int, NEW d \in Nat \ {0}, NEW v \in Int, NEW e \in Nat \ {0}, NEW k \in Int,
         NEW s \in Int, NEW a \in Nat \ {0}, NEW p \in Int, NEW q \in Int,
         Agree(r, d, v, e, k, -s),
         NEW z \in Int, NEW f \in Nat \ {0},
         Earned(z, f, r, d, v, e, s, a, p, q)
  PROVE  Remains(z, f, v, e, k, s, a, p, q)
<1>1. PICK g \in Nat \ {0} : g = e * a
  OBVIOUS
<1>2. r * g = k * d * g - s * v * d * a
  <2>1. r * e = k * d * e - s * v * d
    BY DEF Agree
  <2>2. r * e * a = (k * d * e - s * v * d) * a
    BY <2>1
  <2> QED
    BY <1>1, <2>2
<1>3. r * g + (v - p * g) * (q * s) * d = d * (k * g - s * v * (a - q) - s * p * q * g)
  BY <1>2
<1>4. z * (d * g) = d * (k * g - s * v * (a - q) - s * p * q * g) * f
  BY <1>1, <1>3 DEF Earned
<1>5. d * (z * g) = d * ((k * g - s * v * (a - q) - s * p * q * g) * f)
  BY <1>4
<1>6. z * g = (k * g - s * v * (a - q) - s * p * q * g) * f
  BY <1>5, Cancel
<1>7. (k * g - s * v * (a - q) - s * p * q * g) * f = (k - s * p * q) * f * g - s * (v * (a - q)) * f
  OBVIOUS
<1> QED
  BY <1>1, <1>6, <1>7 DEF Remains

(* Twice the profit a is twice the cash and offset k and t, twice a price, for each of n. *)
Worth(a, k, t, n) == 2 * a[1] = (2 * k + t * n) * a[2]

(* u / g is the value of n, at half of t, over its cost v / e. *)
ValueOver(u, g, v, e, s, n, t) == u * (2 * e) = (t * n * e - 2 * s * v) * g

(* z / f is u / g plus r / d. *)
SumOf(z, f, u, g, r, d) == z * (g * d) = (u * d + r * g) * f

(* Realised and unrealised profit together: the cost of what is open cancels. *)
LEMMA Valued ==
  ASSUME NEW r \in Int, NEW d \in Nat \ {0}, NEW v \in Int, NEW e \in Nat \ {0}, NEW k \in Int,
         NEW s \in Int, NEW n \in Int, NEW t \in Int, Agree(r, d, v, e, k, s),
         NEW u \in Int, NEW g \in Nat \ {0}, ValueOver(u, g, v, e, s, n, t),
         NEW z \in Int, NEW f \in Nat \ {0}, SumOf(z, f, u, g, r, d)
  PROVE  Worth(<<z, f>>, k, t, n)
<1>1. z * (g * d) * (2 * e) = (u * (2 * e) * d + 2 * (r * e) * g) * f
  BY DEF SumOf
<1>2. z * (g * d) * (2 * e) = ((t * n * e - 2 * s * v) * g * d + 2 * (k * d * e + s * v * d) * g) * f
  BY <1>1 DEF Agree, ValueOver
<1>3. ((t * n * e - 2 * s * v) * g * d + 2 * (k * d * e + s * v * d) * g) * f =
        (g * d * e) * ((2 * k + t * n) * f)
  OBVIOUS
<1>4. z * (g * d) * (2 * e) = (g * d * e) * (2 * z)
  OBVIOUS
<1>5. g * d * e \in Nat \ {0}
  OBVIOUS
<1>6. 2 * z \in Int /\ (2 * k + t * n) * f \in Int
  OBVIOUS
<1>7. 2 * z = (2 * k + t * n) * f
  BY <1>2, <1>3, <1>4, <1>5, <1>6, Cancel
<1> QED
  BY <1>7 DEF Worth

-----------------------------------------------------------------------------
(* The inductive invariant. *)

SideOf(n) == IF n > 0 THEN "BUY" ELSE "SELL"
SignOf(n) == IF n > 0 THEN 1 ELSE -1

\* The realised profit r, the costs w of the position n and the cash and offset k agree.
Balanced(r, w, n, k) ==
  IF n = 0 THEN r[1] = k * r[2]
  ELSE Agree(r[1], r[2], w[SideOf(n)][1], w[SideOf(n)][2], k, SignOf(n))

PositionTypes ==
  /\ position \in Int /\ cash \in Int /\ mark \in Int
  /\ real_pnl \in Rational /\ total_pnl \in Rational /\ open_vwap \in [Side -> Rational]
  /\ offset \in Rational /\ offset[2] = 1
  /\ fills \in Seq(Side \X Price \X Qty)

(***************************************************************************)
(* What was realised agrees with the cost of what is open.  Until the      *)
(* first execution the costs may be anything and the rest is zero; later,  *)
(* a flat position has no cost.                                            *)
(***************************************************************************)
ProfitInv ==
  /\ PositionTypes
  /\ Balanced(real_pnl, open_vwap, position, cash + offset[1])
  /\ fills = <<>> => /\ position = 0 /\ cash = 0 /\ offset = Rat(0) /\ real_pnl = Rat(0)
                     /\ \A s \in Side : open_vwap[s][2] = 1
  /\ fills # <<>> /\ position = 0 => open_vwap = [s \in Side |-> Rat(0)]
  /\ Worth(total_pnl, cash + offset[1], mark, position)

(* An execution that adds to the position, the first one included. *)
LEMMA IncreaseBalances ==
  ASSUME NEW r \in Rational, NEW w \in [Side -> Rational], NEW n \in Int, NEW k \in Int,
         NEW side \in Side, NEW p \in Nat, NEW q \in Nat \ {0}, n * sideToValue(side) >= 0,
         Agree(r[1], r[2], w[side][1], w[side][2], k, sideToValue(side)),
         NEW x, x = [w EXCEPT ![side] = Plus(@, Rat(p * q))]
  PROVE  /\ x \in [Side -> Rational] /\ n + q * sideToValue(side) # 0
         /\ Balanced(r, x, n + q * sideToValue(side), k - sideToValue(side) * p * q)
<1>1. PICK a \in Int, d \in Nat \ {0} : r = <<a, d>>
  BY DEF Rational
<1>2. PICK v \in Int, e \in Nat \ {0} : w[side] = <<v, e>>
  BY DEF Rational
<1>3. PICK c \in Int : c = p * q
  OBVIOUS
<1>4. PICK s \in Int : s = sideToValue(side)
  BY DEF sideToValue
<1>5. x \in [Side -> Rational] /\ x[side] = <<v + c * e, e>>
  <2>1. Plus(w[side], Rat(c)) = <<v + c * e, e>>
    <3>1. Plus(<<v, e>>, Rat(c)) = <<v + c * e, e>>
      BY PlusRat, Zenon
    <3> QED
      BY <1>2, <3>1, Zenon
  <2>2. <<v + c * e, e>> \in Rational
    BY DEF Rational
  <2> QED
    BY <1>3, <2>1, <2>2
<1>6. Agree(a, d, v + c * e, e, k - s * c, s)
  <2>1. Agree(a, d, v, e, k, s)
    BY <1>1, <1>2, <1>4
  <2> QED
    BY <2>1, Increased, Zenon
<1>7. s * p * q = s * c
  BY <1>3
<1>8. n + q * s # 0 /\ SideOf(n + q * s) = side /\ SignOf(n + q * s) = s
  <2>1. CASE side = "BUY"
    BY <1>4, <2>1 DEF sideToValue, SideOf, SignOf
  <2>2. CASE side = "SELL"
    BY <1>4, <2>2 DEF sideToValue, SideOf, SignOf
  <2> QED
    BY <2>1, <2>2 DEF Side
<1>9. k - s * p * q = k - s * c
  BY <1>7
<1>10. Balanced(r, x, n + q * s, k - s * c)
  BY <1>1, <1>5, <1>6, <1>8 DEF Balanced
<1> QED
  BY <1>4, <1>5, <1>8, <1>9, <1>10

(* The profit realised when c of a position n of the other side is closed at p. *)
LEMMA RealPnlIs ==
  ASSUME real_pnl \in Rational, open_vwap \in [Side -> Rational], NEW n \in Int, NEW k \in Int,
         NEW side \in Side, NEW p \in Nat, NEW q \in Nat \ {0}, n * sideToValue(side) < 0,
         Balanced(real_pnl, open_vwap, n, k)
  PROVE  \E z \in Int, f \in Nat \ {0} :
           /\ RealPnl(side, p, q, n) = <<z, f>>
           /\ Remains(z, f, open_vwap[Opposite(side)][1], open_vwap[Opposite(side)][2], k,
                      sideToValue(side), Abs(n), p, Closed(q, n))
<1>1. PICK r \in Int, d \in Nat \ {0} : real_pnl = <<r, d>>
  BY DEF Rational
<1>2. PICK v \in Int, e \in Nat \ {0} : open_vwap[Opposite(side)] = <<v, e>>
  BY DEF Rational, Opposite, Side
<1>3. PICK s \in Int : s = sideToValue(side)
  BY DEF sideToValue
<1>4. PICK a \in Nat \ {0} : a = Abs(n)
  BY <1>3 DEF Abs
<1>5. PICK c \in Nat : c = Closed(q, n)
  <2>1. q \in Nat /\ a \in Nat
    OBVIOUS
  <2> QED
    BY <1>4, <2>1 DEF Closed
<1>6. SideOf(n) = Opposite(side) /\ SignOf(n) = -s /\ n # 0
  <2>1. CASE side = "BUY"
    BY <1>3, <2>1 DEF sideToValue, SideOf, SignOf, Opposite
  <2>2. CASE side = "SELL"
    <3>1. s + 1 = 0 /\ n > 0
      BY <1>3, <2>2 DEF sideToValue
    <3>2. SideOf(n) = "BUY" /\ SignOf(n) = 1 /\ Opposite(side) = "BUY"
      BY <2>2, <3>1 DEF SideOf, SignOf, Opposite
    <3>3. -s = 1 /\ n # 0
      BY <3>1
    <3> QED
      BY <3>2, <3>3, Zenon
  <2> QED
    BY <2>1, <2>2 DEF Side
<1>7. Agree(r, d, v, e, k, -s)
  BY <1>1, <1>2, <1>6 DEF Balanced
<1>8. PICK g \in Nat \ {0} : g = e * a
  OBVIOUS
<1>9. PICK m \in Int : /\ m = (v - p * g) * (c * s)
                       /\ Scale(Minus(Over(<<v, e>>, a), Rat(p)), c * s) = <<m, g>>
  <2>1. Over(<<v, e>>, a) = <<v, g>>
    BY <1>8 DEF Over
  <2>2. PICK y \in Int : y = -p /\ Scale(Rat(p), -1) = Rat(y)
    BY DEF Scale, Rat
  <2>3. Plus(<<v, g>>, Rat(y)) = <<v + y * g, g>>
    BY PlusRat, Zenon
  <2>4. PICK t \in Int : t = v + y * g /\ t = v - p * g
    BY <2>2
  <2>5. Minus(<<v, g>>, Rat(p)) = <<t, g>>
    BY <2>2, <2>3, <2>4 DEF Minus
  <2>6. PICK b \in Int : b = c * s
    OBVIOUS
  <2>7. Scale(<<t, g>>, b) = <<t * b, g>>
    BY DEF Scale
  <2>8. t * b \in Int /\ t * b = (v - p * g) * (c * s)
    BY <2>4, <2>6
  <2> QED
    BY <2>1, <2>5, <2>6, <2>7, <2>8, Zenon
<1>10. RealPnl(side, p, q, n) = Plus(<<r, d>>, <<m, g>>)
  <2>1. ~(n * sideToValue(side) >= 0)
    BY DEF sideToValue
  <2> QED
    BY <1>1, <1>2, <1>3, <1>4, <1>5, <1>9, <2>1 DEF RealPnl
<1>11. PICK z \in Int, f \in Nat \ {0} :
         Plus(<<r, d>>, <<m, g>>) = <<z, f>> /\ z * (d * g) = (r * g + m * d) * f
  BY PlusIs
<1>12. Earned(z, f, r, d, v, e, s, a, p, c)
  <2>1. z * (d * g) = (r * g + (v - p * g) * (c * s) * d) * f
    BY <1>9, <1>11
  <2> QED
    BY <1>8, <2>1, Zenon DEF Earned
<1>13. Remains(z, f, v, e, k, s, a, p, c)
  <2>1. p \in Int /\ c \in Int
    OBVIOUS
  <2> QED
    BY <1>7, <1>12, <2>1, Reduced, Zenon
<1>14. open_vwap[Opposite(side)][1] = v /\ open_vwap[Opposite(side)][2] = e
  BY <1>2
<1> QED
  BY <1>3, <1>4, <1>5, <1>10, <1>11, <1>13, <1>14, Zenon

(* Where the position is after q of side against a position of size a. *)
LEMMA Moved ==
  ASSUME NEW n \in Int, NEW side \in Side, NEW q \in Nat \ {0}, n * sideToValue(side) < 0,
         NEW m \in Int, m = n + q * sideToValue(side), NEW a \in Nat, a = Abs(n)
  PROVE  /\ q = a => m = 0
         /\ q > a => m # 0 /\ m * n < 0 /\ Abs(m) = q - a /\ SideOf(m) = side /\ SignOf(m) = sideToValue(side)
         /\ q < a => /\ m # 0 /\ ~(m * n < 0) /\ Abs(m) = a - q /\ SideOf(m) = Opposite(side)
                     /\ SignOf(m) = -sideToValue(side)
<1>1. CASE side = "BUY"
  <2>1. n < 0 /\ m = n + q /\ a = -n /\ sideToValue(side) = 1 /\ Opposite(side) = "SELL"
    BY <1>1 DEF sideToValue, Abs, Opposite
  <2>2. q = a => m = 0
    BY <2>1
  <2>3. q > a => m > 0 /\ m * n < 0 /\ m = q - a
    BY <2>1
  <2>4. q < a => m < 0 /\ m * n > 0 /\ -m = a - q
    BY <2>1
  <2> QED
    BY <1>1, <2>1, <2>2, <2>3, <2>4 DEF Abs, SideOf, SignOf
<1>2. CASE side = "SELL"
  <2>1. n > 0 /\ m = n - q /\ a = n /\ Opposite(side) = "BUY"
    BY <1>2 DEF sideToValue, Abs, Opposite
  <2>2. q = a => m = 0
    BY <2>1
  <2>3. q > a => m < 0 /\ m * n < 0 /\ -m = q - a
    BY <2>1
  <2>4. q < a => m > 0 /\ m * n > 0 /\ m = a - q
    BY <2>1
  <2>5. -sideToValue(side) = 1 /\ sideToValue(side) = -1
    <3>1. PICK s \in Int : s = sideToValue(side) /\ s + 1 = 0
      BY <1>2 DEF sideToValue
    <3>2. -s = 1 /\ s = -1
      BY <3>1
    <3> QED
      BY <3>1, <3>2, Zenon
  <2> QED
    BY <1>2, <2>1, <2>2, <2>3, <2>4, <2>5 DEF Abs, SideOf, SignOf
<1> QED
  BY <1>1, <1>2 DEF Side

(* An execution against the position: it is closed, turned or reduced. *)
LEMMA ReduceBalances ==
  ASSUME NEW z \in Int, NEW f \in Nat \ {0}, NEW v \in Int, NEW e \in Nat \ {0}, NEW k \in Int,
         NEW s \in Int, NEW a \in Nat \ {0}, NEW p \in Nat, NEW q \in Nat \ {0}
  PROVE  /\ q = a /\ Remains(z, f, v, e, k, s, a, p, q) => z = (k - s * p * q) * f
         /\ q > a /\ Remains(z, f, v, e, k, s, a, p, a) =>
              Agree(z, f, p * (q - a), 1, k - s * p * q, s)
         /\ q < a /\ Remains(z, f, v, e, k, s, a, p, q) =>
              Agree(z, f, v * (a - q), e * a, k - s * p * q, -s)
<1>1. PICK g \in Nat \ {0} : g = e * a
  OBVIOUS
<1>2. ASSUME Remains(z, f, v, e, k, s, a, p, a)
      PROVE  z = (k - s * p * a) * f
  <2>1. z * g = (k - s * p * a) * f * g - s * (v * (a - a)) * f
    BY <1>1, <1>2 DEF Remains
  <2>2. s * (v * (a - a)) * f = 0
    OBVIOUS
  <2>3. PICK y \in Int : y = (k - s * p * a) * f
    OBVIOUS
  <2>4. g * z = g * y
    BY <2>1, <2>2, <2>3
  <2> QED
    BY <2>3, <2>4, Cancel
<1>3. ASSUME q > a, Remains(z, f, v, e, k, s, a, p, a)
      PROVE  Agree(z, f, p * (q - a), 1, k - s * p * q, s)
  <2>1. z = (k - s * p * a) * f
    BY <1>2, <1>3
  <2>2. (k - s * p * q) * f * 1 + s * (p * (q - a)) * f = (k - s * p * a) * f
    OBVIOUS
  <2> QED
    BY <2>1, <2>2 DEF Agree
<1>4. ASSUME q < a, Remains(z, f, v, e, k, s, a, p, q)
      PROVE  Agree(z, f, v * (a - q), e * a, k - s * p * q, -s)
  <2>1. PICK y \in Int : y = v * (a - q)
    OBVIOUS
  <2>2. z * g = (k - s * p * q) * f * g - s * y * f
    BY <1>1, <1>4, <2>1 DEF Remains
  <2>3. z * g = (k - s * p * q) * f * g + (-s) * y * f
    BY <2>2
  <2> QED
    BY <1>1, <2>1, <2>3, Zenon DEF Agree
<1> QED
  BY <1>2, <1>3, <1>4, Zenon

(* addFill against the position: the costs and the realised profit agree again. *)
LEMMA FillReduces ==
  ASSUME real_pnl \in Rational, open_vwap \in [Side -> Rational], NEW n \in Int, NEW k \in Int,
         NEW side \in Side, NEW p \in Nat, NEW q \in Nat \ {0}, n * sideToValue(side) < 0,
         Balanced(real_pnl, open_vwap, n, k),
         NEW m \in Int, m = n + q * sideToValue(side), NEW y, y = RealPnl(side, p, q, n),
         NEW x, x = OpenVwap(side, p, q, n, m)
  PROVE  /\ y \in Rational /\ x \in [Side -> Rational]
         /\ Balanced(y, x, m, k - sideToValue(side) * p * q)
         /\ m = 0 => x = [t \in Side |-> Rat(0)]
<1>1. PICK v \in Int, e \in Nat \ {0} : open_vwap[Opposite(side)] = <<v, e>>
  BY DEF Rational, Opposite, Side
<1>2. PICK s \in Int : s = sideToValue(side)
  BY DEF sideToValue
<1>3. PICK a \in Nat \ {0} : a = Abs(n)
  BY <1>2 DEF Abs
<1>4. PICK c \in Nat : c = Closed(q, n) /\ c = IF q < a THEN q ELSE a
  <2>1. q \in Nat /\ a \in Nat /\ (IF q < a THEN q ELSE a) \in Nat
    OBVIOUS
  <2> QED
    BY <1>3, <2>1 DEF Closed
<1>5. PICK z \in Int, f \in Nat \ {0} : y = <<z, f>> /\ Remains(z, f, v, e, k, s, a, p, c)
  <2>1. open_vwap[Opposite(side)][1] = v /\ open_vwap[Opposite(side)][2] = e
    BY <1>1
  <2>2. \E z \in Int, f \in Nat \ {0} :
          /\ RealPnl(side, p, q, n) = <<z, f>>
          /\ Remains(z, f, open_vwap[Opposite(side)][1], open_vwap[Opposite(side)][2], k,
                     sideToValue(side), Abs(n), p, Closed(q, n))
    BY RealPnlIs
  <2> QED
    BY <1>2, <1>3, <1>4, <2>1, <2>2, Zenon
<1>6. y \in Rational /\ y[1] = z /\ y[2] = f
  BY <1>5 DEF Rational
<1>7. \A i \in Int : Rat(i) \in Rational
  BY DEF Rat, Rational
<1>8. ~(n * sideToValue(side) >= 0)
  BY <1>2
<1>9. /\ q = a => m = 0
      /\ q > a => m # 0 /\ m * n < 0 /\ Abs(m) = q - a /\ SideOf(m) = side /\ SignOf(m) = sideToValue(side)
      /\ q < a => /\ m # 0 /\ ~(m * n < 0) /\ Abs(m) = a - q /\ SideOf(m) = Opposite(side)
                  /\ SignOf(m) = -sideToValue(side)
  <2>1. a \in Nat
    OBVIOUS
  <2> QED
    BY <1>3, <2>1, Moved, SMT
<1>10. /\ q = a /\ Remains(z, f, v, e, k, s, a, p, q) => z = (k - s * p * q) * f
       /\ q > a /\ Remains(z, f, v, e, k, s, a, p, a) =>
            Agree(z, f, p * (q - a), 1, k - s * p * q, s)
       /\ q < a /\ Remains(z, f, v, e, k, s, a, p, q) =>
            Agree(z, f, v * (a - q), e * a, k - s * p * q, -s)
  BY ReduceBalances, Zenon
<1>11. CASE q = a
  <2>1. m = 0
    BY <1>11, <1>9
  <2>2. x = [t \in Side |-> Rat(0)]
    BY <2>1 DEF OpenVwap
  <2>3. z = (k - s * p * q) * f
    <3>1. c = q
      BY <1>4, <1>11
    <3> QED
      BY <1>5, <1>11, <1>10, <3>1, Zenon
  <2> QED
    BY <1>2, <1>6, <1>7, <2>1, <2>2, <2>3 DEF Balanced
<1>12. CASE q > a
  <2>1. m # 0 /\ m * n < 0 /\ Abs(m) = q - a /\ SideOf(m) = side /\ SignOf(m) = s
    BY <1>2, <1>12, <1>9, Zenon
  <2>2. PICK b \in Int : b = p * (q - a)
    BY <1>12
  <2>3. x = [open_vwap EXCEPT ![side] = Rat(b), ![Opposite(side)] = Rat(0)]
    BY <1>8, <2>1, <2>2, Zenon DEF OpenVwap
  <2>4. side # Opposite(side) /\ Opposite(side) \in Side
    BY DEF Side, Opposite
  <2>5. x \in [Side -> Rational] /\ x[side] = <<b, 1>>
    BY <1>7, <2>3, <2>4 DEF Rat
  <2>6. Agree(z, f, b, 1, k - s * p * q, s)
    <3>1. c = a
      BY <1>4, <1>12
    <3> QED
      BY <1>5, <1>12, <1>10, <2>2, <3>1, Zenon
  <2> QED
    BY <1>2, <1>6, <2>1, <2>5, <2>6 DEF Balanced
<1>13. CASE q < a
  <2>1. m # 0 /\ ~(m * n < 0) /\ Abs(m) = a - q /\ SideOf(m) = Opposite(side) /\ SignOf(m) = -s
    BY <1>2, <1>13, <1>9, Zenon
  <2>2. PICK b \in Int, g \in Nat \ {0} : b = v * (a - q) /\ g = e * a
    BY <1>13
  <2>3. x = [open_vwap EXCEPT ![Opposite(side)] = <<b, g>>]
    <3>1. Over(Scale(open_vwap[Opposite(side)], Abs(m)), Abs(n)) = <<b, g>>
      BY <1>1, <1>3, <2>1, <2>2 DEF Over, Scale
    <3>2. x = [open_vwap EXCEPT ![Opposite(side)] = Over(Scale(@, Abs(m)), Abs(n))]
      BY <1>8, <2>1, Zenon DEF OpenVwap
    <3> QED
      BY <3>1, <3>2, Zenon
  <2>4. Opposite(side) \in Side /\ <<b, g>> \in Rational
    BY DEF Side, Opposite, Rational
  <2>5. x \in [Side -> Rational] /\ x[Opposite(side)] = <<b, g>>
    BY <2>3, <2>4
  <2>6. Agree(z, f, b, g, k - s * p * q, -s)
    <3>1. c = q
      BY <1>4, <1>13
    <3> QED
      BY <1>5, <1>13, <1>10, <2>2, <3>1, Zenon
  <2> QED
    BY <1>2, <1>6, <2>1, <2>5, <2>6 DEF Balanced
<1> QED
  BY <1>11, <1>12, <1>13

(* What UnrealPnl computes. *)
LEMMA UnrealPnlIs ==
  ASSUME NEW x \in [Side -> Rational], NEW n \in Int, n # 0, NEW t \in Int,
         NEW v \in Int, NEW e \in Nat \ {0}, x[SideOf(n)] = <<v, e>>
  PROVE  \E u \in Int, g \in Nat \ {0} :
           UnrealPnl(n, x, t) = <<u, g>> /\ ValueOver(u, g, v, e, SignOf(n), n, t)
<1>1. CASE n > 0
  <2>1. PICK b \in Int : b = t * n
    OBVIOUS
  <2>2. PICK w \in Int : w = -v /\ Scale(<<v, e>>, -1) = <<w, e>>
    BY DEF Scale
  <2>3. UnrealPnl(n, x, t) = Plus(<<b, 2>>, <<w, e>>)
    BY <1>1, <2>1, <2>2 DEF UnrealPnl, Minus, Over, Rat, SideOf
  <2>4. PICK u \in Int, g \in Nat \ {0} :
          Plus(<<b, 2>>, <<w, e>>) = <<u, g>> /\ u * (2 * e) = (b * e + w * 2) * g
    BY PlusIs
  <2>5. b * e + w * 2 = t * n * e - 2 * 1 * v
    BY <2>1, <2>2
  <2>6. SignOf(n) = 1
    BY <1>1 DEF SignOf
  <2> QED
    BY <2>3, <2>4, <2>5, <2>6, Zenon DEF ValueOver
<1>2. CASE n < 0
  <2>1. PICK b \in Int : b = t * n
    OBVIOUS
  <2>2. PICK w \in Int : w = t * (-n) /\ w * (-1) = b
    BY <2>1
  <2>3. UnrealPnl(n, x, t) = Plus(<<v, e>>, <<b, 2>>)
    <3>1. Abs(n) = -n /\ SideOf(n) = "SELL" /\ ~(n > 0)
      BY <1>2 DEF Abs, SideOf
    <3>2. Over(Rat(w), 2) = <<w, 2>>
      BY DEF Over, Rat
    <3>3. Scale(<<w, 2>>, -1) = <<b, 2>>
      BY <2>2 DEF Scale
    <3> QED
      BY <2>2, <3>1, <3>2, <3>3 DEF UnrealPnl, Minus
  <2>4. PICK u \in Int, g \in Nat \ {0} :
          Plus(<<v, e>>, <<b, 2>>) = <<u, g>> /\ u * (e * 2) = (v * 2 + b * e) * g
    BY PlusIs
  <2>5. u * (2 * e) = u * (e * 2)
    OBVIOUS
  <2>6. v * 2 + b * e = t * n * e - 2 * (-1) * v
    BY <2>1
  <2>7. SignOf(n) = -1
    BY <1>2 DEF SignOf
  <2> QED
    BY <2>3, <2>4, <2>5, <2>6, <2>7, Zenon DEF ValueOver
<1> QED
  BY <1>1, <1>2

(* What addFill and updateBBO store in total_pnl_. *)
LEMMA TotalIs ==
  ASSUME NEW y \in Rational, NEW x \in [Side -> Rational], NEW n \in Int, NEW t \in Int, NEW k \in Int,
         Balanced(y, x, n, k)
  PROVE  LET a == Plus(IF n = 0 THEN Rat(0) ELSE UnrealPnl(n, x, t), y)
         IN  a \in Rational /\ Worth(a, k, t, n)
<1>1. PICK r \in Int, d \in Nat \ {0} : y = <<r, d>>
  BY DEF Rational
<1>2. CASE n = 0
  <2>1. PICK z \in Int, f \in Nat \ {0} : Plus(Rat(0), <<r, d>>) = <<z, f>> /\ z * (1 * d) = (0 * d + r * 1) * f
    BY PlusIs DEF Rat
  <2>2. r = k * d
    BY <1>1, <1>2 DEF Balanced
  <2>3. d * z = d * (k * f)
    BY <2>1, <2>2
  <2>4. z = k * f
    BY <2>3, Cancel
  <2>5. 2 * z = (2 * k + t * n) * f
    BY <1>2, <2>4
  <2>6. <<z, f>> \in Rational /\ Worth(<<z, f>>, k, t, n)
    BY <2>5 DEF Worth, Rational
  <2> QED
    BY <1>1, <1>2, <2>1, <2>6, Zenon
<1>3. CASE n # 0
  <2>1. SideOf(n) \in Side /\ SignOf(n) \in Int
    BY DEF SideOf, SignOf, Side
  <2>2. PICK v \in Int, e \in Nat \ {0} : x[SideOf(n)] = <<v, e>>
    BY <2>1 DEF Rational
  <2>3. PICK s \in Int : s = SignOf(n)
    BY <2>1
  <2>4. PICK u \in Int, g \in Nat \ {0} :
          UnrealPnl(n, x, t) = <<u, g>> /\ ValueOver(u, g, v, e, s, n, t)
    BY <1>3, <2>2, <2>3, UnrealPnlIs, Zenon
  <2>5. PICK z \in Int, f \in Nat \ {0} :
          Plus(<<u, g>>, <<r, d>>) = <<z, f>> /\ SumOf(z, f, u, g, r, d)
    BY PlusIs DEF SumOf
  <2>6. Agree(r, d, v, e, k, s)
    BY <1>1, <1>3, <2>2, <2>3 DEF Balanced
  <2>7. Worth(<<z, f>>, k, t, n)
    BY <2>4, <2>5, <2>6, Valued, Zenon
  <2>8. <<z, f>> \in Rational /\ Worth(<<z, f>>, k, t, n)
    BY <2>7 DEF Rational
  <2> QED
    BY <1>1, <1>3, <2>4, <2>5, <2>8, Zenon
<1> QED
  BY <1>2, <1>3

(* The property of the runs, from the equation without division. *)
LEMMA WorthIsPnl ==
  ASSUME PositionTypes, Worth(total_pnl, cash + offset[1], mark, position)
  PROVE  PnlOffByInitialCost
<1>1. PICK z \in Int, f \in Nat \ {0} : total_pnl = <<z, f>>
  BY DEF PositionTypes, Rational
<1>2. PICK o \in Int : offset = Rat(o) /\ offset[1] = o
  BY DEF PositionTypes, Rational, Rat
<1>3. PICK b \in Int : b = 2 * cash + mark * position
  BY DEF PositionTypes
<1>4. Marked = <<b, 2>>
  BY <1>3 DEF Marked, Over, Rat
<1>5. Plus(<<b, 2>>, Rat(o)) = <<b + o * 2, 2>>
  <2>1. 2 \in Nat \ {0}
    OBVIOUS
  <2> QED
    BY <2>1, PlusRat, Zenon
<1>6. z * 2 = (b + o * 2) * f
  <2>1. 2 * z = (2 * (cash + o) + mark * position) * f
    BY <1>1, <1>2 DEF Worth
  <2>2. 2 * (cash + o) + mark * position = b + o * 2
    BY <1>3 DEF PositionTypes
  <2> QED
    BY <2>1, <2>2
<1> QED
  BY <1>1, <1>2, <1>4, <1>5, <1>6 DEF PnlOffByInitialCost, Eq

(* Before the first execution, whatever the costs hold. *)
LEMMA ProfitInit ==
  PositionInit => ProfitInv
<1> SUFFICES ASSUME PositionInit PROVE ProfitInv
  OBVIOUS
<1>1. PICK g \in [Side -> Garbage] : open_vwap = [s \in Side |-> Rat(g[s])]
  BY DEF PositionInit
<1>2. open_vwap \in [Side -> Rational] /\ \A s \in Side : open_vwap[s][2] = 1
  <2>1. \A i \in Int : Rat(i) \in Rational /\ Rat(i)[2] = 1
    BY DEF Rat, Rational
  <2>2. \A s \in Side : g[s] \in Int
    BY PositionAssumption, Zenon DEF PositionAssumption
  <2> QED
    BY <1>1, <2>1, <2>2
<1>3. PositionTypes
  BY <1>2 DEF PositionInit, PositionTypes, Rat, Rational
<1> QED
  BY <1>2, <1>3 DEF PositionInit, ProfitInv, Balanced, Worth, Rat

(* addFill keeps the invariant: it adds to the position or goes against it. *)
LEMMA ProfitFill ==
  ASSUME ProfitInv, NEW side \in Side, NEW p \in Price, NEW q \in Qty, addFill(side, p, q)
  PROVE  ProfitInv'
<1>1. /\ p \in Nat /\ q \in Nat \ {0} /\ position \in Int /\ cash \in Int /\ real_pnl \in Rational
      /\ open_vwap \in [Side -> Rational]
  BY PositionAssumption DEF ProfitInv, PositionTypes, PositionAssumption
<1>2. PICK o \in Int : offset' = Rat(o) /\ (fills # <<>> => offset = Rat(o))
  <2>1. CASE fills = <<>>
    <3>1. PICK g \in Int : open_vwap[side] = <<g, 1>>
      BY <2>1 DEF ProfitInv, PositionTypes, Rational
    <3>2. Scale(<<g, 1>>, -sideToValue(side)) = Rat(g * (-sideToValue(side)))
      BY DEF Scale, Rat
    <3>3. g * (-sideToValue(side)) \in Int
      BY DEF sideToValue
    <3> QED
      BY <2>1, <3>1, <3>2, <3>3 DEF addFill
  <2>2. CASE fills # <<>>
    BY <2>2 DEF addFill, ProfitInv, PositionTypes, Rational, Rat
  <2> QED
    BY <2>1, <2>2
<1>3. PICK k \in Int : k = cash + o
  BY <1>1
<1>4. position' \in Int /\ position' = position + q * sideToValue(side)
  BY <1>1 DEF addFill, sideToValue
<1>5. /\ real_pnl' \in Rational /\ open_vwap' \in [Side -> Rational]
      /\ Balanced(real_pnl', open_vwap', position', k - sideToValue(side) * p * q)
      /\ position' = 0 => open_vwap' = [t \in Side |-> Rat(0)]
  <2>1. CASE position * sideToValue(side) >= 0
    <3>1. Agree(real_pnl[1], real_pnl[2], open_vwap[side][1], open_vwap[side][2], k, sideToValue(side))
      <4>1. PICK r \in Int, d \in Nat \ {0}, v \in Int, e \in Nat \ {0} :
              real_pnl = <<r, d>> /\ open_vwap[side] = <<v, e>>
        BY <1>1 DEF Rational
      <4>2. PICK s \in Int : s = sideToValue(side)
        BY DEF sideToValue
      <4>3. CASE fills = <<>>
        <5>1. cash = 0 /\ r = 0 /\ d = 1 /\ e = 1
          BY <4>1, <4>3 DEF ProfitInv, Rat
        <5>2. o = v * (-s)
          BY <1>2, <4>1, <4>2, <4>3 DEF addFill, Scale, Rat
        <5>3. r * e = k * d * e + s * v * d
          BY <1>3, <5>1, <5>2
        <5> QED
          BY <4>1, <4>2, <5>3 DEF Agree
      <4>4. CASE fills # <<>> /\ position = 0
        <5>1. v = 0 /\ e = 1
          BY <4>1, <4>4 DEF ProfitInv, Rat
        <5>2. r = k * d
          BY <1>2, <1>3, <4>1, <4>4 DEF ProfitInv, Balanced, Rat
        <5>3. r * e = k * d * e + s * v * d
          BY <5>1, <5>2
        <5> QED
          BY <4>1, <4>2, <5>3 DEF Agree
      <4>5. CASE fills # <<>> /\ position # 0
        <5>1. SideOf(position) = side /\ SignOf(position) = sideToValue(side)
          BY <1>1, <2>1, <4>5 DEF SideOf, SignOf, sideToValue, Side
        <5> QED
          BY <1>2, <1>3, <4>5, <5>1 DEF ProfitInv, Balanced, Rat
      <4> QED
        BY <4>3, <4>4, <4>5
    <3>2. PICK x : x = [open_vwap EXCEPT ![side] = Plus(@, Rat(p * q))]
      BY Zenon
    <3>3. /\ x \in [Side -> Rational] /\ position' # 0
          /\ Balanced(real_pnl, x, position', k - sideToValue(side) * p * q)
      BY <1>1, <1>4, <2>1, <3>1, <3>2, IncreaseBalances, Zenon
    <3>4. open_vwap' = x /\ real_pnl' = real_pnl
      BY <2>1, <3>2, <3>3 DEF addFill, OpenVwap, RealPnl
    <3> QED
      BY <1>1, <3>3, <3>4
  <2>2. CASE position * sideToValue(side) < 0
    <3>1. fills # <<>> /\ position # 0
      BY <2>2 DEF ProfitInv, sideToValue
    <3>2. Balanced(real_pnl, open_vwap, position, k)
      BY <1>2, <1>3, <3>1 DEF ProfitInv, Rat
    <3>3. open_vwap' = OpenVwap(side, p, q, position, position') /\ real_pnl' = RealPnl(side, p, q, position)
      BY DEF addFill
    <3> QED
      BY <1>1, <1>4, <2>2, <3>2, <3>3, FillReduces
  <2> QED
    BY <1>1, <2>1, <2>2 DEF sideToValue
<1>6. cash' \in Int /\ cash' + o = k - sideToValue(side) * p * q
  BY <1>1, <1>3 DEF addFill, sideToValue
<1>7. total_pnl' \in Rational /\ Worth(total_pnl', cash' + o, 2 * p, position')
  <2>1. total_pnl' = Plus(IF position' = 0 THEN Rat(0) ELSE UnrealPnl(position', open_vwap', 2 * p), real_pnl')
    BY DEF addFill
  <2>2. 2 * p \in Int /\ cash' + o \in Int
    BY <1>1, <1>6
  <2>3. Balanced(real_pnl', open_vwap', position', cash' + o)
    BY <1>5, <1>6
  <2> QED
    BY <1>4, <1>5, <2>1, <2>2, <2>3, TotalIs, Zenon
<1>8. fills' \in Seq(Side \X Price \X Qty) /\ fills' # <<>>
  BY DEF addFill, ProfitInv, PositionTypes
<1>9. offset' \in Rational /\ offset'[1] = o /\ offset'[2] = 1 /\ mark' = 2 * p /\ mark' \in Int
  BY <1>1, <1>2 DEF Rat, Rational, addFill
<1>10. PositionTypes'
  BY <1>4, <1>5, <1>6, <1>7, <1>8, <1>9 DEF PositionTypes
<1> QED
  BY <1>5, <1>6, <1>7, <1>8, <1>9, <1>10 DEF ProfitInv

(* updateBBO values the position again and changes nothing else. *)
LEMMA ProfitBBO ==
  ASSUME ProfitInv, NEW bid \in Price \cup {Invalid}, NEW ask \in Price \cup {Invalid}, updateBBO(bid, ask)
  PROVE  ProfitInv'
<1>1. bid \in Int /\ ask \in Int /\ bid + ask \in Int
  BY PositionAssumption DEF PositionAssumption, Invalid
<1>2. total_pnl' = Plus(IF position = 0 THEN Rat(0) ELSE UnrealPnl(position, open_vwap, bid + ask), real_pnl)
  BY DEF updateBBO
<1>3. cash + offset[1] \in Int
  BY DEF ProfitInv, PositionTypes, Rational
<1>4. total_pnl' \in Rational /\ Worth(total_pnl', cash + offset[1], bid + ask, position)
  BY <1>1, <1>2, <1>3, TotalIs DEF ProfitInv, PositionTypes
<1>5. PositionTypes'
  BY <1>1, <1>4 DEF updateBBO, ProfitInv, PositionTypes
<1> QED
  BY <1>4, <1>5 DEF updateBBO, ProfitInv

(* Every step keeps the invariant. *)
LEMMA ProfitStep ==
  ProfitInv /\ [PositionNext]_positionVars => ProfitInv'
<1> SUFFICES ASSUME ProfitInv, [PositionNext]_positionVars PROVE ProfitInv'
  OBVIOUS
<1>1. ASSUME NEW side \in Side, NEW p \in Price, NEW q \in Qty, addFill(side, p, q) PROVE ProfitInv'
  BY <1>1, ProfitFill
<1>2. ASSUME NEW bid \in Price \cup {Invalid}, NEW ask \in Price \cup {Invalid}, updateBBO(bid, ask)
      PROVE  ProfitInv'
  BY <1>2, ProfitBBO
<1>3. CASE UNCHANGED positionVars
  BY <1>3 DEF positionVars, ProfitInv, PositionTypes
<1> QED
  BY <1>1, <1>2, <1>3 DEF PositionNext

(***************************************************************************)
(* total_pnl_ is the cash of the executions plus the value of the open     *)
(* position, off by what the first side's cost held before it was set:     *)
(* addFill and updateBBO lose and invent nothing.                          *)
(***************************************************************************)
THEOREM PositionProfit ==
  PositionSpec => []PnlOffByInitialCost
<1>1. ProfitInv => PnlOffByInitialCost
  BY WorthIsPnl DEF ProfitInv
<1> QED
  BY <1>1, ProfitInit, ProfitStep, PTL DEF PositionSpec

-----------------------------------------------------------------------------
(* The average cost of PositionKeeper. *)

Prices == {fills[i][2] : i \in DOMAIN fills}

(* The cost <<v, e>> of a position of size a is between l and h for each of a. *)
Between(v, e, a, l, h) == l * (e * a) <= v /\ v <= h * (e * a)

(***************************************************************************)
(* The average is between two prices executed, if the first side traded    *)
(* began without a cost.                                                   *)
(***************************************************************************)
AverageInv ==
  position # 0 /\ offset[1] = 0 =>
    \E l, h \in Prices : Between(open_vwap[SideOf(position)][1], open_vwap[SideOf(position)][2], Abs(position), l, h)

(* A product is monotone. *)
LEMMA Monotone ==
  ASSUME NEW x \in Int, NEW y \in Int, x <= y, NEW a \in Nat
  PROVE  x * a <= y * a
  OBVIOUS

(* Adding q at p widens the bounds to p at most. *)
LEMMA BetweenIncreased ==
  ASSUME NEW v \in Int, NEW e \in Nat \ {0}, NEW a \in Nat, NEW l \in Nat, NEW h \in Nat,
         NEW p \in Nat, NEW q \in Nat, Between(v, e, a, l, h),
         NEW i \in Nat, i <= l, i <= p, NEW j \in Nat, h <= j, p <= j
  PROVE  Between(v + (p * q) * e, e, a + q, i, j)
<1>1. PICK g \in Nat, b \in Nat : g = e * a /\ b = e * q
  OBVIOUS
<1>2. l * g <= v /\ v <= h * g
  BY <1>1 DEF Between
<1>3. i * g <= l * g /\ h * g <= j * g /\ i * b <= p * b /\ p * b <= j * b
  BY Monotone
<1>4. (p * q) * e = p * b /\ e * (a + q) = g + b
  BY <1>1
<1>5. i * (g + b) = i * g + i * b /\ j * (g + b) = j * g + j * b
  OBVIOUS
<1>6. i * (g + b) <= v + p * b /\ v + p * b <= j * (g + b)
  BY <1>2, <1>3, <1>5
<1> QED
  BY <1>4, <1>6 DEF Between

(* Closing all but b of a keeps the bounds. *)
LEMMA BetweenReduced ==
  ASSUME NEW v \in Int, NEW e \in Nat \ {0}, NEW a \in Nat, NEW l \in Nat, NEW h \in Nat, NEW b \in Nat,
         Between(v, e, a, l, h)
  PROVE  Between(v * b, e * a, b, l, h)
<1>1. PICK g \in Nat : g = e * a
  OBVIOUS
<1>2. l * g <= v /\ v <= h * g
  BY <1>1 DEF Between
<1>3. (l * g) * b <= v * b /\ v * b <= (h * g) * b
  BY <1>2, Monotone
<1>4. (l * g) * b = l * (g * b) /\ (h * g) * b = h * (g * b)
  OBVIOUS
<1> QED
  BY <1>1, <1>3, <1>4 DEF Between

(* What is opened at p costs p for each. *)
LEMMA BetweenOpened ==
  ASSUME NEW p \in Nat, NEW b \in Nat
  PROVE  Between(p * b, 1, b, p, p)
  BY DEF Between

(* The cost of what an execution adds to. *)
LEMMA CostIncreased ==
  ASSUME NEW n \in Int, NEW side \in Side, NEW p \in Nat, NEW q \in Nat \ {0}, n * sideToValue(side) >= 0,
         open_vwap \in [Side -> Rational], NEW m \in Int, m = n + q * sideToValue(side),
         NEW v \in Int, NEW e \in Nat \ {0}, open_vwap[side] = <<v, e>>
  PROVE  /\ m # 0 /\ SideOf(m) = side /\ Abs(m) = Abs(n) + q /\ (n # 0 => SideOf(n) = side)
         /\ OpenVwap(side, p, q, n, m)[side] = <<v + (p * q) * e, e>>
<1>1. m # 0 /\ SideOf(m) = side /\ Abs(m) = Abs(n) + q /\ (n # 0 => SideOf(n) = side)
  <2>1. CASE side = "BUY"
    BY <2>1 DEF sideToValue, SideOf, Abs
  <2>2. CASE side = "SELL"
    BY <2>2 DEF sideToValue, SideOf, Abs
  <2> QED
    BY <2>1, <2>2 DEF Side
<1>2. PICK c \in Int : c = p * q
  OBVIOUS
<1>3. Plus(<<v, e>>, Rat(c)) = <<v + c * e, e>>
  BY PlusRat, Zenon
<1>4. OpenVwap(side, p, q, n, m)[side] = <<v + c * e, e>>
  BY <1>1, <1>2, <1>3 DEF OpenVwap
<1> QED
  BY <1>1, <1>2, <1>4, Zenon

(* The cost of what an execution opens beyond the position, or leaves of it. *)
LEMMA CostReduced ==
  ASSUME NEW n \in Int, NEW side \in Side, NEW p \in Nat, NEW q \in Nat \ {0}, n * sideToValue(side) < 0,
         open_vwap \in [Side -> Rational], NEW m \in Int, m = n + q * sideToValue(side), m # 0
  PROVE  \/ OpenVwap(side, p, q, n, m)[SideOf(m)] = <<p * Abs(m), 1>>
         \/ OpenVwap(side, p, q, n, m)[SideOf(m)] =
              <<open_vwap[SideOf(n)][1] * Abs(m), open_vwap[SideOf(n)][2] * Abs(n)>>
<1>1. PICK a \in Nat : a = Abs(n)
  BY DEF Abs
<1>2. ~(n * sideToValue(side) >= 0) /\ SideOf(n) = Opposite(side) /\ side # Opposite(side) /\ Opposite(side) \in Side
  BY DEF sideToValue, Side, SideOf, Opposite
<1>3. /\ q = a => m = 0
      /\ q > a => m # 0 /\ m * n < 0 /\ Abs(m) = q - a /\ SideOf(m) = side /\ SignOf(m) = sideToValue(side)
      /\ q < a => /\ m # 0 /\ ~(m * n < 0) /\ Abs(m) = a - q /\ SideOf(m) = Opposite(side)
                  /\ SignOf(m) = -sideToValue(side)
  BY <1>1, Moved, SMT
<1>4. CASE q > a
  BY <1>2, <1>3, <1>4 DEF OpenVwap, Rat
<1>5. CASE q < a
  <2>1. OpenVwap(side, p, q, n, m) = [open_vwap EXCEPT ![Opposite(side)] = Over(Scale(@, Abs(m)), Abs(n))]
    BY <1>2, <1>3, <1>5 DEF OpenVwap
  <2>2. \A w : Over(Scale(w, Abs(m)), Abs(n)) = <<w[1] * Abs(m), w[2] * Abs(n)>>
    BY DEF Over, Scale
  <2> QED
    BY <1>2, <1>3, <1>5, <2>1, <2>2, Zenon
<1> QED
  BY <1>3, <1>4, <1>5

(* addFill adds its price to the prices executed. *)
LEMMA PricesGrow ==
  ASSUME ProfitInv, NEW side \in Side, NEW p \in Price, NEW q \in Qty, addFill(side, p, q)
  PROVE  Prices' = Prices \cup {p} /\ Prices \subseteq Nat
<1>1. PICK s : s = fills /\ s \in Seq(Side \X Price \X Qty)
  BY DEF ProfitInv, PositionTypes
<1>2. fills' = Append(s, <<side, p, q>>)
  BY <1>1 DEF addFill
<1>3. {Append(s, <<side, p, q>>)[i][2] : i \in DOMAIN Append(s, <<side, p, q>>)} = {s[i][2] : i \in DOMAIN s} \cup {p}
  <2>1. DOMAIN Append(s, <<side, p, q>>) = 1 .. Len(s) + 1 /\ DOMAIN s = 1 .. Len(s) /\ Len(s) \in Nat
    BY <1>1
  <2>2. \A i \in 1 .. Len(s) : Append(s, <<side, p, q>>)[i] = s[i]
    BY <1>1
  <2>3. Append(s, <<side, p, q>>)[Len(s) + 1] = <<side, p, q>>
    BY <1>1
  <2>4. \A i \in 1 .. Len(s) + 1 : i \in 1 .. Len(s) \/ i = Len(s) + 1
    BY <2>1
  <2>5. Len(s) + 1 \in 1 .. Len(s) + 1 /\ 1 .. Len(s) \subseteq 1 .. Len(s) + 1
    BY <2>1
  <2> DEFINE a == Append(s, <<side, p, q>>)
  <2>6. a[Len(s) + 1][2] = p /\ \A i \in 1 .. Len(s) : a[i][2] = s[i][2]
    BY <2>2, <2>3
  <2> HIDE DEF a
  <2>7. {a[i][2] : i \in 1 .. Len(s) + 1} = {s[i][2] : i \in 1 .. Len(s)} \cup {p}
    BY <2>4, <2>5, <2>6
  <2> QED
    BY <2>1, <2>7, Zenon DEF a
<1>4. \A i \in DOMAIN s : s[i][2] \in Nat
  <2>1. \A i \in DOMAIN s : s[i] \in Side \X Price \X Qty
    BY <1>1
  <2>2. \A t \in Side \X Price \X Qty : t[2] \in Price
    OBVIOUS
  <2>3. Price \subseteq Nat
    BY PositionAssumption DEF PositionAssumption
  <2> QED
    BY <2>1, <2>2, <2>3, Zenon
<1> QED
  BY <1>1, <1>2, <1>3, <1>4 DEF Prices

(***************************************************************************)
(* addFill keeps the average between two prices executed: adding widens    *)
(* the bounds to the new price, closing keeps them, turning starts again   *)
(* at the new price.                                                       *)
(***************************************************************************)
LEMMA AverageFill ==
  ASSUME ProfitInv, AverageInv, NEW side \in Side, NEW p \in Price, NEW q \in Qty, addFill(side, p, q)
  PROVE  AverageInv'
<1> SUFFICES ASSUME position' # 0, offset'[1] = 0
             PROVE  \E l, h \in Prices' : Between(open_vwap'[SideOf(position')][1], open_vwap'[SideOf(position')][2],
                                                  Abs(position'), l, h)
  BY DEF AverageInv
<1>1. /\ p \in Nat /\ q \in Nat \ {0} /\ position \in Int /\ open_vwap \in [Side -> Rational]
      /\ offset \in Rational
  BY PositionAssumption DEF ProfitInv, PositionTypes, PositionAssumption
<1>2. PICK n \in Int, m \in Int : n = position /\ m = position' /\ m = n + q * sideToValue(side)
  BY <1>1 DEF addFill, sideToValue
<1>3. PICK a \in Nat, b \in Nat : a = Abs(n) /\ b = Abs(m)
  BY DEF Abs
<1>4. p \in Prices' /\ Prices \subseteq Prices' /\ Prices \subseteq Nat
  BY PricesGrow
<1>5. open_vwap' = OpenVwap(side, p, q, n, m)
  BY <1>2 DEF addFill
<1>6. ASSUME NEW v \in Int, NEW e \in Nat \ {0}, open_vwap'[SideOf(m)] = <<v, e>>,
             NEW l \in Prices', NEW h \in Prices', Between(v, e, b, l, h)
      PROVE  \E i, j \in Prices' : Between(open_vwap'[SideOf(position')][1], open_vwap'[SideOf(position')][2],
                                           Abs(position'), i, j)
  <2>1. open_vwap'[SideOf(position')][1] = v /\ open_vwap'[SideOf(position')][2] = e /\ Abs(position') = b
    BY <1>2, <1>3, <1>6
  <2> QED
    BY <1>6, <2>1, Zenon
<1>7. ASSUME p * b \in Int, open_vwap'[SideOf(m)] = <<p * b, 1>>
      PROVE  \E i, j \in Prices' : Between(open_vwap'[SideOf(position')][1], open_vwap'[SideOf(position')][2],
                                           Abs(position'), i, j)
  <2>1. Between(p * b, 1, b, p, p)
    BY <1>1, BetweenOpened
  <2>2. 1 \in Nat \ {0}
    OBVIOUS
  <2> QED
    BY <1>4, <1>6, <1>7, <2>1, <2>2, Zenon
<1>8. CASE n * sideToValue(side) >= 0
  <2>1. PICK v \in Int, e \in Nat \ {0} : open_vwap[side] = <<v, e>>
    BY <1>1 DEF Rational
  <2>2. /\ SideOf(m) = side /\ Abs(m) = Abs(n) + q /\ (n # 0 => SideOf(n) = side)
        /\ OpenVwap(side, p, q, n, m)[side] = <<v + (p * q) * e, e>>
    BY <1>1, <1>2, <1>8, <2>1, CostIncreased
  <2>3. CASE n = 0
    <3>1. v = 0 /\ e = 1
      <4>1. CASE fills = <<>>
        <5>1. e = 1 /\ offset' = Scale(<<v, e>>, -sideToValue(side))
          BY <2>1, <4>1 DEF ProfitInv, addFill
        <5>2. v * (-sideToValue(side)) = 0
          BY <5>1 DEF Scale
        <5>3. v = 0
          BY <5>2 DEF sideToValue
        <5> QED
          BY <5>1, <5>3
      <4>2. CASE fills # <<>>
        BY <1>2, <2>1, <2>3, <4>2 DEF ProfitInv, Rat
      <4> QED
        BY <4>1, <4>2
    <3>2. b = q /\ v + (p * q) * e = p * b /\ p * b \in Int
      BY <1>1, <1>3, <2>2, <2>3, <3>1 DEF Abs
    <3> QED
      BY <1>5, <1>7, <2>2, <3>1, <3>2, Zenon
  <2>4. CASE n # 0
    <3>1. offset[1] = 0
      <4>1. fills # <<>>
        BY <1>2, <2>4 DEF ProfitInv
      <4> QED
        BY <4>1 DEF addFill
    <3>2. PICK l \in Prices, h \in Prices : Between(v, e, a, l, h)
      BY <1>2, <1>3, <2>1, <2>2, <2>4, <3>1 DEF AverageInv
    <3>3. PICK i \in Prices' : i \in Nat /\ i <= l /\ i <= p
      BY <1>1, <1>4
    <3>4. PICK j \in Prices' : j \in Nat /\ h <= j /\ p <= j
      BY <1>1, <1>4
    <3>5. Between(v + (p * q) * e, e, a + q, i, j)
      BY <1>1, <1>4, <3>2, <3>3, <3>4, BetweenIncreased, Zenon
    <3>6. b = a + q /\ v + (p * q) * e \in Int
      BY <1>1, <1>3, <2>2
    <3> QED
      BY <1>5, <1>6, <2>2, <3>3, <3>4, <3>5, <3>6
  <2> QED
    BY <2>3, <2>4
<1>9. CASE n * sideToValue(side) < 0
  <2>1. n # 0 /\ SideOf(n) \in Side /\ offset[1] = 0
    <3>1. n # 0 /\ fills # <<>>
      BY <1>2, <1>9 DEF ProfitInv, sideToValue
    <3> QED
      BY <3>1 DEF addFill, SideOf, Side
  <2>2. PICK v \in Int, e \in Nat \ {0} : open_vwap[SideOf(n)] = <<v, e>>
    BY <1>1, <2>1 DEF Rational
  <2>3. PICK l \in Prices, h \in Prices : Between(v, e, a, l, h)
    BY <1>2, <1>3, <2>1, <2>2 DEF AverageInv
  <2>4. \/ open_vwap'[SideOf(m)] = <<p * b, 1>>
        \/ open_vwap'[SideOf(m)] = <<v * b, e * a>>
    <3>1. m # 0 /\ m = n + q * sideToValue(side)
      BY <1>2
    <3>2. \/ OpenVwap(side, p, q, n, m)[SideOf(m)] = <<p * Abs(m), 1>>
          \/ OpenVwap(side, p, q, n, m)[SideOf(m)] =
               <<open_vwap[SideOf(n)][1] * Abs(m), open_vwap[SideOf(n)][2] * Abs(n)>>
      BY <1>1, <1>9, <3>1, CostReduced
    <3>3. open_vwap[SideOf(n)][1] = v /\ open_vwap[SideOf(n)][2] = e
      BY <2>2
    <3> QED
      BY <1>3, <1>5, <3>2, <3>3, Zenon
  <2>5. CASE open_vwap'[SideOf(m)] = <<p * b, 1>>
    <3>1. p * b \in Int
      BY <1>1
    <3> QED
      BY <1>7, <2>5, <3>1, Zenon
  <2>6. CASE open_vwap'[SideOf(m)] = <<v * b, e * a>>
    <3>1. Between(v * b, e * a, b, l, h)
      BY <1>4, <2>3, BetweenReduced
    <3>2. v * b \in Int /\ e * a \in Nat \ {0}
      BY <1>3, <2>1 DEF Abs
    <3> QED
      BY <1>4, <1>6, <2>3, <2>6, <3>1, <3>2
  <2> QED
    BY <2>4, <2>5, <2>6
<1> QED
  BY <1>1, <1>2, <1>8, <1>9 DEF sideToValue

(* Every step keeps the bounds. *)
LEMMA AverageStep ==
  ProfitInv /\ AverageInv /\ [PositionNext]_positionVars => AverageInv'
<1> SUFFICES ASSUME ProfitInv, AverageInv, [PositionNext]_positionVars PROVE AverageInv'
  OBVIOUS
<1>1. ASSUME NEW side \in Side, NEW p \in Price, NEW q \in Qty, addFill(side, p, q) PROVE AverageInv'
  BY <1>1, AverageFill
<1>2. ASSUME NEW bid \in Price \cup {Invalid}, NEW ask \in Price \cup {Invalid}, updateBBO(bid, ask)
      PROVE  AverageInv'
  BY <1>2 DEF updateBBO, AverageInv, Prices
<1>3. CASE UNCHANGED positionVars
  BY <1>3, Zenon DEF positionVars, AverageInv, Prices
<1> QED
  BY <1>1, <1>2, <1>3 DEF PositionNext

(* The property of the runs, from the bounds without division. *)
LEMMA AverageOfInv ==
  ASSUME ProfitInv, AverageInv
  PROVE  AverageIsAPrice
<1> SUFFICES ASSUME position # 0, Eq(offset, Rat(0))
             PROVE  \E low, high \in Prices :
                      /\ Leq(Rat(low), Over(open_vwap[SideOf(position)], Abs(position)))
                      /\ Leq(Over(open_vwap[SideOf(position)], Abs(position)), Rat(high))
  BY DEF AverageIsAPrice, Prices, SideOf
<1>1. offset[1] = 0
  BY DEF ProfitInv, PositionTypes, Rational, Eq, Rat
<1>2. PICK v \in Int, e \in Nat \ {0} : open_vwap[SideOf(position)] = <<v, e>>
  BY DEF ProfitInv, PositionTypes, Rational, SideOf, Side
<1>3. PICK l \in Prices, h \in Prices : Between(v, e, Abs(position), l, h)
  BY <1>1, <1>2 DEF AverageInv
<1>4. PICK g \in Int : g = e * Abs(position)
  BY DEF ProfitInv, PositionTypes, Abs
<1>5. Over(open_vwap[SideOf(position)], Abs(position)) = <<v, g>>
  BY <1>2, <1>4 DEF Over
<1>6. l * g <= v * 1 /\ v * 1 <= h * g
  BY <1>3, <1>4 DEF Between
<1> QED
  BY <1>5, <1>6 DEF Leq, Rat

(***************************************************************************)
(* The average cost of the open position is between two prices executed,   *)
(* whatever addFill did to the position, if the first side began without a *)
(* cost.                                                                   *)
(***************************************************************************)
THEOREM PositionAverage ==
  PositionSpec => []AverageIsAPrice
<1>1. PositionInit => AverageInv
  BY DEF PositionInit, AverageInv
<1> QED
  BY <1>1, ProfitInit, ProfitStep, AverageStep, AverageOfInv, PTL DEF PositionSpec

-----------------------------------------------------------------------------
-----------------------------------------------------------------------------
(* The byte stream of TCPSocket. *)

Byte == Nat \X Nat

\* The byte at position p of all the messages sent, put together.
ByteAt(p) == <<(p - 1) \div FrameLen + 1, ((p - 1) % FrameLen) + 1>>

\* The sequence s is the bytes that follow position p.
Follows(s, p) == \A i \in 1 .. Len(s) : s[i] = ByteAt(p + i)

\* The buffer b starts again with the data d.
Rewound(b, d) == [b EXCEPT !.data = d, !.index = 0]

\* The buffer b with the data d.
WithData(b, d) == [b EXCEPT !.data = d]

Buffer == {b \in [data : Seq(Byte), index : Nat, asserted : BOOLEAN] : b.index <= Len(b.data)}

\* Positions: the end of the frames taken, of the partial frame, of the stream.
Taken == Len(received) * FrameLen
Buffered == Taken + Len(inbound)
Transmitted == Buffered + Len(stream)

(***************************************************************************)
(* The inductive invariant: every part of the connection holds the bytes   *)
(* that follow the part before it.  What the kernel has taken stays a      *)
(* prefix of the messages sent after an error closed the sending socket;   *)
(* until then the send buffer holds all the rest.                          *)
(***************************************************************************)
StreamInv ==
  /\ out \in Buffer /\ sent \in Nat /\ wclosed \in BOOLEAN
  /\ stream \in Seq(Byte) /\ inbound \in Seq(Byte) /\ received \in Seq(Seq(Byte))
  /\ \A i \in 1 .. Len(received) : received[i] = Frame(i)
  /\ Follows(inbound, Taken)
  /\ Follows(stream, Buffered)
  /\ Transmitted <= sent * FrameLen
  /\ ~wclosed /\ ~out.asserted =>
       Follows(Pending(out), Transmitted) /\ Transmitted + Len(Pending(out)) = sent * FrameLen

(* What the provers need of sequences. *)
LEMMA SubSeqIs ==
  ASSUME NEW S, NEW s \in Seq(S), NEW m \in Int, NEW n \in Int, 1 <= m, n <= Len(s), m <= n + 1
  PROVE  /\ SubSeq(s, m, n) \in Seq(S) /\ Len(SubSeq(s, m, n)) = n - m + 1
         /\ \A i \in 1 .. n - m + 1 : SubSeq(s, m, n)[i] = s[m + i - 1]
  OBVIOUS

(* Sequences with the same elements are equal. *)
LEMMA SameElements ==
  ASSUME NEW S, NEW s \in Seq(S), NEW t \in Seq(S),
         Len(s) = Len(t), \A i \in 1 .. Len(s) : s[i] = t[i]
  PROVE  s = t
  OBVIOUS

(* The length of a concatenation. *)
LEMMA ConcatIs ==
  ASSUME NEW S, NEW s \in Seq(S), NEW t \in Seq(S)
  PROVE  s \o t \in Seq(S) /\ Len(s \o t) = Len(s) + Len(t)
  OBVIOUS

(* Byte k of message a + 1, by its position. *)
LEMMA BytePosition ==
  ASSUME NEW a \in Nat, NEW k \in 1 .. FrameLen
  PROVE  ByteAt(a * FrameLen + k) = <<a + 1, k>>
<1>1. FrameLen \in Nat \ {0}
  BY TCPAssumption
<1>2. (a * FrameLen + k - 1) \div FrameLen = a /\ (a * FrameLen + k - 1) % FrameLen = k - 1
  BY <1>1
<1> QED
  BY <1>1, <1>2 DEF ByteAt

(* A position is of a byte of some message. *)
LEMMA PositionByte ==
  ASSUME NEW p \in Nat \ {0}
  PROVE  /\ (p - 1) \div FrameLen \in Nat /\ (p - 1) % FrameLen \in 0 .. FrameLen - 1
         /\ ByteAt(p) \in Byte
         /\ \A n \in Nat : p <= n * FrameLen => (p - 1) \div FrameLen < n
<1>1. FrameLen \in Nat \ {0} /\ p - 1 \in Nat
  BY TCPAssumption
<1>2. (p - 1) \div FrameLen \in Nat /\ (p - 1) % FrameLen \in 0 .. FrameLen - 1
  BY <1>1
<1>3. ASSUME NEW n \in Nat, p <= n * FrameLen PROVE (p - 1) \div FrameLen < n
  BY <1>1, <1>2, <1>3
<1> QED
  BY <1>2, <1>3 DEF ByteAt, Byte

(* The bytes of a frame follow the frames before it. *)
LEMMA FrameFollows ==
  ASSUME NEW n \in Nat
  PROVE  /\ Frame(n + 1) \in Seq(Byte) /\ Len(Frame(n + 1)) = FrameLen
         /\ Follows(Frame(n + 1), n * FrameLen)
<1>1. FrameLen \in Nat
  BY TCPAssumption
<1>2. Frame(n + 1) \in Seq(Byte) /\ Len(Frame(n + 1)) = FrameLen
  BY <1>1 DEF Frame, Byte
<1> QED
  BY <1>1, <1>2, BytePosition DEF Frame, Follows

(* A part of a sequence follows its own position. *)
LEMMA SubSeqFollows ==
  ASSUME NEW s \in Seq(Byte), NEW p \in Nat, Follows(s, p),
         NEW m \in 1 .. Len(s) + 1, NEW n \in 0 .. Len(s), m <= n + 1
  PROVE  /\ SubSeq(s, m, n) \in Seq(Byte) /\ Len(SubSeq(s, m, n)) = n - m + 1
         /\ Follows(SubSeq(s, m, n), p + m - 1)
<1>1. m \in Int /\ n \in Int /\ 1 <= m /\ n <= Len(s)
  OBVIOUS
<1>2. /\ SubSeq(s, m, n) \in Seq(Byte) /\ Len(SubSeq(s, m, n)) = n - m + 1
      /\ \A i \in 1 .. n - m + 1 : SubSeq(s, m, n)[i] = s[m + i - 1]
  BY <1>1, SubSeqIs
<1>3. ASSUME NEW i \in 1 .. n - m + 1 PROVE SubSeq(s, m, n)[i] = ByteAt(p + m - 1 + i)
  <2>1. m + i - 1 \in 1 .. Len(s) /\ p + (m + i - 1) = p + m - 1 + i
    OBVIOUS
  <2>2. s[m + i - 1] = ByteAt(p + (m + i - 1))
    BY <2>1 DEF Follows
  <2> QED
    BY <1>2, <2>1, <2>2
<1> QED
  BY <1>2, <1>3 DEF Follows

(* A sequence and what follows it, put together. *)
LEMMA ConcatFollows ==
  ASSUME NEW s \in Seq(Byte), NEW t \in Seq(Byte), NEW p \in Nat,
         Follows(s, p), Follows(t, p + Len(s))
  PROVE  s \o t \in Seq(Byte) /\ Len(s \o t) = Len(s) + Len(t) /\ Follows(s \o t, p)
<1>1. s \o t \in Seq(Byte) /\ Len(s \o t) = Len(s) + Len(t)
  OBVIOUS
<1>2. ASSUME NEW i \in 1 .. Len(s) + Len(t) PROVE (s \o t)[i] = ByteAt(p + i)
  <2>1. CASE i <= Len(s)
    BY <2>1 DEF Follows
  <2>2. CASE i > Len(s)
    <3>1. i - Len(s) \in 1 .. Len(t) /\ p + Len(s) + (i - Len(s)) = p + i
      BY <2>2
    <3>2. t[i - Len(s)] = ByteAt(p + Len(s) + (i - Len(s)))
      BY <3>1 DEF Follows
    <3> QED
      BY <2>2, <3>1, <3>2
  <2> QED
    BY <2>1, <2>2
<1> QED
  BY <1>1, <1>2 DEF Follows

(* What is left to send. *)
LEMMA PendingBytes ==
  ASSUME NEW b \in Buffer
  PROVE  /\ Pending(b) \in Seq(Byte) /\ Len(Pending(b)) = Len(b.data) - b.index
         /\ \A i \in 1 .. Len(b.data) - b.index : Pending(b)[i] = b.data[b.index + i]
<1>1. b.data \in Seq(Byte) /\ b.index \in Nat /\ b.index <= Len(b.data)
  BY DEF Buffer
<1>2. PICK m \in Nat, n \in Nat : m = b.index /\ n = Len(b.data)
  BY <1>1
<1>3. m + 1 \in Int /\ n \in Int /\ 1 <= m + 1 /\ n <= Len(b.data) /\ m + 1 <= n + 1
  BY <1>1, <1>2
<1>4. /\ Pending(b) \in Seq(Byte) /\ Len(Pending(b)) = n - (m + 1) + 1
      /\ \A i \in 1 .. n - (m + 1) + 1 : Pending(b)[i] = b.data[m + 1 + i - 1]
  BY <1>1, <1>2, <1>3, SubSeqIs DEF Pending
<1>5. n - (m + 1) + 1 = n - m /\ \A i \in 1 .. n - m : m + 1 + i - 1 = m + i
  OBVIOUS
<1>6. Len(Pending(b)) = n - m /\ \A i \in 1 .. n - m : Pending(b)[i] = b.data[m + i]
  BY <1>4, <1>5
<1> QED
  BY <1>2, <1>4, <1>6

(* A buffer by its fields. *)
LEMMA BufferOf ==
  ASSUME NEW d \in Seq(Byte), NEW i \in 0 .. Len(d), NEW a \in BOOLEAN,
         NEW b, b = [data |-> d, index |-> i, asserted |-> a]
  PROVE  b \in Buffer /\ b.data = d /\ b.index = i /\ b.asserted = a
  BY DEF Buffer

(* What makes a record a buffer. *)
LEMMA InBuffer ==
  ASSUME NEW b \in [data : Seq(Byte), index : Nat, asserted : BOOLEAN], b.index <= Len(b.data)
  PROVE  b \in Buffer
  BY DEF Buffer

(* The fields after the buffer is rewound. *)
LEMMA RecordFields ==
  ASSUME NEW D, NEW I, NEW b \in [data : D, index : I, asserted : BOOLEAN], NEW d \in D, 0 \in I,
         NEW c, c = Rewound(b, d)
  PROVE  /\ c \in [data : D, index : I, asserted : BOOLEAN]
         /\ c.data = d /\ c.index = 0 /\ c.asserted = b.asserted
  BY Zenon DEF Rewound

(* The fields after the data of a buffer changed. *)
LEMMA RecordData ==
  ASSUME NEW D, NEW I, NEW b \in [data : D, index : I, asserted : BOOLEAN], NEW d \in D,
         NEW c, c = WithData(b, d)
  PROVE  /\ c \in [data : D, index : I, asserted : BOOLEAN]
         /\ c.data = d /\ c.index = b.index /\ c.asserted = b.asserted
  BY DEF WithData

(* The fields of a buffer, and of one whose index moved. *)
LEMMA BufferFields ==
  ASSUME NEW b \in Buffer
  PROVE  /\ b.data \in Seq(Byte) /\ b.index \in 0 .. Len(b.data) /\ b.asserted \in BOOLEAN
         /\ \A i \in Nat : [b EXCEPT !.index = i] = [data |-> b.data, index |-> i, asserted |-> b.asserted]
  BY DEF Buffer

(* A buffer that starts again with the data d. *)
LEMMA BufferRewound ==
  ASSUME NEW b \in Buffer, NEW d \in Seq(Byte)
  PROVE  /\ Rewound(b, d) \in Buffer /\ Rewound(b, d).data = d /\ Rewound(b, d).index = 0
         /\ Rewound(b, d).asserted = b.asserted
<1>1. b \in [data : Seq(Byte), index : Nat, asserted : BOOLEAN]
  BY DEF Buffer
<1>2. PICK c : c = Rewound(b, d)
  OBVIOUS
<1>3. /\ c \in [data : Seq(Byte), index : Nat, asserted : BOOLEAN]
      /\ c.data = d /\ c.index = 0 /\ c.asserted = b.asserted
  BY <1>1, <1>2, RecordFields
<1>4. c.index <= Len(c.data)
  BY <1>3
<1> QED
  BY <1>2, <1>3, <1>4, InBuffer

(* A buffer that gets the data d. *)
LEMMA BufferWithData ==
  ASSUME NEW b \in Buffer, NEW d \in Seq(Byte), b.index <= Len(d)
  PROVE  /\ WithData(b, d) \in Buffer /\ WithData(b, d).data = d /\ WithData(b, d).index = b.index
         /\ WithData(b, d).asserted = b.asserted
<1>1. b \in [data : Seq(Byte), index : Nat, asserted : BOOLEAN]
  BY DEF Buffer
<1>2. PICK c : c = WithData(b, d)
  OBVIOUS
<1>3. /\ c \in [data : Seq(Byte), index : Nat, asserted : BOOLEAN]
      /\ c.data = d /\ c.index = b.index /\ c.asserted = b.asserted
  BY <1>1, <1>2, RecordData
<1>4. c.index <= Len(c.data)
  BY <1>3
<1> QED
  BY <1>2, <1>3, <1>4, InBuffer

(* Dropping the first n elements before or after a concatenation. *)
LEMMA DropConcat ==
  ASSUME NEW s \in Seq(Byte), NEW t \in Seq(Byte), NEW u \in Seq(Byte), NEW n \in 0 .. Len(s),
         Len(u) = Len(s) - n, \A i \in 1 .. Len(s) - n : u[i] = s[n + i],
         NEW i \in 1 .. Len(s) - n + Len(t)
  PROVE  (s \o t)[n + i] = (u \o t)[i]
<1>1. CASE i <= Len(u)
  BY <1>1
<1>2. CASE i > Len(u)
  BY <1>2
<1> QED
  BY <1>1, <1>2

(* Bytes put at the end of the buffer. *)
LEMMA BufferAdds ==
  ASSUME NEW b \in Buffer, NEW bytes \in Seq(Byte),
         NEW c, c = WithData(b, b.data \o bytes)
  PROVE  c \in Buffer /\ c.asserted = b.asserted /\ Pending(c) = Pending(b) \o bytes
<1>1. b.data \in Seq(Byte) /\ b.index \in 0 .. Len(b.data) /\ b.asserted \in BOOLEAN
  BY DEF Buffer
<1>2. PICK d \in Seq(Byte) : d = b.data \o bytes /\ Len(d) = Len(b.data) + Len(bytes)
  <2>1. b.data \o bytes \in Seq(Byte) /\ Len(b.data \o bytes) = Len(b.data) + Len(bytes)
    BY <1>1, ConcatIs
  <2> QED
    BY <2>1, Zenon
<1>3. c = WithData(b, d) /\ b.index <= Len(d)
  BY <1>1, <1>2
<1>4. c.data = d /\ c.index = b.index /\ c.asserted = b.asserted /\ c \in Buffer
  BY <1>3, BufferWithData
<1>5. PICK n \in Nat : n = Len(b.data) - b.index
  BY <1>1
<1>6. PICK u \in Seq(Byte) : u = Pending(b) /\ Len(u) = n /\ \A i \in 1 .. n : u[i] = b.data[b.index + i]
  BY <1>5, PendingBytes
<1>7. /\ Pending(c) \in Seq(Byte) /\ Len(Pending(c)) = n + Len(bytes)
      /\ \A i \in 1 .. n + Len(bytes) : Pending(c)[i] = d[b.index + i]
  <2>1. Len(d) - b.index = n + Len(bytes)
    BY <1>1, <1>2, <1>5
  <2> QED
    BY <1>4, <2>1, PendingBytes, Zenon
<1>8. ASSUME NEW i \in 1 .. n + Len(bytes) PROVE d[b.index + i] = (u \o bytes)[i]
  <2>1. Len(u) = Len(b.data) - b.index /\ \A k \in 1 .. Len(b.data) - b.index : u[k] = b.data[b.index + k]
    BY <1>5, <1>6
  <2>2. i \in 1 .. Len(b.data) - b.index + Len(bytes)
    BY <1>5
  <2>3. (b.data \o bytes)[b.index + i] = (u \o bytes)[i]
    <3>1. PICK s \in Seq(Byte) : s = b.data
      BY <1>1, Zenon
    <3>2. PICK m \in 0 .. Len(s) : m = b.index
      BY <1>1, <3>1, Zenon
    <3>3. /\ Len(u) = Len(s) - m /\ i \in 1 .. Len(s) - m + Len(bytes)
          /\ \A k \in 1 .. Len(s) - m : u[k] = s[m + k]
      BY <2>1, <2>2, <3>1, <3>2, Zenon
    <3>4. (s \o bytes)[m + i] = (u \o bytes)[i]
      BY <3>3, DropConcat, Zenon
    <3> QED
      BY <3>1, <3>2, <3>4, Zenon
  <2> QED
    BY <1>2, <2>3, Zenon
<1>9. u \o bytes \in Seq(Byte) /\ Len(u \o bytes) = n + Len(bytes)
  BY <1>6
<1>10. Pending(c) = u \o bytes
  BY <1>7, <1>8, <1>9, SameElements, Zenon
<1> QED
  BY <1>4, <1>6, <1>10, Zenon

(***************************************************************************)
(* send adds the bytes to what is left to send, whether it moves the       *)
(* buffer down or not, unless the capacity ASSERT ends the process.        *)
(***************************************************************************)
LEMMA SendAdds ==
  ASSUME NEW b \in Buffer, NEW bytes \in Seq(Byte)
  PROVE  /\ send(b, bytes) \in Buffer
         /\ ~send(b, bytes).asserted => ~b.asserted /\ Pending(send(b, bytes)) = Pending(b) \o bytes
<1>1. b.data \in Seq(Byte) /\ b.index \in Nat /\ b.index <= Len(b.data) /\ b.asserted \in BOOLEAN
  BY DEF Buffer
<1>2. /\ Pending(b) \in Seq(Byte) /\ Len(Pending(b)) = Len(b.data) - b.index
      /\ \A i \in 1 .. Len(b.data) - b.index : Pending(b)[i] = b.data[b.index + i]
  BY PendingBytes
<1>3. PICK c : c = IF Len(b.data) + Len(bytes) > BufferSize /\ b.index > 0
                   THEN [b EXCEPT !.data = Pending(b), !.index = 0] ELSE b
  OBVIOUS
<1>4. c \in Buffer /\ Pending(c) = Pending(b) /\ c.asserted = b.asserted
  <2>1. CASE c = b
    BY <2>1
  <2>2. CASE c = Rewound(b, Pending(b))
    <3>1. c \in Buffer /\ c.data = Pending(b) /\ c.index = 0 /\ c.asserted = b.asserted
      BY <1>2, <2>2, BufferRewound
    <3>2. Pending(c) = SubSeq(Pending(b), 1, Len(Pending(b)))
      BY <3>1 DEF Pending
    <3>3. SubSeq(Pending(b), 1, Len(Pending(b))) = Pending(b)
      BY <1>2
    <3> QED
      BY <3>1, <3>2, <3>3
  <2> QED
    BY <1>3, <2>1, <2>2 DEF Rewound
<1>5. CASE b.asserted
  BY <1>5 DEF send
<1>6. CASE ~b.asserted /\ Len(c.data) + Len(bytes) > BufferSize
  <2>1. send(b, bytes) = [c EXCEPT !.asserted = TRUE]
    BY <1>3, <1>6 DEF send
  <2> QED
    BY <1>4, <2>1, Zenon DEF Buffer
<1>7. CASE ~b.asserted /\ ~(Len(c.data) + Len(bytes) > BufferSize)
  <2>1. send(b, bytes) = [c EXCEPT !.data = c.data \o bytes]
    BY <1>3, <1>7 DEF send
  <2> QED
    BY <1>4, <1>7, <2>1, BufferAdds, Zenon DEF WithData
<1> QED
  BY <1>5, <1>6, <1>7

(* The positions are numbers. *)
LEMMA BufferPositions ==
  ASSUME StreamInv
  PROVE  Taken \in Nat /\ Buffered \in Nat /\ Transmitted \in Nat /\ sent * FrameLen \in Nat
<1>1. FrameLen \in Nat /\ sent \in Nat
  BY TCPAssumption DEF StreamInv
<1>2. Len(received) \in Nat /\ Len(inbound) \in Nat /\ Len(stream) \in Nat
  BY DEF StreamInv
<1>3. Taken \in Nat
  BY <1>1, <1>2 DEF Taken
<1> QED
  BY <1>1, <1>2, <1>3 DEF Buffered, Transmitted

(* A message passed to send follows the ones before it. *)
LEMMA MessageKeeps ==
  ASSUME StreamInv, sendMessage
  PROVE  StreamInv'
<1>1. FrameLen \in Nat /\ FrameLen > 1
  BY TCPAssumption
<1>2. /\ sent \in Nat /\ sent' = sent + 1 /\ sent * FrameLen \in Nat
      /\ sent' * FrameLen = sent * FrameLen + FrameLen
  BY <1>1 DEF StreamInv, sendMessage
<1>3. UNCHANGED <<wclosed, stream, inbound, received, Taken, Buffered, Transmitted>>
  BY DEF sendMessage, reader, Taken, Buffered, Transmitted
<1>4. Transmitted \in Nat /\ Transmitted <= sent' * FrameLen
  <2>1. Transmitted \in Nat /\ Transmitted <= sent * FrameLen
    BY BufferPositions DEF StreamInv
  <2> QED
    BY <1>1, <1>2, <2>1
<1>5. /\ out' \in Buffer
      /\ ~wclosed /\ ~out'.asserted =>
           /\ Follows(Pending(out'), Transmitted)
           /\ Transmitted + Len(Pending(out')) = sent' * FrameLen
  <2>1. CASE wclosed
    BY <2>1 DEF StreamInv, sendMessage
  <2>2. CASE ~wclosed
    <3>1. /\ ~out.asserted /\ out \in Buffer
          /\ Follows(Pending(out), Transmitted) /\ Transmitted + Len(Pending(out)) = sent * FrameLen
      BY <2>2 DEF StreamInv, sendMessage
    <3>2. /\ Frame(sent + 1) \in Seq(Byte) /\ Len(Frame(sent + 1)) = FrameLen
          /\ Follows(Frame(sent + 1), sent * FrameLen)
      BY <1>2, FrameFollows
    <3>3. PICK f \in Seq(Byte) : /\ f = SubSeq(Frame(sent + 1), 1, 1)
                                 /\ Len(f) = 1 /\ Follows(f, sent * FrameLen)
      <4>1. 1 \in 1 .. FrameLen + 1 /\ 1 \in 0 .. FrameLen /\ 1 <= 1 + 1 /\ 1 - 1 + 1 = 1
        BY <1>1
      <4>2. /\ SubSeq(Frame(sent + 1), 1, 1) \in Seq(Byte)
            /\ Len(SubSeq(Frame(sent + 1), 1, 1)) = 1 - 1 + 1
            /\ Follows(SubSeq(Frame(sent + 1), 1, 1), sent * FrameLen + 1 - 1)
        BY <1>2, <3>2, <4>1, SubSeqFollows
      <4>3. sent * FrameLen + 1 - 1 = sent * FrameLen
        BY <1>2
      <4> QED
        BY <4>1, <4>2, <4>3, Zenon
    <3>4. PICK g \in Seq(Byte) : /\ g = SubSeq(Frame(sent + 1), 2, FrameLen)
                                 /\ Len(g) = FrameLen - 1 /\ Follows(g, sent * FrameLen + 1)
      <4>1. 2 \in 1 .. FrameLen + 1 /\ FrameLen \in 0 .. FrameLen /\ 2 <= FrameLen + 1
        BY <1>1
      <4>2. /\ SubSeq(Frame(sent + 1), 2, FrameLen) \in Seq(Byte)
            /\ Len(SubSeq(Frame(sent + 1), 2, FrameLen)) = FrameLen - 2 + 1
            /\ Follows(SubSeq(Frame(sent + 1), 2, FrameLen), sent * FrameLen + 2 - 1)
        BY <1>2, <3>2, <4>1, SubSeqFollows
      <4>3. sent * FrameLen + 2 - 1 = sent * FrameLen + 1 /\ FrameLen - 2 + 1 = FrameLen - 1
        BY <1>1, <1>2
      <4> QED
        BY <4>2, <4>3, Zenon
    <3>5. out' = send(send(out, f), g)
      BY <2>2, <3>3, <3>4 DEF sendMessage
    <3>6. PICK b \in Buffer : b = send(out, f) /\ (~b.asserted => Pending(b) = Pending(out) \o f)
      BY <3>1, SendAdds
    <3>7. out' \in Buffer /\ (~out'.asserted => ~b.asserted /\ Pending(out') = Pending(b) \o g)
      BY <3>5, <3>6, SendAdds, Zenon
    <3>8. CASE ~out'.asserted
      <4>1. PICK u \in Seq(Byte) : /\ u = Pending(out) /\ Follows(u, Transmitted)
                                   /\ Transmitted + Len(u) = sent * FrameLen
        BY <3>1, PendingBytes
      <4>2. PICK v \in Seq(Byte) : /\ v = u \o f /\ Follows(v, Transmitted)
                                   /\ Len(v) = Len(u) + Len(f)
        <5>1. Follows(f, Transmitted + Len(u))
          BY <3>3, <4>1
        <5>2. u \o f \in Seq(Byte) /\ Len(u \o f) = Len(u) + Len(f) /\ Follows(u \o f, Transmitted)
          BY <1>4, <4>1, <5>1, ConcatFollows, Zenon
        <5> QED
          BY <5>2, Zenon
      <4>3. Transmitted + Len(v) = sent * FrameLen + 1
        BY <1>2, <1>4, <3>3, <4>1, <4>2
      <4>4. Follows(v \o g, Transmitted) /\ Len(v \o g) = Len(v) + Len(g)
        BY <1>4, <3>4, <4>2, <4>3, ConcatFollows, Zenon
      <4>5. Pending(out') = v \o g
        BY <3>6, <3>7, <3>8, <4>1, <4>2, Zenon
      <4>6. Transmitted + (Len(v) + Len(g)) = sent' * FrameLen
        <5>1. PICK t \in Nat : t = sent * FrameLen /\ sent' * FrameLen = t + FrameLen
          BY <1>2
        <5>2. /\ Len(v) \in Nat /\ Transmitted \in Nat /\ Transmitted + Len(v) = t + 1
              /\ Len(g) = FrameLen - 1
          BY <1>4, <3>4, <4>2, <4>3, <5>1
        <5>3. Transmitted + (Len(v) + Len(g)) = t + FrameLen
          BY <1>1, <5>2
        <5> QED
          BY <5>1, <5>3
      <4> QED
        BY <3>7, <4>4, <4>5, <4>6
    <3> QED
      BY <3>7, <3>8
  <2> QED
    BY <2>1, <2>2
<1> QED
  BY <1>2, <1>3, <1>4, <1>5 DEF StreamInv

(* The kernel takes the first n bytes of the send buffer. *)
LEMMA TransmitKeeps ==
  ASSUME StreamInv, transmit
  PROVE  StreamInv'
<1>1. /\ Taken \in Nat /\ Buffered \in Nat /\ Transmitted \in Nat /\ sent * FrameLen \in Nat
      /\ stream \in Seq(Byte) /\ Follows(stream, Buffered) /\ Transmitted = Buffered + Len(stream)
  BY BufferPositions DEF StreamInv, Transmitted
<1>2. /\ ~wclosed /\ ~out.asserted /\ out \in Buffer
      /\ Follows(Pending(out), Transmitted) /\ Transmitted + Len(Pending(out)) = sent * FrameLen
  BY DEF StreamInv, transmit
<1>3. PICK u \in Seq(Byte) : /\ u = Pending(out) /\ Len(u) = Len(out.data) - out.index
                             /\ \A i \in 1 .. Len(u) : u[i] = out.data[out.index + i]
  BY <1>2, PendingBytes
<1>4. PICK n \in 1 .. Len(u) :
        /\ stream' = stream \o SubSeq(u, 1, n)
        /\ out' = IF n = Len(u) THEN [out EXCEPT !.data = <<>>, !.index = 0]
                                ELSE [out EXCEPT !.index = @ + n]
  BY <1>3, Zenon DEF transmit
<1>5. PICK f \in Seq(Byte) : f = SubSeq(u, 1, n) /\ Len(f) = n /\ Follows(f, Transmitted)
  <2>1. /\ 1 \in 1 .. Len(u) + 1 /\ n \in 0 .. Len(u) /\ 1 <= n + 1 /\ n - 1 + 1 = n
        /\ Transmitted + 1 - 1 = Transmitted
    BY <1>1
  <2>2. /\ SubSeq(u, 1, n) \in Seq(Byte) /\ Len(SubSeq(u, 1, n)) = n - 1 + 1
        /\ Follows(SubSeq(u, 1, n), Transmitted + 1 - 1)
    BY <1>1, <1>2, <1>3, <2>1, SubSeqFollows
  <2> QED
    BY <2>1, <2>2, Zenon
<1>6. stream' \in Seq(Byte) /\ Len(stream') = Len(stream) + n /\ Follows(stream', Buffered)
  <2>1. Follows(f, Buffered + Len(stream))
    BY <1>1, <1>5
  <2>2. stream' = stream \o f
    BY <1>4, <1>5
  <2>3. /\ stream \o f \in Seq(Byte) /\ Len(stream \o f) = Len(stream) + Len(f)
        /\ Follows(stream \o f, Buffered)
    BY <1>1, <2>1, ConcatFollows
  <2> QED
    BY <1>5, <2>2, <2>3
<1>7. /\ UNCHANGED <<sent, wclosed, inbound, received, Taken, Buffered>>
      /\ Transmitted' = Transmitted + n
  <2>1. UNCHANGED <<sent, wclosed, inbound, received, Taken, Buffered>>
    BY DEF transmit, reader, Taken, Buffered
  <2>2. Len(stream) \in Nat /\ Transmitted' = Buffered + Len(stream')
    BY <1>1, <2>1 DEF Transmitted
  <2> QED
    BY <1>1, <1>6, <2>1, <2>2
<1>8. PICK v : v = out'
  OBVIOUS
<1>9. /\ v \in Buffer /\ Len(Pending(v)) = Len(u) - n
      /\ \A i \in 1 .. Len(u) - n : Pending(v)[i] = u[n + i]
  <2>1. CASE n = Len(u)
    <3>1. PICK d : d = <<>> /\ d \in Seq(Byte) /\ Len(d) = 0
      <4>1. <<>> \in Seq(Byte) /\ Len(<<>>) = 0
        OBVIOUS
      <4> QED
        BY <4>1, Zenon
    <3>2. v = Rewound(out, d)
      BY <1>4, <1>8, <2>1, <3>1 DEF Rewound
    <3>3. v \in Buffer /\ Len(v.data) - v.index = 0
      <4>1. d \in Seq(Byte) /\ Len(d) = 0
        BY <3>1
      <4>2. v \in Buffer /\ v.data = d /\ v.index = 0
        BY <1>2, <3>2, <4>1, BufferRewound, Zenon
      <4> QED
        BY <4>1, <4>2
    <3> QED
      BY <2>1, <3>3, PendingBytes
  <2>2. CASE n # Len(u)
    <3>1. /\ out.data \in Seq(Byte) /\ out.index \in 0 .. Len(out.data) /\ out.asserted \in BOOLEAN
          /\ \A i \in Nat : [out EXCEPT !.index = i] =
                              [data |-> out.data, index |-> i, asserted |-> out.asserted]
      BY <1>2, BufferFields
    <3>2. out.index + n \in 0 .. Len(out.data)
      BY <1>3, <3>1
    <3>3. v = [data |-> out.data, index |-> out.index + n, asserted |-> out.asserted]
      BY <1>4, <1>8, <2>2, <3>1, <3>2
    <3>4. v \in Buffer /\ v.data = out.data /\ v.index = out.index + n
      BY <3>1, <3>2, <3>3, BufferOf
    <3>5. Len(v.data) - v.index = Len(u) - n
      BY <1>3, <3>1, <3>4
    <3>6. /\ Len(Pending(v)) = Len(u) - n
          /\ \A i \in 1 .. Len(u) - n : Pending(v)[i] = v.data[v.index + i]
      BY <3>4, <3>5, PendingBytes, Zenon
    <3>7. ASSUME NEW i \in 1 .. Len(u) - n PROVE Pending(v)[i] = u[n + i]
      <4>1. n + i \in 1 .. Len(u) /\ out.index + (n + i) = out.index + n + i
        BY <3>1
      <4> QED
        BY <1>3, <3>4, <3>6, <4>1
    <3> QED
      BY <3>4, <3>6, <3>7
  <2> QED
    BY <2>1, <2>2
<1>10. Follows(Pending(v), Transmitted + n)
  <2>1. ASSUME NEW i \in 1 .. Len(u) - n PROVE Pending(v)[i] = ByteAt(Transmitted + n + i)
    <3>1. n + i \in 1 .. Len(u) /\ Transmitted + (n + i) = Transmitted + n + i
      BY <1>1
    <3>2. u[n + i] = ByteAt(Transmitted + (n + i))
      BY <1>2, <1>3, <3>1 DEF Follows
    <3> QED
      BY <1>9, <3>1, <3>2
  <2> QED
    BY <1>9, <2>1 DEF Follows
<1>11. Transmitted + n + Len(Pending(v)) = sent * FrameLen /\ Transmitted + n <= sent * FrameLen
  BY <1>1, <1>2, <1>3, <1>9
<1> QED
  BY <1>6, <1>7, <1>8, <1>9, <1>10, <1>11 DEF StreamInv

(* A whole frame of the bytes that follow a whole number of frames. *)
LEMMA FrameTaken ==
  ASSUME NEW s \in Seq(Byte), NEW r \in Nat, Follows(s, r * FrameLen),
         NEW i \in Nat \ {0}, i * FrameLen <= Len(s)
  PROVE  SubSeq(s, (i - 1) * FrameLen + 1, i * FrameLen) = Frame(r + i)
<1>1. FrameLen \in Nat /\ FrameLen > 1
  BY TCPAssumption
<1>2. PICK a \in Nat : a = (i - 1) * FrameLen /\ i * FrameLen = a + FrameLen
  BY <1>1
<1>3. a + FrameLen <= Len(s)
  BY <1>2
<1>4. PICK m \in Int, l \in Int : /\ m = a + 1 /\ l = a + FrameLen /\ l - m + 1 = FrameLen
                                 /\ 1 <= m /\ l <= Len(s) /\ m <= l + 1
  BY <1>1, <1>3
<1>5. /\ SubSeq(s, m, l) \in Seq(Byte) /\ Len(SubSeq(s, m, l)) = FrameLen
      /\ \A k \in 1 .. FrameLen : SubSeq(s, m, l)[k] = s[a + k]
  <2>1. /\ SubSeq(s, m, l) \in Seq(Byte) /\ Len(SubSeq(s, m, l)) = l - m + 1
        /\ \A k \in 1 .. l - m + 1 : SubSeq(s, m, l)[k] = s[m + k - 1]
    <3>1. 1 <= m /\ l <= Len(s) /\ m <= l + 1
      BY <1>4
    <3> QED
      BY <3>1, SubSeqIs, Zenon
  <2>2. \A k \in 1 .. FrameLen : m + k - 1 = a + k
    BY <1>1, <1>4
  <2>3. l - m + 1 = FrameLen
    BY <1>4
  <2> QED
    BY <2>1, <2>2, <2>3, Zenon
<1>6. PICK n \in Nat : n + 1 = r + i
  OBVIOUS
<1>7. Frame(n + 1) \in Seq(Byte) /\ Len(Frame(n + 1)) = FrameLen
  BY FrameFollows, Zenon
<1>8. ASSUME NEW k \in 1 .. FrameLen PROVE s[a + k] = Frame(n + 1)[k]
  <2>1. a + k \in 1 .. Len(s)
    BY <1>1, <1>3
  <2>2. s[a + k] = ByteAt(r * FrameLen + (a + k))
    BY <2>1 DEF Follows
  <2>3. r * FrameLen + (a + k) = n * FrameLen + k
    <3>1. n = r + (i - 1)
      BY <1>6
    <3>2. n * FrameLen = r * FrameLen + (i - 1) * FrameLen
      BY <1>1, <3>1
    <3>3. r * FrameLen \in Nat /\ n * FrameLen = r * FrameLen + a
      BY <1>1, <1>2, <3>2
    <3> QED
      BY <3>3
  <2>4. ByteAt(n * FrameLen + k) = <<n + 1, k>>
    BY BytePosition, Zenon
  <2> QED
    BY <1>1, <2>2, <2>3, <2>4 DEF Frame
<1>9. SubSeq(s, m, l) = Frame(n + 1)
  BY <1>5, <1>7, <1>8, SameElements, Zenon
<1> QED
  BY <1>2, <1>4, <1>6, <1>9, Zenon

(* The whole frames of k bytes. *)
LEMMA WholeFramesFit ==
  ASSUME NEW k \in Nat
  PROVE  /\ k \div FrameLen \in Nat /\ (k \div FrameLen) * FrameLen \in Nat
         /\ (k \div FrameLen) * FrameLen <= k
<1>1. FrameLen \in Nat \ {0}
  BY TCPAssumption
<1>2. k \div FrameLen \in Nat
  BY <1>1
<1> QED
  BY <1>1, <1>2

(***************************************************************************)
(* recvCallback takes the whole frames and moves the rest to the front of  *)
(* the buffer.                                                             *)
(***************************************************************************)
LEMMA CallbackKeeps ==
  ASSUME NEW bytes \in Seq(Byte), received \in Seq(Seq(Byte)), Follows(bytes, Taken),
         \A i \in 1 .. Len(received) : received[i] = Frame(i),
         recvCallback(bytes)
  PROVE  /\ received' \in Seq(Seq(Byte)) /\ inbound' \in Seq(Byte)
         /\ \A i \in 1 .. Len(received') : received'[i] = Frame(i)
         /\ Follows(inbound', Taken')
         /\ Taken' + Len(inbound') = Taken + Len(bytes)
<1>1. FrameLen \in Nat /\ FrameLen > 1 /\ Len(received) \in Nat /\ Len(bytes) \in Nat
  BY TCPAssumption
<1>2. PICK n \in Nat : n = WholeFrames(bytes) /\ n * FrameLen \in Nat /\ n * FrameLen <= Len(bytes)
  <2>1. /\ Len(bytes) \div FrameLen \in Nat /\ (Len(bytes) \div FrameLen) * FrameLen \in Nat
        /\ (Len(bytes) \div FrameLen) * FrameLen <= Len(bytes)
    BY <1>1, WholeFramesFit
  <2> QED
    BY <2>1 DEF WholeFrames
<1>3. PICK r \in Nat : r = Len(received) /\ Taken = r * FrameLen /\ r * FrameLen \in Nat
  BY <1>1 DEF Taken
<1>4. ASSUME NEW i \in 1 .. n
      PROVE  SubSeq(bytes, (i - 1) * FrameLen + 1, i * FrameLen) = Frame(r + i)
  <2>1. i \in Nat \ {0} /\ i * FrameLen <= n * FrameLen /\ i * FrameLen \in Nat
    BY <1>1
  <2>2. i * FrameLen <= Len(bytes)
    BY <1>1, <1>2, <2>1
  <2> QED
    BY <1>3, <2>1, <2>2, FrameTaken, Zenon
<1>5. PICK f : f = [i \in 1 .. n |-> SubSeq(bytes, (i - 1) * FrameLen + 1, i * FrameLen)]
  BY Zenon
<1>6. /\ f \in Seq(Seq(Byte)) /\ Len(f) = n
      /\ \A i \in 1 .. n : f[i] = Frame(r + i)
  <2>1. \A i \in 1 .. n : f[i] = Frame(r + i)
    BY <1>4, <1>5
  <2>2. ASSUME NEW i \in 1 .. n PROVE f[i] \in Seq(Byte)
    <3>1. r + i - 1 \in Nat /\ (r + i - 1) + 1 = r + i
      OBVIOUS
    <3>2. PICK m \in Nat : m + 1 = r + i
      BY <3>1, Zenon
    <3> QED
      BY <2>1, <3>2, FrameFollows, Zenon
  <2>3. f \in [1 .. n -> Seq(Byte)]
    BY <1>5, <2>2
  <2> QED
    BY <2>1, <2>3
<1>7. received' = received \o f /\ inbound' = SubSeq(bytes, n * FrameLen + 1, Len(bytes))
  BY <1>2, <1>5 DEF recvCallback
<1>8. received' \in Seq(Seq(Byte)) /\ Len(received') = r + n
  <2>1. received \o f \in Seq(Seq(Byte)) /\ Len(received \o f) = Len(received) + Len(f)
    <3>1. f \in Seq(Seq(Byte))
      BY <1>6
    <3> QED
      BY <3>1, ConcatIs
  <2> QED
    BY <1>3, <1>6, <1>7, <2>1
<1>9. ASSUME NEW i \in 1 .. r + n PROVE received'[i] = Frame(i)
  <2>1. CASE i <= r
    BY <1>3, <1>6, <1>7, <2>1
  <2>2. CASE i > r
    <3>1. i - r \in 1 .. n /\ r + (i - r) = i
      BY <1>3, <2>2
    <3>2. received'[i] = f[i - r]
      BY <1>3, <1>6, <1>7, <2>2, <3>1
    <3> QED
      BY <1>6, <3>1, <3>2
  <2> QED
    BY <1>3, <2>1, <2>2
<1>10. Taken' = Taken + n * FrameLen
  <2>1. (r + n) * FrameLen = r * FrameLen + n * FrameLen
    BY <1>1, <1>3
  <2> QED
    BY <1>3, <1>8, <2>1 DEF Taken
<1>11. /\ inbound' \in Seq(Byte) /\ Len(inbound') = Len(bytes) - n * FrameLen
       /\ Follows(inbound', Taken + n * FrameLen)
  <2>1. PICK a \in Nat : a = n * FrameLen /\ a <= Len(bytes)
    BY <1>2
  <2>2. /\ a + 1 \in 1 .. Len(bytes) + 1 /\ Len(bytes) \in 0 .. Len(bytes) /\ a + 1 <= Len(bytes) + 1
        /\ Len(bytes) - (a + 1) + 1 = Len(bytes) - a /\ Taken + (a + 1) - 1 = Taken + a /\ Taken \in Nat
    BY <1>1, <1>3, <2>1
  <2>3. /\ SubSeq(bytes, a + 1, Len(bytes)) \in Seq(Byte)
        /\ Len(SubSeq(bytes, a + 1, Len(bytes))) = Len(bytes) - (a + 1) + 1
        /\ Follows(SubSeq(bytes, a + 1, Len(bytes)), Taken + (a + 1) - 1)
    BY <2>2, SubSeqFollows, Zenon
  <2> QED
    BY <1>7, <2>1, <2>2, <2>3
<1>12. Taken' + Len(inbound') = Taken + Len(bytes)
  <2>1. PICK a \in Nat : a = n * FrameLen /\ Taken' = Taken + a /\ Len(inbound') = Len(bytes) - a
    BY <1>2, <1>10, <1>11
  <2>2. Taken \in Nat
    BY <1>3
  <2> QED
    BY <1>1, <2>1, <2>2
<1> QED
  BY <1>8, <1>9, <1>10, <1>11, <1>12

(* recvmsg takes the first n bytes of the stream. *)
LEMMA ReceiveKeeps ==
  ASSUME StreamInv, receive
  PROVE  StreamInv'
<1>1. /\ Taken \in Nat /\ Buffered \in Nat /\ Transmitted \in Nat
      /\ stream \in Seq(Byte) /\ inbound \in Seq(Byte) /\ received \in Seq(Seq(Byte))
      /\ \A i \in 1 .. Len(received) : received[i] = Frame(i)
      /\ Follows(inbound, Taken) /\ Follows(stream, Buffered)
      /\ Buffered = Taken + Len(inbound) /\ Transmitted = Buffered + Len(stream)
  BY BufferPositions DEF StreamInv, Buffered, Transmitted
<1>2. PICK n \in 1 .. Len(stream) :
        /\ stream' = SubSeq(stream, n + 1, Len(stream))
        /\ recvCallback(inbound \o SubSeq(stream, 1, n))
  BY DEF receive
<1>3. PICK f \in Seq(Byte) : f = SubSeq(stream, 1, n) /\ Len(f) = n /\ Follows(f, Buffered)
  <2>1. /\ 1 \in 1 .. Len(stream) + 1 /\ n \in 0 .. Len(stream) /\ 1 <= n + 1 /\ n - 1 + 1 = n
        /\ Buffered + 1 - 1 = Buffered
    BY <1>1
  <2>2. /\ SubSeq(stream, 1, n) \in Seq(Byte) /\ Len(SubSeq(stream, 1, n)) = n - 1 + 1
        /\ Follows(SubSeq(stream, 1, n), Buffered + 1 - 1)
    BY <1>1, <2>1, SubSeqFollows
  <2> QED
    BY <2>1, <2>2, Zenon
<1>4. PICK bytes \in Seq(Byte) : /\ bytes = inbound \o f /\ Len(bytes) = Len(inbound) + n
                                 /\ Follows(bytes, Taken)
  <2>1. Follows(f, Taken + Len(inbound))
    BY <1>1, <1>3
  <2>2. /\ inbound \o f \in Seq(Byte) /\ Len(inbound \o f) = Len(inbound) + Len(f)
        /\ Follows(inbound \o f, Taken)
    BY <1>1, <2>1, ConcatFollows
  <2> QED
    <3>1. Len(inbound \o f) = Len(inbound) + n
      BY <1>3, <2>2, Zenon
    <3> QED
      BY <2>2, <3>1, Zenon
<1>5. /\ stream' \in Seq(Byte) /\ Len(stream') = Len(stream) - n /\ Follows(stream', Buffered + n)
  <2>1. /\ n + 1 \in 1 .. Len(stream) + 1 /\ Len(stream) \in 0 .. Len(stream)
        /\ n + 1 <= Len(stream) + 1 /\ Len(stream) - (n + 1) + 1 = Len(stream) - n
        /\ Buffered + (n + 1) - 1 = Buffered + n
    BY <1>1
  <2>2. /\ SubSeq(stream, n + 1, Len(stream)) \in Seq(Byte)
        /\ Len(SubSeq(stream, n + 1, Len(stream))) = Len(stream) - (n + 1) + 1
        /\ Follows(SubSeq(stream, n + 1, Len(stream)), Buffered + (n + 1) - 1)
    BY <1>1, <2>1, SubSeqFollows, Zenon
  <2> QED
    BY <1>2, <2>1, <2>2, Zenon
<1>6. /\ received' \in Seq(Seq(Byte)) /\ inbound' \in Seq(Byte)
      /\ \A i \in 1 .. Len(received') : received'[i] = Frame(i)
      /\ Follows(inbound', Taken')
      /\ Taken' + Len(inbound') = Taken + Len(bytes)
  <2>1. recvCallback(bytes)
    BY <1>2, <1>3, <1>4
  <2> QED
    BY <1>1, <1>4, <2>1, CallbackKeeps, Zenon
<1>7. Buffered' = Buffered + n /\ Transmitted' = Transmitted
  <2>1. Buffered' = Taken' + Len(inbound') /\ Transmitted' = Buffered' + Len(stream')
    BY DEF Buffered, Transmitted
  <2>2. Len(inbound) \in Nat /\ Len(stream) \in Nat
    BY <1>1
  <2>3. Buffered' = Buffered + n
    BY <1>1, <1>4, <1>6, <2>1, <2>2
  <2> QED
    BY <1>1, <1>5, <2>1, <2>2, <2>3
<1>8. UNCHANGED <<out, sent, wclosed>>
  BY DEF receive, writer
<1> QED
  BY <1>5, <1>6, <1>7, <1>8 DEF StreamInv

(* No step leaves the invariant. *)
LEMMA StreamStep == StreamInv /\ [TCPNext]_tcpVars => StreamInv'
<1> SUFFICES ASSUME StreamInv, [TCPNext]_tcpVars PROVE StreamInv'
  OBVIOUS
<1>1. CASE sendMessage
  BY <1>1, MessageKeeps
<1>2. CASE transmit
  BY <1>2, TransmitKeeps
<1>3. CASE transmitFails
  BY <1>3 DEF transmitFails, reader, StreamInv, Taken, Buffered, Transmitted
<1>4. CASE receive
  BY <1>4, ReceiveKeeps
<1>5. CASE receiveEnds
  BY <1>5 DEF receiveEnds, writer, StreamInv, Taken, Buffered, Transmitted
<1>6. CASE receiveFails
  BY <1>6 DEF receiveFails, writer, StreamInv, Taken, Buffered, Transmitted
<1>7. CASE UNCHANGED tcpVars
  BY <1>7 DEF tcpVars, StreamInv, Taken, Buffered, Transmitted
<1> QED
  BY <1>1, <1>2, <1>3, <1>4, <1>5, <1>6, <1>7 DEF TCPNext

(* The invariant holds always. *)
LEMMA StreamAlways == TCPSpec => []StreamInv
<1>1. TCPInit => StreamInv
  <2> SUFFICES ASSUME TCPInit PROVE StreamInv
    OBVIOUS
  <2>1. FrameLen \in Nat
    BY TCPAssumption
  <2>2. /\ stream = <<>> /\ inbound = <<>> /\ received = <<>> /\ sent = 0
        /\ out = [data |-> <<>>, index |-> 0, asserted |-> FALSE] /\ wclosed = FALSE
    BY DEF TCPInit
  <2>3. /\ stream \in Seq(Byte) /\ inbound \in Seq(Byte) /\ received \in Seq(Seq(Byte))
        /\ Len(stream) = 0 /\ Len(inbound) = 0 /\ Len(received) = 0
    BY <2>2
  <2>4. Taken = 0 /\ Buffered = 0 /\ Transmitted = 0 /\ sent * FrameLen = 0
    BY <2>1, <2>2, <2>3 DEF Taken, Buffered, Transmitted
  <2>5. out \in Buffer /\ Len(out.data) - out.index = 0
    BY <2>2 DEF Buffer
  <2>6. Len(Pending(out)) = 0
    BY <2>5, PendingBytes
  <2>7. /\ Follows(inbound, Taken) /\ Follows(stream, Buffered) /\ Follows(Pending(out), Transmitted)
        /\ \A i \in 1 .. Len(received) : received[i] = Frame(i)
    BY <2>3, <2>6 DEF Follows
  <2>8. Transmitted <= sent * FrameLen /\ Transmitted + Len(Pending(out)) = sent * FrameLen
    BY <2>4, <2>6
  <2>9. sent \in Nat /\ wclosed \in BOOLEAN
    BY Zenon DEF TCPInit
  <2> QED
    BY <2>3, <2>5, <2>7, <2>8, <2>9 DEF StreamInv
<1> QED
  BY <1>1, StreamStep, PTL DEF TCPSpec

(***************************************************************************)
(* For any frame length, buffer and kernel size and any number of          *)
(* messages: the callback gets the first messages sent, whole and in       *)
(* order, after an error and a close too.                                  *)
(***************************************************************************)
THEOREM StreamFrames == TCPSpec => []FramesAligned
<1>1. ASSUME StreamInv PROVE FramesAligned
  <2>1. /\ Len(received) \in Nat /\ DOMAIN received = 1 .. Len(received)
        /\ Len(inbound) \in Nat /\ Len(stream) \in Nat /\ sent \in Nat
        /\ FrameLen \in Nat \ {0}
    BY <1>1, TCPAssumption DEF StreamInv
  <2>2. Taken \in Nat /\ Transmitted = Taken + Len(inbound) + Len(stream) /\ Transmitted <= sent * FrameLen
    BY <1>1, BufferPositions DEF StreamInv, Buffered, Transmitted
  <2>3. Len(received) * FrameLen <= sent * FrameLen
    BY <2>1, <2>2 DEF Taken
  <2>4. Len(received) <= sent
    BY <2>1, <2>3
  <2> QED
    BY <1>1, <2>1, <2>4 DEF StreamInv, FramesAligned
<1> QED
  BY <1>1, StreamAlways, PTL

(* The first frames, put together, are the bytes from the first position on. *)
LEMMA JoinedFollows ==
  ASSUME NEW n \in Nat, NEW f \in Seq(Seq(Byte)), Len(f) = n, \A i \in 1 .. n : f[i] = Frame(i)
  PROVE  Joined(f) \in Seq(Byte) /\ Len(Joined(f)) = n * FrameLen /\ Follows(Joined(f), 0)
<1>1. FrameLen \in Nat \ {0} /\ n * FrameLen \in Nat
  BY TCPAssumption
<1>2. ASSUME NEW p \in 1 .. n * FrameLen
      PROVE  f[(p - 1) \div FrameLen + 1][((p - 1) % FrameLen) + 1] = ByteAt(p) /\ ByteAt(p) \in Byte
  <2>1. PICK a, k : /\ a = (p - 1) \div FrameLen /\ k = (p - 1) % FrameLen
                    /\ a \in Nat /\ a < n /\ k \in 0 .. FrameLen - 1 /\ ByteAt(p) \in Byte
    <3>1. p \in Nat \ {0} /\ p <= n * FrameLen
      BY <1>1
    <3> QED
      BY <3>1, PositionByte
  <2>2. f[a + 1] = Frame(a + 1)
    BY <2>1
  <2>3. Frame(a + 1)[k + 1] = <<a + 1, k + 1>>
    <3>1. k + 1 \in 1 .. FrameLen
      BY <1>1, <2>1
    <3> QED
      BY <3>1 DEF Frame
  <2>4. ByteAt(p) = <<a + 1, k + 1>>
    BY <2>1 DEF ByteAt
  <2> QED
    BY <2>1, <2>2, <2>3, <2>4
<1>3. PICK m \in Nat : m = n * FrameLen
  BY <1>1
<1>4. Joined(f) = [p \in 1 .. m |-> ByteAt(p)]
  BY <1>2, <1>3 DEF Joined
<1>5. Joined(f) \in [1 .. m -> Byte]
  BY <1>2, <1>3, <1>4
<1>6. Joined(f) \in Seq(Byte) /\ Len(Joined(f)) = m
  BY <1>5
<1>7. \A p \in 1 .. m : Joined(f)[p] = ByteAt(0 + p)
  BY <1>4
<1> QED
  BY <1>3, <1>6, <1>7 DEF Follows

(* As many bytes from the same position on are the same. *)
LEMMA FollowsUnique ==
  ASSUME NEW s \in Seq(Byte), NEW t \in Seq(Byte), NEW p \in Nat, Len(s) = Len(t),
         Follows(s, p), Follows(t, p)
  PROVE  s = t
  BY SameElements DEF Follows

(***************************************************************************)
(* For any frame length, buffer and kernel size and any number of          *)
(* messages: while the sending socket is open, what was taken, received,   *)
(* transmitted and buffered, put together, is what was sent.               *)
(***************************************************************************)
THEOREM StreamBytes == TCPSpec => []BytesConserved
<1>1. ASSUME StreamInv, ~wclosed, ~out.asserted
      PROVE  Joined(received) \o inbound \o stream \o Pending(out) = Bytes(sent)
  <2>1. /\ Taken \in Nat /\ Buffered \in Nat /\ Transmitted \in Nat /\ sent \in Nat /\ out \in Buffer
        /\ stream \in Seq(Byte) /\ inbound \in Seq(Byte) /\ received \in Seq(Seq(Byte))
        /\ \A i \in 1 .. Len(received) : received[i] = Frame(i)
        /\ Buffered = Taken + Len(inbound) /\ Transmitted = Buffered + Len(stream)
        /\ Follows(inbound, Taken) /\ Follows(stream, Buffered) /\ Follows(Pending(out), Transmitted)
        /\ Transmitted + Len(Pending(out)) = sent * FrameLen
    BY <1>1, BufferPositions DEF StreamInv, Buffered, Transmitted
  <2>2. PICK s \in Seq(Byte) : s = Joined(received) /\ Len(s) = Taken /\ Follows(s, 0)
    <3>1. PICK r \in Nat : r = Len(received)
      BY <2>1
    <3> QED
      BY <2>1, <3>1, JoinedFollows, Zenon DEF Taken
  <2>3. PICK t \in Seq(Byte) : t = s \o inbound /\ Len(t) = Buffered /\ Follows(t, 0)
    <3>1. Follows(inbound, 0 + Len(s)) /\ Follows(s, 0) /\ 0 \in Nat
      BY <2>1, <2>2
    <3>2. s \o inbound \in Seq(Byte) /\ Len(s \o inbound) = Len(s) + Len(inbound) /\ Follows(s \o inbound, 0)
      BY <2>1, <3>1, ConcatFollows
    <3> QED
      BY <2>1, <2>2, <3>2, Zenon
  <2>4. PICK u \in Seq(Byte) : u = t \o stream /\ Len(u) = Transmitted /\ Follows(u, 0)
    <3>1. Follows(stream, 0 + Len(t)) /\ Follows(t, 0) /\ 0 \in Nat
      BY <2>1, <2>3
    <3>2. t \o stream \in Seq(Byte) /\ Len(t \o stream) = Len(t) + Len(stream) /\ Follows(t \o stream, 0)
      BY <2>1, <3>1, ConcatFollows
    <3> QED
      BY <2>1, <2>3, <3>2, Zenon
  <2>5. PICK v \in Seq(Byte) : v = u \o Pending(out) /\ Len(v) = sent * FrameLen /\ Follows(v, 0)
    <3>1. Follows(Pending(out), 0 + Len(u)) /\ Follows(u, 0) /\ 0 \in Nat /\ Pending(out) \in Seq(Byte)
      BY <2>1, <2>4, PendingBytes
    <3>2. /\ u \o Pending(out) \in Seq(Byte) /\ Len(u \o Pending(out)) = Len(u) + Len(Pending(out))
          /\ Follows(u \o Pending(out), 0)
      BY <3>1, ConcatFollows
    <3> QED
      BY <2>1, <2>4, <3>2, Zenon
  <2>6. Bytes(sent) \in Seq(Byte) /\ Len(Bytes(sent)) = sent * FrameLen /\ Follows(Bytes(sent), 0)
    <3>1. PICK f : f = [m \in 1 .. sent |-> Frame(m)]
      BY Zenon
    <3>2. ASSUME NEW m \in 1 .. sent PROVE Frame(m) \in Seq(Byte)
      <4>1. m - 1 \in Nat /\ (m - 1) + 1 = m
        BY <2>1
      <4> QED
        BY <4>1, FrameFollows, Zenon
    <3>3. f \in [1 .. sent -> Seq(Byte)] /\ \A i \in 1 .. sent : f[i] = Frame(i)
      BY <3>1, <3>2
    <3>4. f \in Seq(Seq(Byte)) /\ Len(f) = sent
      BY <2>1, <3>3
    <3> QED
      BY <2>1, <3>1, <3>3, <3>4, JoinedFollows, Zenon DEF Bytes
  <2>7. v = Bytes(sent)
    BY <2>5, <2>6, FollowsUnique, Zenon
  <2> QED
    BY <2>2, <2>3, <2>4, <2>5, <2>7
<1>2. StreamInv => BytesConserved
  BY <1>1 DEF BytesConserved
<1> QED
  BY <1>2, StreamAlways, PTL

=============================================================================
