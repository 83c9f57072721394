------------------------- MODULE MarketOrderBookProofs -------------------------
(***************************************************************************)
(* The trade engine's books, features and quotes, for any tickers, orders, *)
(* prices, quantities and threshold; the memory pool that the orders and   *)
(* levels of a book come from, for any number of blocks; and the ring that *)
(* the price levels of a side are linked in, for any set of prices.        *)
(***************************************************************************)
EXTENDS MarketOrderBook, MemPool, PriceLevelRing, FiniteSetTheorems, NaturalsInduction, WellFoundedInduction, TLAPS

-----------------------------------------------------------------------------
(* The best price of a side. *)

\* p is the price of an order of the side, and no order has a better one.
IsBest(book, s, p) ==
  /\ \E o \in On(book, s) : o.price = p
  /\ \A o \in On(book, s) : ~Better(s, o.price, p)

\* The least element of a set of naturals.
LEMMA LeastNatural ==
  ASSUME NEW T \in SUBSET Nat, T # {}
  PROVE  \E m \in T : \A x \in T : m <= x
<1>1. PICK m \in T : \A x \in T : ~(<<x, m>> \in OpToRel(<, Nat))
  BY NatLessThanWellFounded, WFMin, Zenon
<1>2. \A x \in T : ~(x < m)
  BY <1>1, Zenon DEF OpToRel
<1> QED
  BY <1>2

(***************************************************************************)
(* The greatest element of a finite set of naturals: the one with the      *)
(* fewest elements above it.                                               *)
(***************************************************************************)
LEMMA GreatestNatural ==
  ASSUME NEW T \in SUBSET Nat, T # {}, IsFiniteSet(T)
  PROVE  \E m \in T : \A x \in T : x <= m
<1> DEFINE Above(x) == {y \in T : x < y}
<1>1. \A x \in T : IsFiniteSet(Above(x)) /\ Cardinality(Above(x)) \in Nat
  BY FS_Subset, FS_CardinalityType
<1>2. PICK x \in T : \A y \in T : Cardinality(Above(x)) <= Cardinality(Above(y))
  <2>1. PICK n \in {Cardinality(Above(x)) : x \in T} : \A k \in {Cardinality(Above(y)) : y \in T} : n <= k
    <3>1. {Cardinality(Above(x)) : x \in T} \in SUBSET Nat /\ {Cardinality(Above(x)) : x \in T} # {}
      BY <1>1, Zenon
    <3> HIDE DEF Above
    <3> QED
      BY <3>1, LeastNatural, Zenon
  <2> HIDE DEF Above
  <2> QED
    BY <2>1
<1>3. ASSUME NEW y \in T, x < y PROVE FALSE
  <2>1. \A z \in T : z \in Nat /\ x \in Nat /\ y \in Nat
    OBVIOUS
  <2>2. Above(y) \subseteq Above(x) /\ y \in Above(x) /\ y \notin Above(y)
    <3>1. \A z \in T : y < z => x < z
      BY <1>3, <2>1
    <3>2. ~(y < y)
      BY <2>1
    <3> QED
      BY <1>3, <3>1, <3>2, Zenon
  <2>3. Above(y) \subseteq Above(x) /\ Above(y) # Above(x)
    BY <2>2
  <2>4. Cardinality(Above(y)) < Cardinality(Above(x))
    BY <1>1, <2>3, FS_Subset
  <2>5. Cardinality(Above(x)) \in Nat /\ Cardinality(Above(y)) \in Nat
    BY <1>1
  <2>6. Cardinality(Above(x)) <= Cardinality(Above(y))
    BY <1>2
  <2> HIDE DEF Above
  <2> QED
    BY <2>4, <2>5, <2>6
<1> QED
  BY <1>3

\* A side with orders has a best price, and BestPrice is it.
LEMMA BestPriceIsBest ==
  ASSUME NEW book \in SUBSET Order, NEW s \in Side, On(book, s) # {}
  PROVE  IsBest(book, s, BestPrice(book, s)) /\ BestPrice(book, s) \in Price
<1> DEFINE P == {o.price : o \in On(book, s)}
<1>1. P \subseteq Price /\ P \in SUBSET Nat /\ P # {} /\ IsFiniteSet(P)
  <2>1. P \subseteq Price /\ P # {}
    BY DEF On, Order
  <2> QED
    BY <2>1, BookAssumption, FS_Subset, Zenon
<1>2. \E p \in P : \A q \in P : ~Better(s, q, p)
  <2>1. CASE s = "BUY"
    <3>1. PICK p \in P : \A q \in P : q <= p
      BY <1>1, GreatestNatural
    <3>2. \A q \in P : q \in Nat /\ p \in Nat
      BY <1>1
    <3> HIDE DEF P
    <3> QED
      BY <2>1, <3>1, <3>2 DEF Better
  <2>2. CASE s = "SELL"
    <3>1. PICK p \in P : \A q \in P : p <= q
      BY <1>1, LeastNatural, Zenon
    <3>2. \A q \in P : q \in Nat /\ p \in Nat
      BY <1>1
    <3> HIDE DEF P
    <3> QED
      BY <2>2, <3>1, <3>2 DEF Better
  <2> QED
    BY <2>1, <2>2 DEF Side
<1>3. \E p \in P : \A o \in On(book, s) : ~Better(s, o.price, p)
  BY <1>2
<1>4. BestPrice(book, s) \in P /\ \A o \in On(book, s) : ~Better(s, o.price, BestPrice(book, s))
  BY <1>3 DEF BestPrice
<1> QED
  BY <1>1, <1>4 DEF IsBest

\* There is only one best price.
LEMMA BestIsUnique ==
  ASSUME NEW book \in SUBSET Order, NEW s \in Side, NEW p, IsBest(book, s, p)
  PROVE  On(book, s) # {} /\ BestPrice(book, s) = p
<1>1. On(book, s) # {} /\ p \in Price
  BY DEF IsBest, On, Order
<1>2. IsBest(book, s, BestPrice(book, s)) /\ BestPrice(book, s) \in Price
  BY <1>1, BestPriceIsBest
<1>3. ~Better(s, BestPrice(book, s), p) /\ ~Better(s, p, BestPrice(book, s))
  BY <1>2 DEF IsBest
<1>4. BestPrice(book, s) \in Nat /\ p \in Nat
  BY <1>1, <1>2, BookAssumption, Zenon
<1> QED
  BY <1>1, <1>3, <1>4 DEF Better

-----------------------------------------------------------------------------
(* One update of a book. *)

\* The books differ in orders of one level only.
OneLevel(b, c, s, p) == \A o \in (b \ c) \cup (c \ b) : o.side = s /\ o.price = p

\* Top depends on nothing but the best level.
LEMMA TopOfSameLevel ==
  ASSUME NEW b \in SUBSET Order, NEW c \in SUBSET Order, NEW s \in Side, NEW p,
         IsBest(b, s, p), IsBest(c, s, p),
         {o \in On(b, s) : o.price = p} = {o \in On(c, s) : o.price = p}
  PROVE  Top(b, s) = Top(c, s)
<1>1. On(b, s) # {} /\ BestPrice(b, s) = p /\ On(c, s) # {} /\ BestPrice(c, s) = p
  BY BestIsUnique
<1> QED
  BY <1>1, Zenon DEF Top

(***************************************************************************)
(* A side that Updated leaves out has the same top after the update: the   *)
(* decision taken before the update is right.                              *)
(***************************************************************************)
LEMMA NotUpdatedKeepsTop ==
  ASSUME NEW b \in SUBSET Order, NEW c \in SUBSET Order, NEW u, u.price \in Price,
         OneLevel(b, c, u.side, u.price), NEW s \in Side, s \notin Updated(b, u)
  PROVE  Top(c, s) = Top(b, s) /\ (On(c, s) = {} <=> On(b, s) = {})
<1>1. CASE u.side # s
  <2>1. On(c, s) = On(b, s)
    BY <1>1 DEF OneLevel, On
  <2> QED
    BY <2>1 DEF Top, BestPrice
<1>2. CASE u.side = s
  <2>1. On(b, s) # {} /\ Better(s, BestPrice(b, s), u.price)
    BY <1>2 DEF Updated
  <2>2. PICK p \in Price : p = BestPrice(b, s) /\ IsBest(b, s, p)
    BY <2>1, BestPriceIsBest
  <2>3. p \in Nat /\ u.price \in Nat /\ p # u.price /\ Better(s, p, u.price) /\ ~Better(s, u.price, p)
    <3>1. p \in Nat /\ u.price \in Nat /\ Better(s, p, u.price)
      BY <2>1, <2>2, BookAssumption, Zenon
    <3> QED
      BY <3>1 DEF Better
  <2>4. \A o : o.price = p => (o \in On(b, s) <=> o \in On(c, s))
    BY <2>3 DEF OneLevel, On
  <2>5. {o \in On(b, s) : o.price = p} = {o \in On(c, s) : o.price = p}
    BY <2>4
  <2>6. \A o \in On(c, s) : o \in On(b, s) \/ o.price = u.price
    BY DEF OneLevel, On
  <2>7. IsBest(c, s, p)
    BY <2>2, <2>3, <2>4, <2>6 DEF IsBest
  <2>8. Top(b, s) = Top(c, s)
    BY <2>2, <2>5, <2>7, TopOfSameLevel
  <2>9. On(c, s) # {}
    BY <2>7 DEF IsBest
  <2> QED
    BY <2>1, <2>8, <2>9
<1> QED
  BY <1>1, <1>2

\* The market maker's prices are the best ones or a tick behind them.
LEMMA MakerQuoteBehind ==
  ASSUME NEW t, NEW b, NEW f, b["BUY"].price \in Nat, b["SELL"].price \in Nat
  PROVE  /\ MakerQuote(t, b, f).ticker = t /\ MakerQuote(t, b, f).of = f.of
         /\ MakerQuote(t, b, f).bid \in Int /\ MakerQuote(t, b, f).bid <= b["BUY"].price
         /\ MakerQuote(t, b, f).ask \in Int /\ MakerQuote(t, b, f).ask >= b["SELL"].price
<1>1. PICK x \in {0, 1}, y \in {0, 1} :
        MakerQuote(t, b, f) = [ticker |-> t, of |-> f.of, bid |-> b["BUY"].price - x, ask |-> b["SELL"].price + y]
  BY DEF MakerQuote
<1> QED
  BY <1>1

-----------------------------------------------------------------------------
(* The invariant. *)

\* The variables have their types.
BookTypes ==
  /\ algo \in {"MAKER", "TAKER"}
  /\ orders \in [Ticker -> SUBSET Order] /\ freed \in [Ticker -> SUBSET Price]
  /\ stale \in [Ticker -> SUBSET Side]
  /\ bbo = [t \in Ticker |-> bbo[t]]
  /\ \A t \in Ticker, s \in Side : bbo[t][s].price \in Nat

\* No two orders of a book have the same id.
Unique(book) == \A o, x \in book : o.id = x.id => o = x

\* Every buy order is below every sell order, listed or not.
Uncrossed(book) == \A o \in On(book, "BUY"), x \in On(book, "SELL") : o.price < x.price

\* A side that had no update since a CLEAR has no orders: its next update is one of the top.
StaleIsEmpty == \A t \in Ticker : \A s \in stale[t] : On(orders[t], s) = {}

\* The quote of the market maker was made from a best bid and offer that are there still.
QuoteBehind ==
  algo = "MAKER" /\ quote # NoQuote =>
    /\ quote.ticker \in Ticker /\ Both(bbo[quote.ticker])
    /\ quote.bid \in Int /\ quote.bid <= bbo[quote.ticker]["BUY"].price
    /\ quote.ask \in Int /\ quote.ask >= bbo[quote.ticker]["SELL"].price

\* The inductive invariant.
BookInv ==
  /\ BookTypes /\ (\A t \in Ticker : Unique(orders[t]) /\ Uncrossed(orders[t])) /\ StaleIsEmpty
  /\ BBOIsTop /\ FeatureIsOwn /\ QuoteBehind

\* The features and the algorithm after the book of t has changed.
LEMMA QuoteStep ==
  ASSUME NEW t \in Ticker, algo \in {"MAKER", "TAKER"}, algo' = algo,
         \A s \in Side : bbo'[t][s].price \in Nat,
         onOrderBookUpdate(t, bbo'[t])
  PROVE  FeatureIsOwn' /\ QuoteBehind'
<1>1. bbo'[t]["BUY"].price \in Nat /\ bbo'[t]["SELL"].price \in Nat
  BY DEF Side
<1>2. CASE algo = "MAKER" /\ Both(bbo'[t])
  <2>1. feature' = FairPrice(t, bbo'[t]) /\ quote' = MakerQuote(t, bbo'[t], feature')
    BY <1>2 DEF onOrderBookUpdate
  <2>2. feature'.of = t
    BY <2>1 DEF FairPrice
  <2> QED
    BY <1>1, <1>2, <2>1, <2>2, MakerQuoteBehind DEF FeatureIsOwn, QuoteBehind, Both
<1>3. CASE ~(algo = "MAKER" /\ Both(bbo'[t]))
  BY <1>3 DEF onOrderBookUpdate, FeatureIsOwn, QuoteBehind, NoQuote
<1> QED
  BY <1>2, <1>3

(***************************************************************************)
(* An update of one level of t's book, listed or not.                      *)
(***************************************************************************)
LEMMA LevelStep ==
  ASSUME BookInv, NEW t \in Ticker, NEW u, u.type # "CLEAR", u.price \in Price, u.side \in Side,
         Applied(orders[t], u) \in SUBSET Order,
         Unique(Applied(orders[t], u)), Uncrossed(Applied(orders[t], u)),
         OneLevel(orders[t], Applied(orders[t], u), u.side, u.price),
         onMarketUpdate(t, u)
  PROVE  BookInv'
<1>1. PICK new \in SUBSET Order : new = Applied(orders[t], u)
  OBVIOUS
<1>2. /\ orders \in [Ticker -> SUBSET Order] /\ freed \in [Ticker -> SUBSET Price]
      /\ stale \in [Ticker -> SUBSET Side]
  BY DEF BookInv, BookTypes
<1>3. orders' = [orders EXCEPT ![t] = new] /\ orders'[t] = new
  BY <1>1, <1>2 DEF onMarketUpdate
<1>4. freed' = freed
  BY <1>2 DEF onMarketUpdate, Freed
<1>5. stale' = [stale EXCEPT ![t] = stale[t] \ {u.side}]
  BY DEF onMarketUpdate
<1>6. PICK old \in SUBSET Order : old = Listed(t)
  BY <1>2 DEF Listed
<1>7. PICK listed \in SUBSET Order : listed = {o \in new : o.price \notin freed[t]}
  BY <1>1
<1>8. Listed(t)' = listed /\ OneLevel(old, listed, u.side, u.price)
  <2>1. Listed(t)' = listed
    BY <1>3, <1>4, <1>7 DEF Listed
  <2> QED
    BY <1>1, <1>6, <1>7, <2>1 DEF OneLevel, Listed
<1>9. PICK upd : upd = Updated(old, u)
  OBVIOUS
<1>10. bbo' = [bbo EXCEPT ![t] = updateBBO(t, listed, upd)] /\ onOrderBookUpdate(t, bbo'[t]) /\ algo' = algo
  BY <1>6, <1>8, <1>9 DEF onMarketUpdate
<1>11. /\ bbo' = [x \in Ticker |-> bbo'[x]]
       /\ \A x \in Ticker \ {t} : bbo'[x] = bbo[x]
       /\ bbo'[t] = updateBBO(t, listed, upd)
  BY <1>10 DEF BookInv, BookTypes
<1>12. \A s \in Side : bbo'[t][s] = IF s \in upd THEN Top(listed, s) ELSE bbo[t][s]
  BY <1>11 DEF updateBBO
<1>13. \A s \in Side : s \notin upd => Top(listed, s) = Top(old, s)
  BY <1>8, <1>9, NotUpdatedKeepsTop
<1>14. u.side \in stale[t] => u.side \in upd
  <2>1. u.side \in stale[t] => On(orders[t], u.side) = {}
    BY DEF BookInv, StaleIsEmpty
  <2>2. On(old, u.side) \subseteq On(orders[t], u.side)
    BY <1>6 DEF On, Listed
  <2> QED
    BY <1>9, <2>1, <2>2 DEF Updated
<1>15. \A s \in Side \ stale'[t] : bbo'[t][s] = Top(listed, s)
  <2> SUFFICES ASSUME NEW s \in Side, s \notin stale'[t], s \notin upd PROVE bbo[t][s] = Top(listed, s)
    BY <1>12
  <2>1. s \notin stale[t]
    BY <1>2, <1>5, <1>14
  <2>2. bbo[t][s] = Top(old, s)
    BY <1>6, <2>1 DEF BookInv, BBOIsTop
  <2> QED
    BY <1>13, <2>2
<1>16. BBOIsTop'
  <2>1. \A x \in Ticker \ {t} : Listed(x)' = Listed(x) /\ stale'[x] = stale[x]
    BY <1>2, <1>3, <1>4, <1>5 DEF Listed
  <2> SUFFICES ASSUME NEW x \in Ticker, NEW s \in Side \ stale'[x] PROVE bbo'[x][s] = Top(Listed(x)', s)
    BY DEF BBOIsTop, Top, On, BestPrice
  <2>2. CASE x = t
    BY <1>8, <1>15, <2>2
  <2>3. CASE x # t
    BY <1>11, <2>1, <2>3 DEF BookInv, BBOIsTop
  <2> QED
    BY <2>2, <2>3
<1>17. \A s \in Side : Top(listed, s).price \in Nat
  BY BestPriceIsBest, BookAssumption, Zenon DEF Top, NoBBO, Invalid
<1>18. \A x \in Ticker, s \in Side : bbo'[x][s].price \in Nat
  BY <1>11, <1>12, <1>17 DEF BookInv, BookTypes
<1>19. BookTypes'
  BY <1>2, <1>3, <1>4, <1>5, <1>10, <1>11, <1>18 DEF BookInv, BookTypes
<1>20. \A x \in Ticker : Unique(orders'[x]) /\ Uncrossed(orders'[x])
  BY <1>1, <1>2, <1>3 DEF BookInv
<1>21. StaleIsEmpty'
  <2> SUFFICES ASSUME NEW x \in Ticker, NEW s \in stale'[x] PROVE On(orders'[x], s) = {}
    BY DEF StaleIsEmpty, On
  <2>1. CASE x = t
    <3>1. s \in stale[t] /\ s # u.side /\ On(orders[t], s) = {}
      BY <1>2, <1>5, <2>1 DEF BookInv, StaleIsEmpty
    <3> QED
      BY <1>1, <1>3, <2>1, <3>1 DEF OneLevel, On
  <2>2. CASE x # t
    BY <1>2, <1>3, <1>5, <2>2 DEF BookInv, StaleIsEmpty
  <2> QED
    BY <2>1, <2>2
<1>22. FeatureIsOwn' /\ QuoteBehind'
  BY <1>10, <1>18, QuoteStep DEF BookInv, BookTypes
<1> QED
  BY <1>16, <1>19, <1>20, <1>21, <1>22 DEF BookInv

\* CLEAR empties the book and recomputes nothing: both sides of the best bid and offer are stale.
LEMMA ClearStep ==
  ASSUME BookInv, NEW t \in Ticker,
         onMarketUpdate(t, [type |-> "CLEAR", side |-> "INVALID", price |-> Invalid])
  PROVE  BookInv'
<1>1. PICK u : u = [type |-> "CLEAR", side |-> "INVALID", price |-> Invalid]
  OBVIOUS
<1>2. onMarketUpdate(t, u) /\ u.type = "CLEAR" /\ u.side = "INVALID"
  BY <1>1
<1>3. /\ orders \in [Ticker -> SUBSET Order] /\ freed \in [Ticker -> SUBSET Price]
      /\ stale \in [Ticker -> SUBSET Side]
  BY DEF BookInv, BookTypes
<1>4. orders' = [orders EXCEPT ![t] = {}] /\ orders'[t] = {}
  BY <1>2, <1>3 DEF onMarketUpdate, Applied
<1>5. freed' = [freed EXCEPT ![t] = freed[t] \cup {o.price : o \in orders[t]}]
  BY <1>2 DEF onMarketUpdate, Freed
<1>6. stale' = [stale EXCEPT ![t] = Side] /\ stale'[t] = Side
  BY <1>2, <1>3 DEF onMarketUpdate
<1>7. Updated(Listed(t), u) = {}
  BY <1>2 DEF Updated, Side
<1>8. /\ bbo' = [bbo EXCEPT ![t] = updateBBO(t, Listed(t)', {})]
      /\ onOrderBookUpdate(t, bbo'[t]) /\ algo' = algo
  BY <1>2, <1>7 DEF onMarketUpdate
<1>9. /\ bbo' = [x \in Ticker |-> bbo'[x]]
      /\ \A x \in Ticker, s \in Side : bbo'[x][s] = bbo[x][s]
  BY <1>8 DEF BookInv, BookTypes, updateBBO
<1>10. BBOIsTop'
  <2> SUFFICES ASSUME NEW x \in Ticker, NEW s \in Side \ stale'[x] PROVE bbo'[x][s] = Top(Listed(x)', s)
    BY DEF BBOIsTop, Top, On, BestPrice
  <2>1. x # t
    BY <1>6
  <2>2. Listed(x)' = Listed(x) /\ stale'[x] = stale[x]
    BY <1>3, <1>4, <1>5, <1>6, <2>1 DEF Listed
  <2> QED
    BY <1>9, <2>2 DEF BookInv, BBOIsTop
<1>11. BookTypes'
  <2>1. freed[t] \cup {o.price : o \in orders[t]} \in SUBSET Price
    BY <1>3 DEF Order
  <2>2. /\ freed' \in [Ticker -> SUBSET Price] /\ orders' \in [Ticker -> SUBSET Order]
        /\ stale' \in [Ticker -> SUBSET Side]
    BY <1>3, <1>4, <1>5, <1>6, <2>1
  <2> QED
    BY <1>8, <1>9, <2>2 DEF BookInv, BookTypes
<1>12. \A x \in Ticker : Unique(orders'[x]) /\ Uncrossed(orders'[x])
  BY <1>3, <1>4 DEF BookInv, Unique, Uncrossed, On
<1>13. StaleIsEmpty'
  BY <1>3, <1>4, <1>6 DEF BookInv, StaleIsEmpty, On
<1>14. FeatureIsOwn' /\ QuoteBehind'
  BY <1>8, <1>11, QuoteStep DEF BookInv, BookTypes
<1> QED
  BY <1>10, <1>11, <1>12, <1>13, <1>14 DEF BookInv

\* Every step keeps the invariant.
LEMMA BookStep == ASSUME BookInv, [Next]_vars PROVE BookInv'
<1>1. /\ orders \in [Ticker -> SUBSET Order]
      /\ \A t \in Ticker : Unique(orders[t]) /\ Uncrossed(orders[t])
  BY DEF BookInv, BookTypes
<1>2. ASSUME NEW t \in Ticker, NEW o \in Order, Fits(orders[t], o), onMarketUpdate(t, Update("ADD", o))
      PROVE  BookInv'
  <2>1. PICK u : u = Update("ADD", o)
    OBVIOUS
  <2>2. /\ u.type = "ADD" /\ u.side = o.side /\ u.price = o.price /\ u.order = o
        /\ u.price \in Price /\ u.side \in Side
    BY <2>1 DEF Update, Order
  <2>3. Applied(orders[t], u) = orders[t] \cup {o}
    BY <2>2 DEF Applied
  <2>4. Unique(orders[t] \cup {o})
    BY <1>1, <1>2 DEF Unique, Fits
  <2>5. Uncrossed(orders[t] \cup {o})
    <3>1. Uncrossed(orders[t])
      BY <1>1
    <3>2. \A x \in orders[t] : x.side # o.side => Better(o.side, x.price, o.price)
      BY <1>2 DEF Fits
    <3>3. \A x \in orders[t] \cup {o} : x.side \in Side /\ x.price \in Nat
      <4>1. \A x \in Order : x.side \in Side /\ x.price \in Price
        BY DEF Order
      <4> QED
        BY <1>1, <4>1, BookAssumption, Zenon
    <3> QED
      BY <3>1, <3>2, <3>3 DEF Uncrossed, On, Better, Side
  <2>6. orders[t] \cup {o} \in SUBSET Order /\ OneLevel(orders[t], orders[t] \cup {o}, u.side, u.price)
    BY <1>1, <2>2 DEF OneLevel
  <2> QED
    BY <1>2, <2>1, <2>2, <2>3, <2>4, <2>5, <2>6, LevelStep
<1>3. ASSUME NEW t \in Ticker, NEW o \in orders[t], NEW q \in Qty,
             onMarketUpdate(t, Update("MODIFY", [o EXCEPT !.qty = q]))
      PROVE  BookInv'
  <2>1. PICK x \in Order : x = [o EXCEPT !.qty = q] /\ x.id = o.id /\ x.side = o.side /\ x.price = o.price
    <3>1. o \in Order
      BY <1>1
    <3>2. /\ [o EXCEPT !.qty = q] \in Order /\ [o EXCEPT !.qty = q].id = o.id
          /\ [o EXCEPT !.qty = q].side = o.side /\ [o EXCEPT !.qty = q].price = o.price
      BY <3>1 DEF Order
    <3> QED
      BY <3>2, Zenon
  <2>2. PICK u : u = Update("MODIFY", x)
    OBVIOUS
  <2>3. /\ u.type = "MODIFY" /\ u.side = o.side /\ u.price = o.price /\ u.order = x
        /\ u.price \in Price /\ u.side \in Side
    BY <1>1, <2>1, <2>2 DEF Update, Order
  <2>4. PICK new : new = {y \in orders[t] : y.id # o.id} \cup {x}
    BY Zenon
  <2>5. Applied(orders[t], u) = new
    BY <2>1, <2>3, <2>4 DEF Applied
  <2>6. Unique(new)
    BY <1>1, <2>1, <2>4, Zenon DEF Unique
  <2>7. Uncrossed(new)
    <3>1. \A y \in new : \E z \in orders[t] : z.side = y.side /\ z.price = y.price
      BY <2>1, <2>4, Zenon
    <3> QED
      BY <1>1, <3>1 DEF Uncrossed, On
  <2>8. new \in SUBSET Order /\ OneLevel(orders[t], new, u.side, u.price)
    BY <1>1, <2>1, <2>3, <2>4, Zenon DEF OneLevel, Unique
  <2> QED
    BY <1>3, <2>1, <2>2, <2>3, <2>5, <2>6, <2>7, <2>8, LevelStep
<1>4. ASSUME NEW t \in Ticker, NEW o \in orders[t], onMarketUpdate(t, Update("CANCEL", o))
      PROVE  BookInv'
  <2>1. PICK u : u = Update("CANCEL", o)
    OBVIOUS
  <2>2. /\ u.type = "CANCEL" /\ u.side = o.side /\ u.price = o.price /\ u.order = o
        /\ u.price \in Price /\ u.side \in Side
    BY <1>1, <2>1 DEF Update, Order
  <2>3. PICK new : new = {y \in orders[t] : y.id # o.id}
    BY Zenon
  <2>4. Applied(orders[t], u) = new
    BY <2>2, <2>3 DEF Applied
  <2>5. /\ Unique(new) /\ Uncrossed(new)
        /\ new \in SUBSET Order /\ OneLevel(orders[t], new, u.side, u.price)
    BY <1>1, <2>2, <2>3 DEF OneLevel, Unique, Uncrossed, On
  <2> QED
    BY <1>4, <2>1, <2>2, <2>4, <2>5, LevelStep
<1>5. CASE Clear
  BY <1>5, ClearStep, BookAssumption DEF Clear
<1>6. CASE Trade
  <2>1. PICK t \in Ticker, q \in Qty : \E o \in orders[t] : onTradeUpdate(t, bbo[t], Opposite(o.side), q)
    BY <1>6 DEF Trade
  <2>2. UNCHANGED <<algo, orders, freed, bbo, stale>>
    BY <1>6 DEF Trade
  <2>3. quote' = NoQuote \/ (algo = "TAKER" /\ quote'.ticker = t /\ quote'.of = t)
    BY <2>1 DEF onTradeUpdate, TakerQuote
  <2>4. FeatureIsOwn' /\ QuoteBehind'
    BY <2>2, <2>3 DEF FeatureIsOwn, QuoteBehind, NoQuote
  <2> QED
    BY <2>2, <2>4 DEF BookInv, BookTypes, StaleIsEmpty, BBOIsTop, Listed
<1>7. CASE UNCHANGED vars
  BY <1>7 DEF vars, BookInv, BookTypes, StaleIsEmpty, BBOIsTop, Listed, FeatureIsOwn, QuoteBehind
<1> QED
  BY <1>2, <1>3, <1>4, <1>5, <1>6, <1>7, Zenon DEF Next, Add, Modify, Cancel

\* In every reachable state the books, the best bids and offers and the quote fit together.
THEOREM BookInvariant == Spec => []BookInv
<1>1. Init => BookInv
  <2> SUFFICES ASSUME Init PROVE BookInv
    OBVIOUS
  <2>1. BookTypes
    BY DEF Init, BookTypes, NoBBO, Invalid
  <2>2. BBOIsTop /\ StaleIsEmpty
    BY DEF Init, BBOIsTop, StaleIsEmpty, Listed, Top, On
  <2>3. \A t \in Ticker : Unique(orders[t]) /\ Uncrossed(orders[t])
    BY DEF Init, Unique, Uncrossed, On
  <2> QED
    BY <2>1, <2>2, <2>3 DEF Init, BookInv, FeatureIsOwn, QuoteBehind, NoQuote
<1> QED
  BY <1>1, BookStep, PTL DEF Spec

(***************************************************************************)
(* For any stream of updates that the exchange may send, with any number   *)
(* of recoveries, the best bid and offer is the top of the listed levels   *)
(* from the first update of a side after a CLEAR on, although              *)
(* onMarketUpdate decides before the update whether to compute it again.   *)
(***************************************************************************)
THEOREM BookBBO == Spec => []BBOIsTop
<1>1. BookInv => BBOIsTop
  BY DEF BookInv
<1> QED
  BY BookInvariant, <1>1, PTL

\* For any number of tickers that share the features, an algorithm acts on its ticker's own.
THEOREM BookFeature == Spec => []FeatureIsOwn
<1>1. BookInv => FeatureIsOwn
  BY DEF BookInv
<1> QED
  BY BookInvariant, <1>1, PTL

(***************************************************************************)
(* For any threshold and any book, with orders lost from the levels or     *)
(* not: a price the market maker quotes on a side that had an update since *)
(* the last CLEAR crosses no order of the exchange's book.                 *)
(***************************************************************************)
THEOREM BookMaker == Spec => []MakerDoesNotCross
<1>1. BookInv => MakerDoesNotCross
  <2> SUFFICES ASSUME BookInv, algo = "MAKER", quote # NoQuote PROVE MakerDoesNotCross
    BY DEF MakerDoesNotCross
  <2>1. PICK t \in Ticker :
          /\ t = quote.ticker /\ Both(bbo[t])
          /\ quote.bid \in Int /\ quote.bid <= bbo[t]["BUY"].price
          /\ quote.ask \in Int /\ quote.ask >= bbo[t]["SELL"].price
    BY DEF BookInv, QuoteBehind
  <2>2. ASSUME NEW s \in Side, s \notin stale[t]
        PROVE  \E o \in On(orders[t], s) : o.price = bbo[t][s].price /\ o.price \in Nat
    <3>1. PICK listed \in SUBSET Order : listed = Listed(t)
      BY DEF BookInv, BookTypes, Listed
    <3>2. bbo[t][s] = Top(listed, s) /\ bbo[t][s].price # Invalid
      BY <2>1, <2>2, <3>1 DEF BookInv, BBOIsTop, Both, Side
    <3>3. On(listed, s) # {} /\ bbo[t][s].price = BestPrice(listed, s)
      BY <3>2 DEF Top, NoBBO
    <3>4. PICK o \in On(listed, s) : o.price = bbo[t][s].price
      BY <3>3, BestPriceIsBest DEF IsBest
    <3>5. o \in On(orders[t], s) /\ o.price \in Nat
      BY <3>1, BookAssumption DEF On, Listed, Order
    <3> QED
      BY <3>4, <3>5
  <2>3. \A o \in orders[t] : o.price \in Nat
    BY BookAssumption DEF BookInv, BookTypes, Order
  <2>4. Uncrossed(orders[t])
    BY DEF BookInv
  <2>5. ASSUME "BUY" \notin stale[t], NEW x \in On(orders[t], "SELL") PROVE quote.bid < x.price
    <3>1. PICK o \in On(orders[t], "BUY") : o.price = bbo[t]["BUY"].price /\ o.price \in Nat
      BY <2>2, <2>5 DEF Side
    <3>2. o.price < x.price /\ x.price \in Nat
      BY <2>3, <2>4 DEF Uncrossed, On
    <3> QED
      BY <2>1, <3>1, <3>2
  <2>6. ASSUME "SELL" \notin stale[t], NEW x \in On(orders[t], "BUY") PROVE quote.ask > x.price
    <3>1. PICK o \in On(orders[t], "SELL") : o.price = bbo[t]["SELL"].price /\ o.price \in Nat
      BY <2>2, <2>6 DEF Side
    <3>2. x.price < o.price /\ x.price \in Nat
      BY <2>3, <2>4 DEF Uncrossed, On
    <3> QED
      BY <2>1, <3>1, <3>2
  <2> QED
    BY <2>1, <2>5, <2>6 DEF MakerDoesNotCross
<1> QED
  BY BookInvariant, <1>1, PTL

-----------------------------------------------------------------------------
(* The pool. *)

\* The users hold exactly the blocks that are not free, and the block for the next allocation is
\* free as long as the process runs.
HeldAgrees ==
  /\ held = {i \in Block : ~is_free[i]}
  /\ ~aborted => is_free[next_free_index]
  /\ AbortMeansFull

PoolInv == PoolTypeOK /\ HeldAgrees

\* The pool begins with all blocks free.
LEMMA PoolInitInv == PoolInit => PoolInv
<1> SUFFICES ASSUME PoolInit PROVE PoolInv
  OBVIOUS
<1>1. 0 \in Block
  BY PoolAssumption DEF Block
<1>2. PoolTypeOK
  BY <1>1, Zenon DEF PoolInit, PoolTypeOK
<1>3. HeldAgrees
  BY <1>1 DEF PoolInit, HeldAgrees, AbortMeansFull
<1> QED BY <1>2, <1>3 DEF PoolInv

\* allocate and deallocate keep the flags and the blocks given out in agreement.
LEMMA PoolStep == PoolInv /\ [PoolNext]_poolVars => PoolInv'
<1> SUFFICES ASSUME PoolInv, [PoolNext]_poolVars PROVE PoolInv'
  OBVIOUS
<1> USE PoolAssumption DEF PoolInv, PoolTypeOK, HeldAgrees, AbortMeansFull
<1>1. CASE allocate
  <2>1. CASE ~is_free[next_free_index]
    BY <1>1, <2>1 DEF allocate
  <2>2. CASE is_free[next_free_index]
    <3>1. ~aborted /\ is_free' = Marked(next_free_index) /\ held' = held \cup {next_free_index}
      BY <1>1, <2>2 DEF allocate
    <3>2. is_free' \in [Block -> BOOLEAN] /\ held' \subseteq Block
      BY <3>1 DEF Marked
    <3>3. held' = {i \in Block : ~is_free'[i]}
      BY <3>1 DEF Marked
    <3>4. CASE \E i \in Block : is_free'[i]
      BY <1>1, <2>2, <3>1, <3>2, <3>3, <3>4 DEF allocate, Found
    <3>5. CASE ~\E i \in Block : is_free'[i]
      BY <1>1, <2>2, <3>1, <3>2, <3>3, <3>5 DEF allocate
    <3> QED BY <3>4, <3>5
  <2> QED BY <2>1, <2>2
<1>2. ASSUME NEW i \in Block, deallocate(i) PROVE PoolInv'
  BY <1>2, Zenon DEF deallocate
<1>3. CASE UNCHANGED poolVars
  BY <1>3 DEF poolVars
<1> QED BY <1>1, <1>2, <1>3 DEF PoolNext

\* The flags and the index have their types in every reachable state.
THEOREM PoolTypes == PoolSpec => []PoolTypeOK
<1>1. PoolInv => PoolTypeOK BY DEF PoolInv
<1> QED BY <1>1, PoolInitInv, PoolStep, PTL DEF PoolSpec

\* For every number of blocks, allocate never gives out a block that somebody still has.
THEOREM PoolNextNotHeld == PoolSpec => []NextNotHeld
<1>1. PoolInv => NextNotHeld BY DEF PoolInv, PoolTypeOK, HeldAgrees, NextNotHeld
<1> QED BY <1>1, PoolInitInv, PoolStep, PTL DEF PoolSpec

\* For every number of blocks, an ASSERT of the pool fails only when every block is in use.
THEOREM PoolAbortMeansFull == PoolSpec => []AbortMeansFull
<1>1. PoolInv => AbortMeansFull BY DEF PoolInv, HeldAgrees
<1> QED BY <1>1, PoolInitInv, PoolStep, PTL DEF PoolSpec

-----------------------------------------------------------------------------
(***************************************************************************)
(* The list of price levels is a sorted ring, for any set of prices, and   *)
(* implements the abstract set of levels MEOrderBook is written against.   *)
(***************************************************************************)

\* The inductive invariant: a sorted ring and a search that is on course.
RingInv == RingTypeOK /\ RingSorted /\ SearchOnCourse

-----------------------------------------------------------------------------
(* BetterLevel is a strict total order on prices. *)
LEMMA BetterIsOrder ==
  ASSUME side \in {"BUY", "SELL"}
  PROVE  /\ \A p \in LevelPrice : ~BetterLevel(p, p)
         /\ \A p, q \in LevelPrice : BetterLevel(p, q) => ~BetterLevel(q, p)
         /\ \A p, q \in LevelPrice : p = q \/ BetterLevel(p, q) \/ BetterLevel(q, p)
         /\ \A p, q, r \in LevelPrice : BetterLevel(p, q) /\ BetterLevel(q, r) => BetterLevel(p, r)
<1>1. \A p \in LevelPrice : p \in Nat
  BY PriceAssumption
<1>2. CASE side = "BUY"
  BY <1>1, <1>2 DEF BetterLevel
<1>3. CASE side = "SELL"
  BY <1>1, <1>3 DEF BetterLevel
<1> QED
  BY <1>2, <1>3

(* The condition of add_after is BetterLevel with the arguments exchanged. *)
LEMMA AfterIsWorse ==
  ASSUME side \in {"BUY", "SELL"}, NEW p \in LevelPrice, NEW q \in LevelPrice
  PROVE  After(p, q) <=> BetterLevel(q, p)
<1>1. p \in Nat /\ q \in Nat
  BY PriceAssumption
<1> QED
  BY <1>1 DEF After, BetterLevel

(***************************************************************************)
(* Linking a new level between two neighbours a and b keeps the ring       *)
(* sorted, when it goes after a, or is the new best level and a the worst. *)
(***************************************************************************)
LEMMA LinkKeepsRing ==
  ASSUME RingTypeOK, RingSorted, NEW new \in LevelPrice \ Level, NEW a \in Level, NEW b \in Level,
         b = next_entry[a],
         next_entry' = With([next_entry EXCEPT ![a] = new], new, b),
         prev_entry' = With([prev_entry EXCEPT ![b] = new], new, a),
         side' = side,
         \/ /\ b = best /\ BetterLevel(new, best) /\ best' = new
         \/ /\ BetterLevel(a, new) /\ (b = best \/ BetterLevel(new, b)) /\ best' = best
  PROVE  /\ Level' = Level \cup {new} /\ Level' \subseteq LevelPrice
         /\ next_entry' \in [Level' -> Level'] /\ prev_entry' \in [Level' -> Level']
         /\ best' \in Level'
         /\ RingSorted'
<1>1. /\ DOMAIN prev_entry = Level /\ best \in Level
      /\ \A p \in Level : p \in LevelPrice /\ next_entry[p] \in Level /\ prev_entry[p] \in Level
  BY DEF RingTypeOK
<1>2. /\ Level' = Level \cup {new}
      /\ next_entry'[new] = b /\ next_entry'[a] = new
      /\ \A q \in Level \ {a} : next_entry'[q] = next_entry[q]
      /\ next_entry' = [q \in Level \cup {new} |-> next_entry'[q]]
  BY DEF Level, With
<1>3. /\ prev_entry'[new] = a /\ prev_entry'[b] = new
      /\ \A q \in Level \ {b} : prev_entry'[q] = prev_entry[q]
      /\ prev_entry' = [q \in Level \cup {new} |-> prev_entry'[q]]
      /\ DOMAIN prev_entry' = Level \cup {new}
  BY <1>1 DEF With
<1>4. \A p, q : BetterLevel(p, q)' <=> BetterLevel(p, q)
  BY DEF BetterLevel
<1> HIDE DEF Level
<1>5. /\ Level' \subseteq LevelPrice /\ next_entry' \in [Level' -> Level']
      /\ prev_entry' \in [Level' -> Level'] /\ best' \in Level'
  <2>1. \A q \in Level \cup {new} : next_entry'[q] \in Level \cup {new}
    BY <1>1, <1>2, Zenon
  <2>2. \A q \in Level \cup {new} : prev_entry'[q] \in Level \cup {new}
    BY <1>1, <1>3, Zenon
  <2> QED
    BY <1>1, <1>2, <1>3, <2>1, <2>2, Zenon
<1> DEFINE L == Level \cup {new}
<1>6. /\ \A p \in LevelPrice : ~BetterLevel(p, p)
      /\ \A p, q \in LevelPrice : BetterLevel(p, q) => ~BetterLevel(q, p)
      /\ \A p, q \in LevelPrice : p = q \/ BetterLevel(p, q) \/ BetterLevel(q, p)
      /\ \A p, q, r \in LevelPrice : BetterLevel(p, q) /\ BetterLevel(q, r) => BetterLevel(p, r)
  BY BetterIsOrder DEF RingTypeOK
<1>7. /\ \A p \in Level : prev_entry[next_entry[p]] = p /\ next_entry[prev_entry[p]] = p
      /\ \A p \in Level : p = best \/ BetterLevel(best, p)
      /\ \A p \in Level : next_entry[p] = best \/ BetterLevel(p, next_entry[p])
      /\ \A p, q \in Level : BetterLevel(p, q) =>
           next_entry[p] # best /\ (q = next_entry[p] \/ BetterLevel(next_entry[p], q))
  BY DEF RingSorted
<1>8. /\ prev_entry[b] = a
      /\ \A p \in Level : next_entry[p] = b => p = a
      /\ \A p \in Level : prev_entry[p] = a => p = b
  BY <1>1, <1>7
<1>9. \A p \in Level \ {a} : next_entry'[p] = next_entry[p] /\ next_entry[p] \in Level \ {b}
  BY <1>1, <1>2, <1>8, Zenon
<1>10. \A p \in Level \ {b} : prev_entry'[p] = prev_entry[p] /\ prev_entry[p] \in Level \ {a}
  BY <1>1, <1>3, <1>8, Zenon
<1>11. ASSUME NEW p \in L
      PROVE  prev_entry'[next_entry'[p]] = p /\ next_entry'[prev_entry'[p]] = p
  <2>1. prev_entry'[next_entry'[p]] = p
    <3>1. CASE p = new \/ p = a
      BY <1>2, <1>3, <3>1, Zenon
    <3>2. CASE p \in Level \ {a}
      <4>1. next_entry'[p] = next_entry[p] /\ next_entry[p] \in Level \ {b}
        BY <1>9, <3>2, Zenon
      <4>2. prev_entry'[next_entry[p]] = prev_entry[next_entry[p]]
        BY <1>10, <4>1, Zenon
      <4> QED
        BY <1>7, <3>2, <4>1, <4>2
    <3> QED
      BY <3>1, <3>2
  <2>2. next_entry'[prev_entry'[p]] = p
    <3>1. CASE p = new \/ p = b
      BY <1>2, <1>3, <3>1, Zenon
    <3>2. CASE p \in Level \ {b}
      <4>1. prev_entry'[p] = prev_entry[p] /\ prev_entry[p] \in Level \ {a}
        BY <1>10, <3>2, Zenon
      <4>2. next_entry'[prev_entry[p]] = next_entry[prev_entry[p]]
        BY <1>9, <4>1, Zenon
      <4> QED
        BY <1>7, <3>2, <4>1, <4>2
    <3> QED
      BY <3>1, <3>2
  <2> QED
    BY <2>1, <2>2
<1>12. ASSUME NEW p \in L
      PROVE  p = best' \/ BetterLevel(best', p)
  BY <1>1, <1>6, <1>7
<1>13. ASSUME NEW p \in L
       PROVE  next_entry'[p] = best' \/ BetterLevel(p, next_entry'[p])
  <2>1. CASE p = new
    BY <1>2, <2>1
  <2>2. CASE p = a
    BY <1>1, <1>2, <1>7, <2>2
  <2>3. CASE p \in Level \ {a}
    BY <1>7, <1>9, <2>3, Zenon
  <2> QED
    BY <2>1, <2>2, <2>3
<1>14. ASSUME NEW p \in L, NEW q \in L, BetterLevel(p, q)
       PROVE  /\ next_entry'[p] # best'
              /\ q = next_entry'[p] \/ BetterLevel(next_entry'[p], q)
  <2>1. p \in LevelPrice /\ q \in LevelPrice /\ new \in LevelPrice /\ p # q
    BY <1>1, <1>6, <1>14
  <2>2. CASE p = new
    BY <1>1, <1>2, <1>6, <1>7, <1>14, <2>1, <2>2
  <2>3. CASE p = a
    BY <1>1, <1>2, <1>6, <1>7, <1>14, <2>1, <2>3
  <2>4. CASE p \in Level \ {a} /\ q = new
    <3>1. next_entry'[p] = next_entry[p] /\ next_entry[p] # b
      BY <1>9, <2>4, Zenon
    <3>2. best' = best
      BY <1>1, <1>6, <1>7, <1>14, <2>1, <2>4
    <3>3. BetterLevel(a, new)
      BY <3>2, <1>1
    <3>4. BetterLevel(p, a)
      BY <1>1, <1>6, <1>7, <1>14, <2>1, <2>4, <3>3
    <3> QED
      BY <1>1, <1>6, <1>7, <2>1, <2>4, <3>1, <3>2, <3>3, <3>4
  <2>5. CASE p \in Level \ {a} /\ q \in Level
    <3>1. next_entry'[p] = next_entry[p] /\ next_entry[p] # b /\ next_entry[p] \in Level
      BY <1>9, <2>5, Zenon
    <3>2. next_entry'[p] # best'
      BY <1>1, <1>7, <1>14, <2>5, <3>1
    <3> QED
      BY <1>7, <1>14, <2>5, <3>1, <3>2
  <2> QED
    BY <2>2, <2>3, <2>4, <2>5
<1>15. RingSorted'
  BY <1>2, <1>4, <1>11, <1>12, <1>13, <1>14, Zenon DEF RingSorted
<1> QED
  BY <1>2, <1>5, <1>15, Zenon

(* Unlinking a level that is not the only one keeps the ring sorted. *)
LEMMA UnlinkKeepsRing ==
  ASSUME RingTypeOK, RingSorted, NEW p \in Level, NEW a \in Level, NEW b \in Level,
         a = prev_entry[p], b = next_entry[p], b # p,
         next_entry' = Without([next_entry EXCEPT ![a] = b], p),
         prev_entry' = Without([prev_entry EXCEPT ![b] = a], p),
         side' = side,
         best' = IF p = best THEN b ELSE best
  PROVE  /\ Level' = Level \ {p}
         /\ next_entry' \in [Level' -> Level'] /\ prev_entry' \in [Level' -> Level']
         /\ best' \in Level'
         /\ RingSorted'
<1>1. /\ DOMAIN prev_entry = Level /\ best \in Level
      /\ \A q \in Level : q \in LevelPrice /\ next_entry[q] \in Level /\ prev_entry[q] \in Level
  BY DEF RingTypeOK
<1>2. /\ \A q \in LevelPrice : ~BetterLevel(q, q)
      /\ \A q, r \in LevelPrice : BetterLevel(q, r) => ~BetterLevel(r, q)
      /\ \A q, r \in LevelPrice : q = r \/ BetterLevel(q, r) \/ BetterLevel(r, q)
      /\ \A q, r, t \in LevelPrice : BetterLevel(q, r) /\ BetterLevel(r, t) => BetterLevel(q, t)
  BY BetterIsOrder DEF RingTypeOK
<1>3. /\ \A q \in Level : prev_entry[next_entry[q]] = q /\ next_entry[prev_entry[q]] = q
      /\ \A q \in Level : q = best \/ BetterLevel(best, q)
      /\ \A q \in Level : next_entry[q] = best \/ BetterLevel(q, next_entry[q])
      /\ \A q, r \in Level : BetterLevel(q, r) =>
           next_entry[q] # best /\ (r = next_entry[q] \/ BetterLevel(next_entry[q], r))
  BY DEF RingSorted
<1>4. /\ next_entry[a] = p /\ prev_entry[b] = p /\ a # p
      /\ \A q \in Level : next_entry[q] = p => q = a
      /\ \A q \in Level : prev_entry[q] = p => q = b
      /\ \A q \in Level : next_entry[q] = b => q = p
      /\ \A q \in Level : prev_entry[q] = a => q = p
  BY <1>1, <1>3
<1>5. /\ Level' = Level \ {p}
      /\ next_entry'[a] = b
      /\ \A q \in Level \ {p, a} : next_entry'[q] = next_entry[q]
      /\ next_entry' = [q \in Level \ {p} |-> next_entry'[q]]
  BY <1>4 DEF Without, Level
<1>6. /\ DOMAIN prev_entry' = Level \ {p}
      /\ prev_entry'[b] = a
      /\ \A q \in Level \ {p, b} : prev_entry'[q] = prev_entry[q]
      /\ prev_entry' = [q \in Level \ {p} |-> prev_entry'[q]]
  BY <1>1 DEF Without
<1>7. \A q, r : BetterLevel(q, r)' <=> BetterLevel(q, r)
  BY DEF BetterLevel
<1> HIDE DEF Level
<1>8. \A q \in Level \ {p, a} : next_entry'[q] = next_entry[q] /\ next_entry[q] \in Level \ {p, b}
  BY <1>1, <1>4, <1>5, Zenon
<1>9. \A q \in Level \ {p, b} : prev_entry'[q] = prev_entry[q] /\ prev_entry[q] \in Level \ {p, a}
  BY <1>1, <1>4, <1>6, Zenon
<1>10. /\ next_entry' \in [Level' -> Level'] /\ prev_entry' \in [Level' -> Level']
       /\ best' \in Level'
  <2>1. \A q \in Level \ {p} : next_entry'[q] \in Level \ {p}
    BY <1>5, <1>8, Zenon
  <2>2. \A q \in Level \ {p} : prev_entry'[q] \in Level \ {p}
    BY <1>4, <1>6, <1>9, Zenon
  <2> QED
    BY <1>1, <1>5, <1>6, <2>1, <2>2, Zenon
<1>11. ASSUME NEW q \in Level \ {p}
       PROVE  prev_entry'[next_entry'[q]] = q /\ next_entry'[prev_entry'[q]] = q
  <2>1. prev_entry'[next_entry'[q]] = q
    <3>1. CASE q = a
      BY <1>5, <1>6, <3>1, Zenon
    <3>2. CASE q # a
      <4>1. next_entry'[q] = next_entry[q] /\ next_entry[q] \in Level \ {p, b}
        BY <1>8, <3>2, Zenon
      <4>2. prev_entry'[next_entry[q]] = prev_entry[next_entry[q]]
        BY <1>9, <4>1, Zenon
      <4> QED
        BY <1>3, <4>1, <4>2
    <3> QED
      BY <3>1, <3>2
  <2>2. next_entry'[prev_entry'[q]] = q
    <3>1. CASE q = b
      BY <1>5, <1>6, <3>1, Zenon
    <3>2. CASE q # b
      <4>1. prev_entry'[q] = prev_entry[q] /\ prev_entry[q] \in Level \ {p, a}
        BY <1>9, <3>2, Zenon
      <4>2. next_entry'[prev_entry[q]] = next_entry[prev_entry[q]]
        BY <1>8, <4>1, Zenon
      <4> QED
        BY <1>3, <4>1, <4>2
    <3> QED
      BY <3>1, <3>2
  <2> QED
    BY <2>1, <2>2
<1>12. ASSUME NEW q \in Level \ {p}
       PROVE  q = best' \/ BetterLevel(best', q)
  BY <1>3
<1>13. ASSUME NEW q \in Level \ {p}
       PROVE  next_entry'[q] = best' \/ BetterLevel(q, next_entry'[q])
  <2>1. CASE q = a
    <3>1. CASE p = best \/ b = best
      BY <1>5, <2>1, <3>1
    <3>2. CASE p # best /\ b # best
      <4>1. BetterLevel(a, p) /\ BetterLevel(p, b)
        BY <1>3, <1>4, <3>2
      <4> QED
        BY <1>1, <1>2, <1>5, <2>1, <4>1
    <3> QED
      BY <3>1, <3>2
  <2>2. CASE q # a
    BY <1>3, <1>4, <1>8, <2>2, Zenon
  <2> QED
    BY <2>1, <2>2
<1>14. ASSUME NEW q \in Level \ {p}, NEW r \in Level \ {p}, BetterLevel(q, r)
       PROVE  /\ next_entry'[q] # best'
              /\ r = next_entry'[q] \/ BetterLevel(next_entry'[q], r)
  <2>1. next_entry[q] # best /\ (r = next_entry[q] \/ BetterLevel(next_entry[q], r))
    BY <1>3, <1>14
  <2>2. CASE q = a
    <3>1. p # best /\ BetterLevel(p, r)
      BY <1>4, <2>1, <2>2
    <3>2. b # best /\ (r = b \/ BetterLevel(b, r))
      BY <1>3, <3>1
    <3> QED
      BY <1>5, <2>2, <3>1, <3>2
  <2>3. CASE q # a
    BY <1>8, <2>1, <2>3, Zenon
  <2> QED
    BY <2>2, <2>3
<1>15. RingSorted'
  BY <1>5, <1>7, <1>11, <1>12, <1>13, <1>14, Zenon DEF RingSorted
<1> QED
  BY <1>5, <1>10, <1>15, Zenon

-----------------------------------------------------------------------------
(* One lemma per action. *)

(* The first level of a side is its own neighbour. *)
LEMMA AddFirstStep ==
  ASSUME RingInv, NEW p \in LevelPrice, addFirst(p)
  PROVE  RingInv' /\ Level = {} /\ Level' = {p} /\ best' = p /\ side' = side
<1>1. Level = {} /\ DOMAIN prev_entry = {} /\ Quiet /\ Quiet' /\ side' = side /\ best' = p
  <2>1. p \in Nat /\ \A q \in Level : q \in Nat
    BY PriceAssumption DEF RingInv, RingTypeOK
  <2>2. Level = {}
    BY <2>1 DEF addFirst, Nil, RingInv, RingTypeOK
  <2> QED
    BY <2>2 DEF addFirst, Quiet, RingInv, RingTypeOK
<1>2. Level' = {p} /\ next_entry' = [q \in {p} |-> p] /\ prev_entry' = [q \in {p} |-> p]
  BY <1>1 DEF addFirst, With, Level
<1>3. RingTypeOK'
  BY <1>1, <1>2 DEF RingTypeOK, RingInv
<1>4. RingSorted'
  <2>1. ~BetterLevel(p, p)'
    <3>1. p \in Nat
      BY PriceAssumption
    <3> QED
      BY <3>1 DEF BetterLevel
  <2> QED
    BY <1>1, <1>2, <2>1 DEF RingSorted
<1>5. SearchOnCourse'
  BY <1>1 DEF SearchOnCourse
<1> QED
  BY <1>1, <1>2, <1>3, <1>4, <1>5 DEF RingInv

(* The search for the place of a new level starts on course. *)
LEMMA StartStep ==
  ASSUME RingInv, NEW p \in LevelPrice, addOrdersAtPrice(p)
  PROVE  RingInv'
<1>1. /\ p \notin Level /\ side \in {"BUY", "SELL"}
      /\ UNCHANGED <<side, best, next_entry, prev_entry>>
      /\ best \in Level /\ best \in LevelPrice
      /\ next_entry[best] \in Level /\ next_entry[best] \in LevelPrice
  BY DEF addOrdersAtPrice, RingInv, RingTypeOK
<1>2. adding' \in Locals
  BY <1>1 DEF addOrdersAtPrice, Locals, After
<1>3. RingTypeOK' /\ RingSorted'
  BY <1>1, <1>2 DEF RingInv, RingTypeOK, RingSorted, BetterLevel, Level
<1>4. prev_entry[next_entry[best]] = best
  BY <1>1 DEF RingInv, RingSorted
<1>5. Level' = Level /\ \A q, r : BetterLevel(q, r)' <=> BetterLevel(q, r)
  BY <1>1 DEF Level, BetterLevel
<1>6. \A q, r \in LevelPrice : q = r \/ BetterLevel(q, r) \/ BetterLevel(r, q)
  BY <1>1, BetterIsOrder
<1>7. CASE After(p, best)
  <2>1. BetterLevel(best, p)
    BY <1>1, <1>7, AfterIsWorse
  <2>2. /\ adding'.new = p /\ adding'.target = next_entry[best]
        /\ adding'.add_after = After(p, next_entry[best])
    BY <1>7 DEF addOrdersAtPrice
  <2>3. ~adding'.add_after => BetterLevel(p, next_entry[best])
    BY <1>1, <1>6, <2>2, AfterIsWorse
  <2>4. SearchOnCourse'
    BY <1>1, <1>4, <1>5, <2>1, <2>2, <2>3 DEF SearchOnCourse
  <2> QED
    BY <1>3, <2>4 DEF RingInv
<1>8. CASE ~After(p, best)
  <2>1. BetterLevel(p, best)
    BY <1>1, <1>6, <1>8, AfterIsWorse
  <2>2. adding'.new = p /\ adding'.target = best /\ adding'.add_after = FALSE
    BY <1>8 DEF addOrdersAtPrice
  <2>3. SearchOnCourse'
    BY <1>1, <1>5, <2>1, <2>2 DEF SearchOnCourse
  <2> QED
    BY <1>3, <2>3 DEF RingInv
<1> QED
  BY <1>7, <1>8

(* An iteration of the search keeps it on course. *)
LEMMA SearchStep ==
  ASSUME RingInv, search
  PROVE  RingInv'
<1> DEFINE new == adding.new
           target == adding.target
<1>1. /\ ~Quiet /\ adding \in Locals /\ Searching /\ side \in {"BUY", "SELL"}
      /\ UNCHANGED <<side, best, next_entry, prev_entry>>
  BY DEF search, RingInv, RingTypeOK
<1>2. /\ new \in LevelPrice /\ new \notin Level
      /\ target \in Level /\ target \in LevelPrice /\ next_entry[target] \in Level
      /\ next_entry[target] \in LevelPrice /\ prev_entry[next_entry[target]] = target
      /\ BetterLevel(prev_entry[target], new)
  BY <1>1 DEF RingInv, RingTypeOK, SearchOnCourse, RingSorted, Searching
<1>3. /\ adding' = [adding EXCEPT !.add_after = After(new, target),
                                 !.target = IF After(new, target) THEN next_entry[target] ELSE target]
  BY DEF search
<1>4. /\ adding' \in Locals /\ adding'.new = new
      /\ adding'.add_after = After(new, target)
      /\ adding'.target = IF After(new, target) THEN next_entry[target] ELSE target
  BY <1>1, <1>2, <1>3, Zenon DEF Locals, After
<1>5. RingTypeOK' /\ RingSorted'
  BY <1>1, <1>4 DEF RingInv, RingTypeOK, RingSorted, BetterLevel, Level
<1>6. Level' = Level /\ \A q, r : BetterLevel(q, r)' <=> BetterLevel(q, r)
  BY <1>1 DEF Level, BetterLevel
<1>7. After(new, target) <=> BetterLevel(target, new)
  BY <1>1, <1>2, AfterIsWorse
<1>8. BetterLevel(new, target) \/ BetterLevel(target, new)
  BY <1>1, <1>2, BetterIsOrder
<1> HIDE DEF new, target
<1>9. SearchOnCourse'
  BY <1>1, <1>2, <1>4, <1>6, <1>7, <1>8 DEF SearchOnCourse
<1> QED
  BY <1>5, <1>9 DEF RingInv

(* A level that is worse than all others is linked before the best one. *)
LEMMA InsertAfterStep ==
  ASSUME RingInv, insertAfter
  PROVE  RingInv' /\ side' = side /\ adding.new \in LevelPrice \ Level /\ Level' = Level \cup {adding.new}
<1> DEFINE new == adding.new
           a == prev_entry[best]
<1>1. ~Quiet /\ Quiet' /\ adding \in Locals /\ adding.add_after /\ adding.target = best
      /\ side' = side /\ best' = best
  BY DEF insertAfter, RingInv, RingTypeOK, Quiet, Searching
<1>2. new \in LevelPrice \ Level /\ best \in Level /\ a \in Level /\ next_entry[a] = best
      /\ BetterLevel(a, new)
  BY <1>1 DEF RingInv, RingTypeOK, SearchOnCourse, RingSorted
<1>3. /\ prev_entry' = With([prev_entry EXCEPT ![best] = new], new, a)
      /\ next_entry' = With([next_entry EXCEPT ![a] = new], new, best)
  BY <1>1, <1>2, Zenon DEF insertAfter
<1> HIDE DEF new, a
<1>4. /\ Level' = Level \cup {new} /\ Level' \subseteq LevelPrice
      /\ next_entry' \in [Level' -> Level'] /\ prev_entry' \in [Level' -> Level']
      /\ best' \in Level' /\ RingSorted'
  BY <1>1, <1>2, <1>3, LinkKeepsRing, Zenon DEF RingInv
<1>5. RingTypeOK' /\ SearchOnCourse'
  BY <1>1, <1>4 DEF RingInv, RingTypeOK, SearchOnCourse
<1> QED
  BY <1>1, <1>2, <1>4, <1>5 DEF RingInv, new

(* A level is linked before the first one that is worse. *)
LEMMA InsertBeforeStep ==
  ASSUME RingInv, insertBefore
  PROVE  RingInv' /\ side' = side /\ adding.new \in LevelPrice \ Level /\ Level' = Level \cup {adding.new}
<1> DEFINE new == adding.new
           b == adding.target
           a == prev_entry[b]
           linked == With([next_entry EXCEPT ![a] = new], new, b)
<1>1. ~Quiet /\ Quiet' /\ adding \in Locals /\ ~adding.add_after /\ side' = side
  BY DEF insertBefore, RingInv, RingTypeOK, Quiet
<1>2. /\ new \in LevelPrice \ Level /\ b \in Level /\ a \in Level /\ next_entry[a] = b
      /\ BetterLevel(new, b) /\ (b # best => BetterLevel(a, new))
      /\ best \in Level /\ DOMAIN prev_entry = Level
      /\ \A p \in Level : p \in LevelPrice
  BY <1>1 DEF RingInv, RingTypeOK, SearchOnCourse, RingSorted
<1>3. /\ prev_entry' = With([prev_entry EXCEPT ![b] = new], new, a)
      /\ \/ /\ BetterLevel(new, best)
            /\ next_entry' = [linked EXCEPT ![b] = IF linked[b] = best THEN new ELSE linked[b]]
            /\ best' = new
         \/ /\ ~BetterLevel(new, best)
            /\ next_entry' = linked
            /\ best' = best
  BY Zenon DEF insertBefore
<1>4. BetterLevel(new, best) => b = best
  <2>1. b = best \/ BetterLevel(best, b)
    BY <1>2 DEF RingInv, RingSorted
  <2>2. ASSUME BetterLevel(new, best), b # best
        PROVE  FALSE
    <3>1. BetterLevel(a, new) /\ BetterLevel(new, best)
      BY <1>2, <2>2
    <3>2. a = best \/ BetterLevel(best, a)
      BY <1>2 DEF RingInv, RingSorted
    <3>3. a \in LevelPrice /\ new \in LevelPrice /\ best \in LevelPrice
      BY <1>2
    <3> HIDE DEF a, new
    <3> QED
      BY <3>1, <3>2, <3>3, BetterIsOrder DEF RingInv, RingTypeOK
  <2> QED
    BY <2>2
<1>5. b = best => linked[b] # best
  <2> SUFFICES ASSUME b = best, linked[b] = best PROVE FALSE
    OBVIOUS
  <2>1. CASE a = b
    <3>1. linked[b] = new
      BY <1>2, <2>1 DEF With, Level
    <3> QED
      BY <1>2, <3>1
  <2>2. CASE a # b
    <3>1. linked[b] = next_entry[b]
      BY <1>2, <2>2 DEF With, Level
    <3>2. prev_entry[next_entry[b]] = b
      BY <1>2 DEF RingInv, RingSorted
    <3> QED
      BY <2>2, <3>1, <3>2
  <2> QED
    BY <2>1, <2>2
<1>6. next_entry' = linked /\ best' = IF BetterLevel(new, best) THEN new ELSE best
  <2>1. [linked EXCEPT ![b] = linked[b]] = linked
    BY DEF With
  <2> QED
    BY <1>3, <1>4, <1>5, <2>1, Zenon
<1>7. ~BetterLevel(new, best) => b # best
  BY <1>2
<1>8. /\ next_entry' = With([next_entry EXCEPT ![a] = new], new, b)
      /\ prev_entry' = With([prev_entry EXCEPT ![b] = new], new, a)
      /\ \/ b = best /\ BetterLevel(new, best) /\ best' = new
         \/ BetterLevel(a, new) /\ (b = best \/ BetterLevel(new, b)) /\ best' = best
  BY <1>2, <1>3, <1>4, <1>6, <1>7
<1> HIDE DEF new, a, b, linked
<1>9. /\ Level' = Level \cup {new} /\ Level' \subseteq LevelPrice
      /\ next_entry' \in [Level' -> Level'] /\ prev_entry' \in [Level' -> Level']
      /\ best' \in Level' /\ RingSorted'
  BY <1>1, <1>2, <1>8, LinkKeepsRing, Zenon DEF RingInv
<1>10. RingTypeOK' /\ SearchOnCourse'
  BY <1>1, <1>9 DEF RingInv, RingTypeOK, SearchOnCourse
<1> QED
  BY <1>1, <1>2, <1>9, <1>10 DEF RingInv, new

(* Removing a level leaves the others in a sorted ring. *)
LEMMA RemoveStep ==
  ASSUME RingInv, NEW p \in LevelPrice, removeOrdersAtPrice(p)
  PROVE  RingInv' /\ side' = side /\ p \in Level /\ Level' = Level \ {p}
<1>1. /\ Quiet /\ Quiet' /\ p \in Level /\ side' = side /\ best \in Level
      /\ next_entry[p] \in Level /\ prev_entry[p] \in Level /\ Level \subseteq LevelPrice
      /\ next_entry[prev_entry[p]] = p /\ prev_entry[next_entry[p]] = p
      /\ DOMAIN prev_entry = Level
  BY DEF removeOrdersAtPrice, Quiet, RingInv, RingTypeOK, RingSorted
<1>2. CASE next_entry[p] = p
  <2>1. Level = {p}
    <3> SUFFICES ASSUME NEW q \in Level, q # p PROVE FALSE
      BY <1>1
    <3>1. p = best
      BY <1>1, <1>2, BetterIsOrder DEF RingInv, RingSorted, RingTypeOK
    <3>2. BetterLevel(p, q)
      BY <3>1 DEF RingInv, RingSorted
    <3> QED
      BY <1>1, <1>2, <3>1, <3>2 DEF RingInv, RingSorted
  <2>2. Level' = {} /\ next_entry' = [q \in {} |-> next_entry[q]]
        /\ prev_entry' = [q \in {} |-> prev_entry[q]] /\ best' = Nil
    BY <1>1, <1>2, <2>1, Zenon DEF removeOrdersAtPrice, Without, Level
  <2>3. RingTypeOK' /\ RingSorted' /\ SearchOnCourse'
    BY <1>1, <2>2 DEF RingInv, RingTypeOK, RingSorted, SearchOnCourse
  <2> QED
    BY <1>1, <2>1, <2>2, <2>3 DEF RingInv
<1>3. CASE next_entry[p] # p
  <2>1. /\ next_entry' = Without([next_entry EXCEPT ![prev_entry[p]] = next_entry[p]], p)
        /\ prev_entry' = Without([prev_entry EXCEPT ![next_entry[p]] = prev_entry[p]], p)
        /\ best' = IF p = best THEN next_entry[p] ELSE best
    BY <1>3 DEF removeOrdersAtPrice
  <2>2. /\ Level' = Level \ {p}
        /\ next_entry' \in [Level' -> Level'] /\ prev_entry' \in [Level' -> Level']
        /\ best' \in Level' /\ RingSorted'
    BY <1>1, <1>3, <2>1, UnlinkKeepsRing, Zenon DEF RingInv
  <2>3. RingTypeOK' /\ SearchOnCourse'
    BY <1>1, <2>2 DEF RingInv, RingTypeOK, SearchOnCourse
  <2> QED
    BY <1>1, <2>2, <2>3 DEF RingInv
<1> QED
  BY <1>2, <1>3

-----------------------------------------------------------------------------
(* The empty list is a sorted ring. *)
LEMMA InitRing == RingInit => RingInv
<1> SUFFICES ASSUME RingInit PROVE RingInv
  OBVIOUS
<1>1. Level = {} /\ DOMAIN prev_entry = {} /\ Quiet
  BY DEF RingInit, Level, Quiet
<1>2. next_entry \in [Level -> Level] /\ prev_entry \in [Level -> Level]
  BY <1>1 DEF RingInit
<1> QED
  BY <1>1, <1>2 DEF RingInit, RingInv, RingTypeOK, RingSorted, SearchOnCourse

(* Every step keeps the invariant. *)
LEMMA NextRing == RingInv /\ [RingNext]_ringVars => RingInv'
<1> SUFFICES ASSUME RingInv, [RingNext]_ringVars PROVE RingInv'
  OBVIOUS
<1>1. ASSUME NEW p \in LevelPrice, addFirst(p) PROVE RingInv'
  BY <1>1, AddFirstStep
<1>2. ASSUME NEW p \in LevelPrice, addOrdersAtPrice(p) PROVE RingInv'
  BY <1>2, StartStep
<1>3. ASSUME NEW p \in LevelPrice, removeOrdersAtPrice(p) PROVE RingInv'
  BY <1>3, RemoveStep
<1>4. CASE search
  BY <1>4, SearchStep
<1>5. CASE insertAfter
  BY <1>5, InsertAfterStep
<1>6. CASE insertBefore
  BY <1>6, InsertBeforeStep
<1>7. CASE UNCHANGED ringVars
  BY <1>7 DEF ringVars, RingInv, RingTypeOK, RingSorted, SearchOnCourse, Level, Quiet, BetterLevel
<1> QED
  BY <1>1, <1>2, <1>3, <1>4, <1>5, <1>6, <1>7 DEF RingNext

(* The invariant of the list of price levels. *)
THEOREM RingInvariant == RingSpec => []RingInv
<1>1. RingInit => RingInv
  BY InitRing
<1>2. RingInv /\ [RingNext]_ringVars => RingInv'
  BY NextRing
<1> QED
  BY <1>1, <1>2, PTL DEF RingSpec

(***************************************************************************)
(* addOrdersAtPrice and removeOrdersAtPrice keep the levels of a side in   *)
(* one sorted ring with the best level in front, for any set of prices.    *)
(***************************************************************************)
THEOREM RingIsSorted == RingSpec => []RingSorted
<1>1. RingInv => RingSorted
  BY DEF RingInv
<1> QED
  BY <1>1, RingInvariant, PTL

(***************************************************************************)
(* The pointer operations implement the abstract set of levels: what       *)
(* MEOrderBook assumes of bids_by_price_ and asks_by_price_.               *)
(***************************************************************************)
THEOREM RingImplementsLevels == RingSpec => ImplementsLevels
<1>1. RingInit => Levels!Init
  BY DEF RingInit, Levels!Init, Level, Nil, Levels!Nil
<1>2. ASSUME RingInv, RingInv', [RingNext]_ringVars
      PROVE  [Levels!Next]_(Levels!vars)
  <2>1. Level' # {} => Levels!IsBestOf(best', Level')
    <3>1. side' = side
      BY <1>2, Zenon DEF RingNext, addFirst, addOrdersAtPrice, removeOrdersAtPrice, search, insertAfter,
                  insertBefore, ringVars
    <3>2. Level' # {} => (best \in Level /\ \A q \in Level \ {best} : BetterLevel(best, q))'
      BY <1>2 DEF RingInv, RingTypeOK, RingSorted
    <3> QED
      BY <3>1, <3>2 DEF Levels!IsBestOf, Levels!Better, BetterLevel
  <2>2. ASSUME NEW p \in LevelPrice, addFirst(p)
        PROVE  Levels!Next
    <3>1. Level = {} /\ Level' = {p} /\ best' = p /\ side' = side
      BY <1>2, <2>2, AddFirstStep
    <3> QED
      BY <2>1, <3>1 DEF Levels!Next, Levels!Add
  <2>3. ASSUME NEW p \in LevelPrice, addOrdersAtPrice(p)
        PROVE  UNCHANGED Levels!vars
    BY <2>3 DEF addOrdersAtPrice, Levels!vars, Level
  <2>4. ASSUME NEW p \in LevelPrice, removeOrdersAtPrice(p)
        PROVE  Levels!Next
    <3>1. p \in Level /\ Level' = Level \ {p} /\ side' = side
      BY <1>2, <2>4, RemoveStep
    <3>2. Level' = {} => best' = Levels!Nil
      BY <1>2 DEF RingInv, RingTypeOK, Nil, Levels!Nil
    <3> QED
      BY <2>1, <3>1, <3>2 DEF Levels!Next, Levels!Remove
  <2>5. CASE search
    BY <2>5 DEF search, Levels!vars, Level
  <2>6. CASE insertAfter
    <3>1. side' = side /\ adding.new \in LevelPrice \ Level /\ Level' = Level \cup {adding.new}
      BY <1>2, <2>6, InsertAfterStep
    <3> QED
      BY <2>1, <3>1 DEF Levels!Next, Levels!Add
  <2>7. CASE insertBefore
    <3>1. side' = side /\ adding.new \in LevelPrice \ Level /\ Level' = Level \cup {adding.new}
      BY <1>2, <2>7, InsertBeforeStep
    <3> QED
      BY <2>1, <3>1 DEF Levels!Next, Levels!Add
  <2>8. CASE UNCHANGED ringVars
    BY <2>8 DEF ringVars, Levels!vars, Level
  <2> QED
    BY <1>2, <2>2, <2>3, <2>4, <2>5, <2>6, <2>7, <2>8 DEF RingNext
<1> QED
  BY <1>1, <1>2, RingInvariant, PTL DEF RingSpec, ImplementsLevels, Levels!Spec
=============================================================================
