------------------------- MODULE BookAndQueueProofs -------------------------
(***************************************************************************)
(* The exchange's order book, and the queue that takes its updates out.    *)
(* The two share no state; each has its own invariant.                     *)
(*                                                                         *)
(* Invariants of MEOrderBook hold for any number of clients, prices and    *)
(* orders, under the assumption NoCollision on the prices.                 *)
(*                                                                         *)
(* LFQueue is a first-in first-out queue for any size of the ring,         *)
(* although neither thread takes a lock and every update is two separate   *)
(* steps, up to the point where the producer overruns its reader; from     *)
(* there on exactly what FifoQueue allows is spoilt.                       *)
(*                                                                         *)
(* The publisher, which reads such a queue, forwards to the synthesizer    *)
(* what it sent, although it copies the update from a slot it has already  *)
(* given back, unless the ring is filled up in between.                    *)
(***************************************************************************)
EXTENDS MEOrderBook, MarketDataPublisher, TLAPS

\* The inductive invariant.
IInv ==
  /\ TypeOK
  /\ EntriesAgree
  /\ FifoIsTimeOrder
  /\ NotCrossed
  /\ AggressorIsNew

\* The part of TypeOK about the book's containers.
BookTypeOK ==
  /\ DOMAIN order \subseteq MarketOrderId
  /\ order \in [DOMAIN order -> MEOrder]
  /\ DOMAIN level \subseteq PriceIndex
  /\ level \in [DOMAIN level -> MEOrdersAtPrice]
  /\ cid_oid_to_order \in [ClientId \X OrderId -> MarketOrderId \cup {NoOrder}]

\* What add and remove operations on the containers must preserve.
BookInv == BookTypeOK /\ EntriesAgree /\ FifoIsTimeOrder /\ NotCrossed

-----------------------------------------------------------------------------
(* A slot index is a legal index of price_orders_at_price_. *)
LEMMA IndexInRange ==
  ASSUME NEW p \in Price
  PROVE  priceToIndex(p) \in PriceIndex
BY SizeAssumption DEF priceToIndex, PriceIndex

(* Unlinking the only occurrence of m keeps the other orders in sequence. *)
LEMMA UnlinkElements ==
  ASSUME NEW S, NEW s \in Seq(S), NEW k \in 1 .. Len(s),
         \A j \in 1 .. Len(s) : s[j] = s[k] => j = k
  PROVE  /\ Unlink(s, s[k]) \in Seq(S)
         /\ Len(Unlink(s, s[k])) = Len(s) - 1
         /\ \A j \in 1 .. Len(s) - 1 :
              Unlink(s, s[k])[j] = IF j < k THEN s[j] ELSE s[j + 1]
<1>1. (CHOOSE i \in DOMAIN s : s[i] = s[k]) = k
  OBVIOUS
<1>2. Unlink(s, s[k]) = [i \in 1 .. Len(s) - 1 |-> IF i < k THEN s[i] ELSE s[i + 1]]
  BY <1>1 DEF Unlink
<1>3. Len(s) - 1 \in Nat
  OBVIOUS
<1>4. \A i \in 1 .. Len(s) - 1 : (IF i < k THEN s[i] ELSE s[i + 1]) \in S
  OBVIOUS
<1> QED
  BY <1>2, <1>3, <1>4

(* A slot identifies its price. *)
LEMMA SlotOfLevel ==
  ASSUME NoCollision, BookTypeOK, EntriesAgree,
         NEW p \in Price, priceToIndex(p) \in DOMAIN level
  PROVE  level[priceToIndex(p)].price = p
<1>1. level[priceToIndex(p)].price \in Price
  BY DEF BookTypeOK, MEOrdersAtPrice
<1>2. priceToIndex(level[priceToIndex(p)].price) = priceToIndex(p)
  BY DEF EntriesAgree, LevelHoldsItsOrders
<1> QED
  BY <1>1, <1>2 DEF NoCollision

-----------------------------------------------------------------------------
(* removeOrder of a live order keeps the containers consistent. *)
LEMMA RemoveKeepsBook ==
  ASSUME NoCollision, BookInv, NEW m \in DOMAIN order, removeOrder(m)
  PROVE  BookInv' /\ DOMAIN order' = DOMAIN order \ {m}
<1> DEFINE i == priceToIndex(order[m].price)
           f == level[i].fifo
           key == <<order[m].client_id, order[m].client_order_id>>
<1>1. order[m] \in MEOrder /\ m \in MarketOrderId /\ key \in ClientId \X OrderId
  BY DEF BookInv, BookTypeOK, MEOrder
<1>2. /\ i \in DOMAIN level /\ level[i] \in MEOrdersAtPrice
      /\ f = level[i].fifo /\ f \in Seq(MarketOrderId)
      /\ LevelHoldsItsOrders(i)
  BY DEF BookInv, BookTypeOK, EntriesAgree, OrderIsInItsLevel, MEOrdersAtPrice
<1>3. PICK k \in 1 .. Len(f) : f[k] = m
  BY DEF BookInv, EntriesAgree, OrderIsInItsLevel
<1>4. \A a, b \in 1 .. Len(f) : a < b => /\ f[a] < f[b]
                                        /\ order[f[a]].priority < order[f[b]].priority
  BY <1>2 DEF BookInv, FifoIsTimeOrder
<1>5. \A j \in DOMAIN level \ {i} : \A a \in 1 .. Len(level[j].fifo) : level[j].fifo[a] # m
  BY <1>1, <1>2 DEF BookInv, EntriesAgree, LevelHoldsItsOrders
<1>6. \A n \in DOMAIN order : priceToIndex(order[n].price) = i => \E a \in 1 .. Len(f) : f[a] = n
  BY DEF BookInv, EntriesAgree, OrderIsInItsLevel
<1>7. /\ DOMAIN order' = DOMAIN order \ {m}
      /\ \A n \in DOMAIN order \ {m} : order'[n] = order[n]
      /\ order' = [n \in DOMAIN order \ {m} |-> order[n]]
  BY DEF removeOrder
<1>8. /\ cid_oid_to_order' \in [ClientId \X OrderId -> MarketOrderId \cup {NoOrder}]
      /\ cid_oid_to_order'[key] = NoOrder
      /\ \A co \in ClientId \X OrderId : co # key => cid_oid_to_order'[co] = cid_oid_to_order[co]
      /\ cid_oid_to_order[key] = m
  BY <1>1 DEF removeOrder, BookInv, BookTypeOK, EntriesAgree
<1>9. level' = IF Len(f) = 1 THEN [j \in DOMAIN level \ {i} |-> level[j]]
                             ELSE [level EXCEPT ![i].fifo = Unlink(f, m)]
  BY <1>2 DEF removeOrder
<1>10. key = <<order[m].client_id, order[m].client_order_id>>
  OBVIOUS
<1> HIDE DEF i, f, key
<1>11. \A a, b \in 1 .. Len(f) : f[a] = f[b] => a = b
  <2> SUFFICES ASSUME NEW a \in 1 .. Len(f), NEW b \in 1 .. Len(f), f[a] = f[b], a # b
               PROVE  FALSE
    OBVIOUS
  <2>1. f[a] \in Int /\ f[b] \in Int
    BY <1>2, SizeAssumption DEF MarketOrderId
  <2>2. a < b \/ b < a
    BY <1>2
  <2> QED
    BY <2>1, <2>2, <1>4
<1>12. /\ \A n \in DOMAIN order' :
            cid_oid_to_order'[<<order'[n].client_id, order'[n].client_order_id>>] = n
       /\ \A co \in ClientId \X OrderId : cid_oid_to_order'[co] # NoOrder =>
            /\ cid_oid_to_order'[co] \in DOMAIN order'
            /\ co = <<order'[cid_oid_to_order'[co]].client_id,
                      order'[cid_oid_to_order'[co]].client_order_id>>
  <2>1. ASSUME NEW n \in DOMAIN order'
        PROVE  cid_oid_to_order'[<<order'[n].client_id, order'[n].client_order_id>>] = n
    <3>1. n \in DOMAIN order \ {m} /\ order'[n] = order[n] /\ order[n] \in MEOrder
      BY <1>7 DEF BookInv, BookTypeOK
    <3>2. cid_oid_to_order[<<order[n].client_id, order[n].client_order_id>>] = n
      BY <3>1 DEF BookInv, EntriesAgree
    <3>3. <<order[n].client_id, order[n].client_order_id>> \in ClientId \X OrderId
      BY <3>1 DEF MEOrder
    <3> QED
      BY <3>1, <3>2, <3>3, <1>8
  <2>2. ASSUME NEW co \in ClientId \X OrderId, cid_oid_to_order'[co] # NoOrder
        PROVE  /\ cid_oid_to_order'[co] \in DOMAIN order'
               /\ co = <<order'[cid_oid_to_order'[co]].client_id,
                         order'[cid_oid_to_order'[co]].client_order_id>>
    <3>1. co # key /\ cid_oid_to_order'[co] = cid_oid_to_order[co]
      BY <2>2, <1>8
    <3>2. cid_oid_to_order[co] \in DOMAIN order
          /\ co = <<order[cid_oid_to_order[co]].client_id,
                    order[cid_oid_to_order[co]].client_order_id>>
      BY <2>2, <3>1 DEF BookInv, EntriesAgree
    <3> QED
      BY <3>1, <3>2, <1>7, <1>10
  <2> QED
    BY <2>1, <2>2
<1>13. CASE Len(f) = 1
  <2>1. /\ DOMAIN level' = DOMAIN level \ {i}
        /\ \A j \in DOMAIN level \ {i} : level'[j] = level[j]
        /\ level' = [j \in DOMAIN level \ {i} |-> level[j]]
    BY <1>9, <1>13
  <2>2. \A n \in DOMAIN order \ {m} : priceToIndex(order[n].price) # i
    BY <1>3, <1>6, <1>13
  <2>3. BookTypeOK'
    BY <2>1, <1>7, <1>8 DEF BookInv, BookTypeOK
  <2>4. ASSUME NEW j \in DOMAIN level'
        PROVE  LevelHoldsItsOrders(j)'
    BY <2>1, <1>5, <1>7 DEF BookInv, EntriesAgree, LevelHoldsItsOrders
  <2>5. ASSUME NEW n \in DOMAIN order'
        PROVE  OrderIsInItsLevel(n)'
    BY <2>1, <2>2, <1>7 DEF BookInv, EntriesAgree, OrderIsInItsLevel
  <2>6. EntriesAgree'
    BY <2>4, <2>5, <1>12 DEF EntriesAgree
  <2>7. FifoIsTimeOrder'
    <3> SUFFICES ASSUME NEW j \in DOMAIN level',
                        NEW a \in 1 .. Len(level'[j].fifo), NEW b \in 1 .. Len(level'[j].fifo), a < b
                 PROVE  /\ level'[j].fifo[a] < level'[j].fifo[b]
                        /\ order'[level'[j].fifo[a]].priority < order'[level'[j].fifo[b]].priority
      BY DEF FifoIsTimeOrder
    <3>1. level'[j].fifo[a] \in DOMAIN order \ {m} /\ level'[j].fifo[b] \in DOMAIN order \ {m}
      BY <2>4, <1>7, Zenon DEF LevelHoldsItsOrders
    <3> QED
      BY <3>1, <2>1, <1>7 DEF BookInv, FifoIsTimeOrder
  <2>8. NotCrossed'
    BY <2>1 DEF BookInv, NotCrossed, LevelsOf
  <2> QED
    BY <2>3, <2>6, <2>7, <2>8, <1>7 DEF BookInv
<1>14. CASE Len(f) # 1
  <2> DEFINE g == Unlink(f, m)
             \* Position a of the new ring is position Old(a) of the old one.
             Old(a) == IF a < k THEN a ELSE a + 1
  <2>1. /\ g \in Seq(MarketOrderId)
        /\ Len(g) = Len(f) - 1
        /\ \A a \in 1 .. Len(f) - 1 : g[a] = IF a < k THEN f[a] ELSE f[a + 1]
    BY <1>2, <1>3, <1>11, UnlinkElements, ZenonT(30)
  <2>2. /\ DOMAIN level' = DOMAIN level
        /\ level'[i] = [level[i] EXCEPT !.fifo = g]
        /\ \A j \in DOMAIN level \ {i} : level'[j] = level[j]
        /\ level' = [level EXCEPT ![i].fifo = g]
    BY <1>2, <1>9, <1>14
  <2> HIDE DEF g
  <2>3. /\ level'[i].side = level[i].side /\ level'[i].price = level[i].price
        /\ level'[i].fifo = g /\ level'[i] \in MEOrdersAtPrice
    BY <1>2, <2>1, <2>2, Zenon DEF MEOrdersAtPrice
  <2>4. \A a \in 1 .. Len(g) : Old(a) \in 1 .. Len(f) /\ Old(a) # k /\ g[a] = f[Old(a)]
    BY <2>1, <1>2
  <2>5. ASSUME NEW b \in 1 .. Len(f), b # k
        PROVE  \E a \in 1 .. Len(g) : g[a] = f[b]
    <3>1. CASE b < k
      BY <3>1, <2>1, <1>2
    <3>2. CASE b > k
      <4>1. b - 1 \in 1 .. Len(g) /\ g[b - 1] = f[b]
        BY <3>2, <2>1, <1>2
      <4> QED BY <4>1
    <3> QED
      BY <3>1, <3>2, <2>5, <1>2
  <2>6. BookTypeOK'
    BY <2>2, <2>3, <1>7, <1>8, Zenon DEF BookInv, BookTypeOK
  <2>7. ASSUME NEW j \in DOMAIN level'
        PROVE  LevelHoldsItsOrders(j)'
    <3>1. CASE j # i
      BY <3>1, <2>2, <1>5, <1>7 DEF BookInv, EntriesAgree, LevelHoldsItsOrders
    <3>2. CASE j = i
      <4>3. i = priceToIndex(level'[i].price)
        BY <2>3, <1>2 DEF LevelHoldsItsOrders
      <4>1. Len(level'[i].fifo) > 0
        <5>1. Len(f) \in Nat /\ Len(f) > 0
          BY <1>2 DEF LevelHoldsItsOrders
        <5> QED
          BY <5>1, <2>1, <2>3, <1>14
      <4>2. \A a \in 1 .. Len(g) : /\ g[a] \in DOMAIN order \ {m}
                                  /\ order[g[a]].price = level[i].price
                                  /\ order[g[a]].side = level[i].side
        BY <2>4, <1>2, <1>3, <1>11 DEF LevelHoldsItsOrders
      <4> QED
        BY <4>3, <4>1, <4>2, <3>2, <2>3, <1>7 DEF LevelHoldsItsOrders
    <3> QED
      BY <3>1, <3>2
  <2>8. ASSUME NEW n \in DOMAIN order'
        PROVE  OrderIsInItsLevel(n)'
    <3>1. n \in DOMAIN order \ {m} /\ order'[n] = order[n] /\ OrderIsInItsLevel(n)
      BY <1>7 DEF BookInv, EntriesAgree
    <3>2. CASE priceToIndex(order[n].price) # i
      BY <3>1, <3>2, <2>2 DEF OrderIsInItsLevel
    <3>3. CASE priceToIndex(order[n].price) = i
      <4>1. \E a \in 1 .. Len(g) : g[a] = n
        BY <3>1, <3>3, <1>3, <1>6, <2>5
      <4> QED
        BY <4>1, <3>1, <3>3, <2>2, <2>3 DEF OrderIsInItsLevel
    <3> QED
      BY <3>2, <3>3
  <2>9. EntriesAgree'
    BY <2>7, <2>8, <1>12 DEF EntriesAgree
  <2>10. FifoIsTimeOrder'
    <3> SUFFICES ASSUME NEW j \in DOMAIN level',
                        NEW a \in 1 .. Len(level'[j].fifo), NEW b \in 1 .. Len(level'[j].fifo), a < b
                 PROVE  /\ level'[j].fifo[a] < level'[j].fifo[b]
                        /\ order'[level'[j].fifo[a]].priority < order'[level'[j].fifo[b]].priority
      BY DEF FifoIsTimeOrder
    <3>1. level'[j].fifo[a] \in DOMAIN order \ {m} /\ level'[j].fifo[b] \in DOMAIN order \ {m}
      BY <2>7, <1>7, Zenon DEF LevelHoldsItsOrders
    <3>2. CASE j # i
      BY <3>1, <3>2, <2>2, <1>7 DEF BookInv, FifoIsTimeOrder
    <3>3. CASE j = i
      <4>1. Old(a) < Old(b) /\ Old(a) \in 1 .. Len(f) /\ Old(b) \in 1 .. Len(f)
            /\ g[a] = f[Old(a)] /\ g[b] = f[Old(b)]
        BY <3>3, <2>3, <2>4, <2>1, <1>2
      <4> QED
        BY <4>1, <1>4, <3>1, <3>3, <2>3, <1>7
    <3> QED
      BY <3>2, <3>3
  <2>11. NotCrossed'
    BY <2>2, <2>3 DEF BookInv, NotCrossed, LevelsOf
  <2> QED
    BY <2>6, <2>9, <2>10, <2>11, <1>7 DEF BookInv
<1> QED
  BY <1>13, <1>14

(* The level an order joins is a level of the order's side and price. *)
LEMMA JoinedLevel ==
  ASSUME NoCollision, BookInv, NEW o \in MEOrder,
         \A j \in LevelsOf(Opposite(o.side)) : ~Crosses(o.side, o.price, level[j].price),
         priceToIndex(o.price) \in DOMAIN level
  PROVE  /\ level[priceToIndex(o.price)].price = o.price
         /\ level[priceToIndex(o.price)].side = o.side
<1> DEFINE i == priceToIndex(o.price)
<1>1. o.price \in Price /\ o.price \in Nat /\ o.side \in Side
  BY SizeAssumption, Zenon DEF MEOrder
<1>2. level[i].price = o.price
  BY <1>1, SlotOfLevel DEF BookInv
<1>3. level[i].side \in Side
  BY DEF BookInv, BookTypeOK, MEOrdersAtPrice
<1>4. level[i].side # Opposite(o.side)
  BY <1>1, <1>2 DEF LevelsOf, Crosses
<1> HIDE DEF i
<1>5. level[i].side = o.side
  BY <1>1, <1>3, <1>4 DEF Side, Opposite
<1> QED
  BY <1>2, <1>5 DEF i

(* addOrder of the newest order, once nothing crosses it, keeps the containers consistent. *)
LEMMA AddKeepsBook ==
  ASSUME NoCollision, BookInv, NEW m \in MarketOrderId, NEW o \in MEOrder,
         o.qty > 0, o.priority = getNextPriority(o.price),
         \A n \in DOMAIN order : n < m,
         cid_oid_to_order[<<o.client_id, o.client_order_id>>] = NoOrder,
         \A j \in LevelsOf(Opposite(o.side)) : ~Crosses(o.side, o.price, level[j].price),
         addOrder(m, o)
  PROVE  BookInv' /\ DOMAIN order' = DOMAIN order \cup {m}
<1> DEFINE i == priceToIndex(o.price)
           key == <<o.client_id, o.client_order_id>>
<1>1. /\ key \in ClientId \X OrderId /\ o.price \in Price /\ o.price \in Nat /\ o.side \in Side
      /\ m \in Int /\ m \notin DOMAIN order /\ m # NoOrder
      /\ i \in PriceIndex /\ i = priceToIndex(o.price)
  <2>1. key \in ClientId \X OrderId /\ o.price \in Price /\ o.price \in Nat /\ o.side \in Side
    BY SizeAssumption, Zenon DEF MEOrder
  <2>2. m \in Int /\ m # NoOrder
    BY SizeAssumption DEF MarketOrderId, NoOrder
  <2>3. m \notin DOMAIN order
    BY <2>2
  <2> QED
    BY <2>1, <2>2, <2>3, IndexInRange
<1>2. i \in DOMAIN level => level[i].price = o.price /\ level[i].side = o.side
  BY JoinedLevel
<1>3. /\ DOMAIN order' = DOMAIN order \cup {m}
      /\ order'[m] = o
      /\ \A n \in DOMAIN order : order'[n] = order[n]
      /\ order' = [n \in DOMAIN order \cup {m} |-> IF n = m THEN o ELSE order[n]]
  BY <1>1 DEF addOrder
<1>4. /\ cid_oid_to_order' \in [ClientId \X OrderId -> MarketOrderId \cup {NoOrder}]
      /\ cid_oid_to_order'[key] = m
      /\ \A co \in ClientId \X OrderId : co # key => cid_oid_to_order'[co] = cid_oid_to_order[co]
      /\ cid_oid_to_order[key] = NoOrder
  BY <1>1 DEF addOrder, BookInv, BookTypeOK
<1>5. level' = IF i \in DOMAIN level
               THEN [level EXCEPT ![i].fifo = Append(level[i].fifo, m)]
               ELSE [j \in DOMAIN level \cup {i} |->
                       IF j = i THEN [side |-> o.side, price |-> o.price, fifo |-> <<m>>]
                                ELSE level[j]]
  BY DEF addOrder
<1>6. key = <<o.client_id, o.client_order_id>>
  OBVIOUS
<1>7. getNextPriority(o.price) =
        IF i \in DOMAIN level THEN order[level[i].fifo[Len(level[i].fifo)]].priority + 1 ELSE 1
  BY DEF getNextPriority
<1> HIDE DEF i, key
<1>8. /\ \A n \in DOMAIN order' :
           cid_oid_to_order'[<<order'[n].client_id, order'[n].client_order_id>>] = n
      /\ \A co \in ClientId \X OrderId : cid_oid_to_order'[co] # NoOrder =>
           /\ cid_oid_to_order'[co] \in DOMAIN order'
           /\ co = <<order'[cid_oid_to_order'[co]].client_id,
                     order'[cid_oid_to_order'[co]].client_order_id>>
  <2>1. ASSUME NEW n \in DOMAIN order
        PROVE  cid_oid_to_order'[<<order'[n].client_id, order'[n].client_order_id>>] = n
    <3>1. order'[n] = order[n] /\ order[n] \in MEOrder /\ n # NoOrder
      BY <1>3, SizeAssumption DEF BookInv, BookTypeOK, MarketOrderId, NoOrder
    <3>2. cid_oid_to_order[<<order[n].client_id, order[n].client_order_id>>] = n
      BY <3>1 DEF BookInv, EntriesAgree
    <3>3. <<order[n].client_id, order[n].client_order_id>> \in ClientId \X OrderId
      BY <3>1 DEF MEOrder
    <3> QED
      BY <3>1, <3>2, <3>3, <1>4
  <2>2. ASSUME NEW co \in ClientId \X OrderId, cid_oid_to_order'[co] # NoOrder, co # key
        PROVE  /\ cid_oid_to_order'[co] \in DOMAIN order'
               /\ co = <<order'[cid_oid_to_order'[co]].client_id,
                         order'[cid_oid_to_order'[co]].client_order_id>>
    <3>1. cid_oid_to_order'[co] = cid_oid_to_order[co]
      BY <2>2, <1>4
    <3>2. cid_oid_to_order[co] \in DOMAIN order
          /\ co = <<order[cid_oid_to_order[co]].client_id,
                    order[cid_oid_to_order[co]].client_order_id>>
      BY <2>2, <3>1 DEF BookInv, EntriesAgree
    <3> QED
      BY <3>1, <3>2, <1>3
  <2> QED
    BY <2>1, <2>2, <1>1, <1>3, <1>4, <1>6, Zenon
<1>9. CASE i \in DOMAIN level
  <2> DEFINE f == level[i].fifo
             g == Append(f, m)
  <2>1. /\ level[i] \in MEOrdersAtPrice /\ f = level[i].fifo /\ f \in Seq(MarketOrderId)
        /\ LevelHoldsItsOrders(i) /\ Len(f) \in Nat /\ Len(f) > 0
    <3>1. level[i] \in MEOrdersAtPrice /\ f \in Seq(MarketOrderId)
      BY <1>9 DEF BookInv, BookTypeOK, MEOrdersAtPrice
    <3>2. LevelHoldsItsOrders(i)
      BY <1>9 DEF BookInv, EntriesAgree
    <3> QED
      BY <3>1, <3>2 DEF LevelHoldsItsOrders
  <2>2. /\ g \in Seq(MarketOrderId) /\ Len(g) = Len(f) + 1
        /\ \A a \in 1 .. Len(f) : g[a] = f[a]
        /\ g[Len(f) + 1] = m
    BY <2>1
  <2>3. /\ DOMAIN level' = DOMAIN level
        /\ level'[i] = [level[i] EXCEPT !.fifo = g]
        /\ \A j \in DOMAIN level \ {i} : level'[j] = level[j]
        /\ level' = [level EXCEPT ![i].fifo = g]
    BY <1>5, <1>9, <2>1
  <2>4. o.priority = order[f[Len(f)]].priority + 1
    BY <1>7, <1>9
  <2> HIDE DEF f, g
  <2>5. /\ level'[i].side = level[i].side /\ level'[i].price = level[i].price
        /\ level'[i].fifo = g /\ level'[i] \in MEOrdersAtPrice
    BY <2>1, <2>2, <2>3 DEF MEOrdersAtPrice
  <2>6. BookTypeOK'
    <3>1. DOMAIN order' \subseteq MarketOrderId /\ order' \in [DOMAIN order' -> MEOrder]
      BY <1>3 DEF BookInv, BookTypeOK
    <3>2. \A j \in DOMAIN level' : level'[j] \in MEOrdersAtPrice
      BY <2>3, <2>5 DEF BookInv, BookTypeOK
    <3>3. DOMAIN level' \subseteq PriceIndex /\ level' \in [DOMAIN level' -> MEOrdersAtPrice]
      BY <2>3, <3>2, Zenon DEF BookInv, BookTypeOK
    <3> QED
      BY <3>1, <3>3, <1>4 DEF BookTypeOK
  <2>7. \A a \in 1 .. Len(f) : /\ f[a] \in DOMAIN order
                               /\ order[f[a]].price = level[i].price
                               /\ order[f[a]].side = level[i].side
    BY <2>1 DEF LevelHoldsItsOrders
  <2>8. ASSUME NEW j \in DOMAIN level'
        PROVE  LevelHoldsItsOrders(j)'
    <3>1. CASE j # i
      BY <3>1, <2>3, <1>3 DEF BookInv, EntriesAgree, LevelHoldsItsOrders
    <3>2. CASE j = i
      <4>1. i = priceToIndex(level'[i].price)
        BY <2>5, <2>1 DEF LevelHoldsItsOrders
      <4>2. Len(level'[i].fifo) > 0
        BY <2>1, <2>2, <2>5
      <4>3. \A a \in 1 .. Len(g) : /\ g[a] \in DOMAIN order'
                                  /\ order'[g[a]].price = level[i].price
                                  /\ order'[g[a]].side = level[i].side
        <5> SUFFICES ASSUME NEW a \in 1 .. Len(g)
                     PROVE  /\ g[a] \in DOMAIN order'
                            /\ order'[g[a]].price = level[i].price
                            /\ order'[g[a]].side = level[i].side
          OBVIOUS
        <5>1. CASE a \in 1 .. Len(f)
          BY <5>1, <2>2, <2>7, <1>3
        <5>2. CASE a = Len(f) + 1
          BY <5>2, <2>2, <1>2, <1>3, <1>9
        <5> QED
          BY <5>1, <5>2, <2>1, <2>2
      <4> QED
        BY <4>1, <4>2, <4>3, <3>2, <2>5 DEF LevelHoldsItsOrders
    <3> QED
      BY <3>1, <3>2
  <2>9. ASSUME NEW n \in DOMAIN order'
        PROVE  OrderIsInItsLevel(n)'
    <3>1. CASE n = m
      <4>1. Len(f) + 1 \in 1 .. Len(g) /\ g[Len(f) + 1] = m
        BY <2>1, <2>2
      <4> QED
        BY <4>1, <3>1, <2>3, <2>5, <1>1, <1>3, <1>9, Zenon DEF OrderIsInItsLevel
    <3>2. CASE n # m /\ priceToIndex(order[n].price) # i
      BY <3>2, <2>3, <1>3 DEF BookInv, EntriesAgree, OrderIsInItsLevel
    <3>3. CASE n # m /\ priceToIndex(order[n].price) = i
      <4>1. n \in DOMAIN order /\ order'[n] = order[n] /\ order[n].qty > 0
        BY <3>3, <1>3 DEF BookInv, EntriesAgree, OrderIsInItsLevel
      <4>2. PICK a \in 1 .. Len(f) : f[a] = n
        BY <4>1, <3>3, <2>1 DEF BookInv, EntriesAgree, OrderIsInItsLevel
      <4>3. a \in 1 .. Len(g) /\ g[a] = n
        BY <4>2, <2>1, <2>2
      <4> QED
        BY <4>1, <4>3, <3>3, <2>3, <2>5, <1>9 DEF OrderIsInItsLevel
    <3> QED
      BY <3>1, <3>2, <3>3
  <2>10. EntriesAgree'
    BY <2>8, <2>9, <1>8 DEF EntriesAgree
  <2>11. FifoIsTimeOrder'
    <3> SUFFICES ASSUME NEW j \in DOMAIN level',
                        NEW a \in 1 .. Len(level'[j].fifo), NEW b \in 1 .. Len(level'[j].fifo), a < b
                 PROVE  /\ level'[j].fifo[a] < level'[j].fifo[b]
                        /\ order'[level'[j].fifo[a]].priority < order'[level'[j].fifo[b]].priority
      BY DEF FifoIsTimeOrder
    <3>1. CASE j # i
      <4>1. level[j].fifo[a] \in DOMAIN order /\ level[j].fifo[b] \in DOMAIN order
        BY <3>1, <2>3 DEF BookInv, EntriesAgree, LevelHoldsItsOrders
      <4> QED
        BY <4>1, <3>1, <2>3, <1>3 DEF BookInv, FifoIsTimeOrder
    <3>2. CASE j = i /\ b \in 1 .. Len(f)
      <4>1. /\ a \in 1 .. Len(f) /\ f[a] \in DOMAIN order /\ f[b] \in DOMAIN order
            /\ level'[j].fifo[a] = f[a] /\ level'[j].fifo[b] = f[b]
        BY <3>2, <2>1, <2>2, <2>5, <2>7
      <4> QED
        BY <4>1, <3>2, <2>1, <1>3, <1>9 DEF BookInv, FifoIsTimeOrder
    <3>3. CASE j = i /\ b = Len(f) + 1
      <4>1. /\ a \in 1 .. Len(f) /\ f[a] \in DOMAIN order
            /\ level'[j].fifo[a] = f[a] /\ level'[j].fifo[b] = m
        BY <3>3, <2>1, <2>2, <2>5, <2>7
      <4>2. f[Len(f)] \in DOMAIN order /\ Len(f) \in 1 .. Len(f)
        BY <2>1, <2>7
      <4>3. order[f[a]].priority \in Nat /\ order[f[Len(f)]].priority \in Nat
        BY <4>1, <4>2 DEF BookInv, BookTypeOK, MEOrder
      <4>4. order[f[a]].priority <= order[f[Len(f)]].priority
        <5>1. CASE a = Len(f)
          BY <5>1, <4>3
        <5>2. CASE a < Len(f)
          <6>1. order[f[a]].priority < order[f[Len(f)]].priority
            BY <5>2, <4>1, <4>2, <2>1, <1>9 DEF BookInv, FifoIsTimeOrder
          <6> QED
            BY <4>3, <6>1
        <5> QED
          BY <5>1, <5>2, <4>1, <2>1
      <4> QED
        BY <4>1, <4>3, <4>4, <2>4, <1>1, <1>3
    <3> QED
      BY <3>1, <3>2, <3>3, <2>1, <2>2, <2>5
  <2>12. NotCrossed'
    BY <2>3, <2>5 DEF BookInv, NotCrossed, LevelsOf
  <2> QED
    BY <2>6, <2>10, <2>11, <2>12, <1>3 DEF BookInv
<1>10. CASE i \notin DOMAIN level
  <2>1. /\ DOMAIN level' = DOMAIN level \cup {i}
        /\ level'[i] = [side |-> o.side, price |-> o.price, fifo |-> <<m>>]
        /\ \A j \in DOMAIN level : j # i /\ level'[j] = level[j]
        /\ level' = [j \in DOMAIN level \cup {i} |->
                       IF j = i THEN [side |-> o.side, price |-> o.price, fifo |-> <<m>>]
                                ELSE level[j]]
    BY <1>5, <1>10
  <2>2. /\ level'[i].side = o.side /\ level'[i].price = o.price
        /\ level'[i].fifo = <<m>> /\ level'[i] \in MEOrdersAtPrice
    BY <2>1, <1>1 DEF MEOrdersAtPrice
  <2>3. BookTypeOK'
    BY <2>1, <2>2, <1>1, <1>3, <1>4 DEF BookInv, BookTypeOK
  <2>4. ASSUME NEW j \in DOMAIN level'
        PROVE  LevelHoldsItsOrders(j)'
    <3>1. CASE j # i
      BY <3>1, <2>1, <1>3 DEF BookInv, EntriesAgree, LevelHoldsItsOrders
    <3>2. CASE j = i
      BY <3>2, <2>2, <1>1, <1>3 DEF LevelHoldsItsOrders
    <3> QED
      BY <3>1, <3>2
  <2>5. ASSUME NEW n \in DOMAIN order'
        PROVE  OrderIsInItsLevel(n)'
    <3>1. CASE n = m
      <4>1. 1 \in 1 .. Len(<<m>>) /\ <<m>>[1] = m
        OBVIOUS
      <4> QED
        BY <4>1, <3>1, <2>1, <2>2, <1>1, <1>3, Zenon DEF OrderIsInItsLevel
    <3>2. CASE n # m
      <4>1. n \in DOMAIN order /\ order'[n] = order[n]
        BY <3>2, <1>3
      <4>2. OrderIsInItsLevel(n)
        BY <4>1 DEF BookInv, EntriesAgree
      <4>3. level'[priceToIndex(order[n].price)] = level[priceToIndex(order[n].price)]
        BY <2>1, <4>2 DEF OrderIsInItsLevel
      <4> QED
        BY <2>1, <4>1, <4>2, <4>3, Zenon DEF OrderIsInItsLevel
    <3> QED
      BY <3>1, <3>2
  <2>6. EntriesAgree'
    BY <2>4, <2>5, <1>8 DEF EntriesAgree
  <2>7. FifoIsTimeOrder'
    <3> SUFFICES ASSUME NEW j \in DOMAIN level',
                        NEW a \in 1 .. Len(level'[j].fifo), NEW b \in 1 .. Len(level'[j].fifo), a < b
                 PROVE  /\ level'[j].fifo[a] < level'[j].fifo[b]
                        /\ order'[level'[j].fifo[a]].priority < order'[level'[j].fifo[b]].priority
      BY DEF FifoIsTimeOrder
    <3>1. j # i
      <4>1. ASSUME j = i
            PROVE  FALSE
        <5>1. Len(level'[j].fifo) = 1
          BY <4>1, <2>2
        <5> QED
          BY <5>1
      <4> QED
        BY <4>1
    <3>2. level[j].fifo[a] \in DOMAIN order /\ level[j].fifo[b] \in DOMAIN order
      BY <3>1, <2>1 DEF BookInv, EntriesAgree, LevelHoldsItsOrders
    <3> QED
      BY <3>1, <3>2, <2>1, <1>3 DEF BookInv, FifoIsTimeOrder
  <2>8. NotCrossed'
    <3> SUFFICES ASSUME NEW x \in DOMAIN level', NEW y \in DOMAIN level',
                        level'[x].side = "BUY", level'[y].side = "SELL"
                 PROVE  level'[x].price < level'[y].price
      BY DEF NotCrossed, LevelsOf
    <3>1. CASE x # i /\ y # i
      BY <3>1, <2>1 DEF BookInv, NotCrossed, LevelsOf
    <3>2. CASE x = i /\ y # i
      <4>1. y \in DOMAIN level /\ level[y].side = "SELL" /\ level'[y] = level[y] /\ o.side = "BUY"
            /\ level[y].price \in Nat
        BY <3>2, <2>1, <2>2, SizeAssumption DEF BookInv, BookTypeOK, MEOrdersAtPrice
      <4> QED
        BY <4>1, <3>2, <2>2, <1>1 DEF LevelsOf, Opposite, Crosses
    <3>3. CASE x # i /\ y = i
      <4>1. x \in DOMAIN level /\ level[x].side = "BUY" /\ level'[x] = level[x] /\ o.side = "SELL"
            /\ level[x].price \in Nat
        BY <3>3, <2>1, <2>2, SizeAssumption DEF BookInv, BookTypeOK, MEOrdersAtPrice
      <4> QED
        BY <4>1, <3>3, <2>2, <1>1 DEF LevelsOf, Opposite, Crosses
    <3> QED
      BY <3>1, <3>2, <3>3
  <2> QED
    BY <2>3, <2>6, <2>7, <2>8, <1>3 DEF BookInv
<1> QED
  BY <1>9, <1>10

(* A partial fill of a passive order keeps the containers consistent. *)
LEMMA ReduceKeepsBook ==
  ASSUME BookInv, NEW m \in DOMAIN order, NEW q \in Nat, q > 0,
         order' = [order EXCEPT ![m].qty = q], UNCHANGED <<level, cid_oid_to_order>>
  PROVE  BookInv' /\ DOMAIN order' = DOMAIN order
<1>1. /\ DOMAIN order' = DOMAIN order
      /\ \A n \in DOMAIN order \ {m} : order'[n] = order[n]
      /\ order'[m] = [order[m] EXCEPT !.qty = q]
  OBVIOUS
<1>2. order[m] \in MEOrder
  BY DEF BookInv, BookTypeOK
<1>3. \A n \in DOMAIN order : order'[n] \in MEOrder
  BY <1>1, <1>2 DEF BookInv, BookTypeOK, MEOrder
<1>4. \A n \in DOMAIN order :
        /\ order'[n].client_id = order[n].client_id
        /\ order'[n].client_order_id = order[n].client_order_id
        /\ order'[n].side = order[n].side /\ order'[n].price = order[n].price
        /\ order'[n].priority = order[n].priority
  BY <1>1, <1>2 DEF MEOrder
<1>5. \A n \in DOMAIN order : order'[n].qty > 0
  BY <1>1, <1>2 DEF MEOrder, BookInv, EntriesAgree, OrderIsInItsLevel
<1>6. BookTypeOK'
  BY <1>1, <1>3 DEF BookInv, BookTypeOK
<1>7. \A j \in DOMAIN level' : LevelHoldsItsOrders(j)'
  BY <1>1, <1>4 DEF BookInv, EntriesAgree, LevelHoldsItsOrders
<1>8. \A n \in DOMAIN order' : OrderIsInItsLevel(n)'
  BY <1>1, <1>4, <1>5 DEF BookInv, EntriesAgree, OrderIsInItsLevel
<1>9. EntriesAgree'
  BY <1>1, <1>4, <1>7, <1>8 DEF BookInv, EntriesAgree
<1>10. FifoIsTimeOrder'
  <2>1. \A j \in DOMAIN level : \A a \in 1 .. Len(level[j].fifo) : level[j].fifo[a] \in DOMAIN order
    BY DEF BookInv, EntriesAgree, LevelHoldsItsOrders
  <2> QED
    BY <2>1, <1>4 DEF BookInv, FifoIsTimeOrder
<1>11. NotCrossed'
  BY DEF BookInv, NotCrossed, LevelsOf
<1> QED
  BY <1>1, <1>6, <1>9, <1>10, <1>11 DEF BookInv

(* When matching ends with quantity left, no level of the other side crosses. *)
LEMMA NothingCrosses ==
  ASSUME IInv, ~Idle, MatchingDone, aggressor.leaves_qty > 0
  PROVE  \A j \in LevelsOf(Opposite(aggressor.side)) :
           ~Crosses(aggressor.side, aggressor.price, level[j].price)
<1> DEFINE S == LevelsOf(Opposite(aggressor.side))
<1>1. aggressor \in Aggressor
  BY DEF IInv, TypeOK
<1>2. aggressor.side \in Side /\ aggressor.price \in Nat /\ aggressor.leaves_qty \in Nat
  BY <1>1, SizeAssumption, Zenon DEF Aggressor
<1>3. CASE S = {}
  BY <1>3
<1>4. CASE S # {}
  <2>1. PICK i \in S : /\ IsBest(Opposite(aggressor.side), i)
                       /\ ~Crosses(aggressor.side, aggressor.price, order[level[i].fifo[1]].price)
    BY <1>2, <1>4 DEF MatchingDone
  <2>2. order[level[i].fifo[1]].price = level[i].price
    <3>1. LevelHoldsItsOrders(i) /\ level[i] \in MEOrdersAtPrice
      BY <2>1 DEF IInv, EntriesAgree, LevelsOf, TypeOK
    <3>2. 1 \in 1 .. Len(level[i].fifo)
      BY <3>1 DEF LevelHoldsItsOrders, MEOrdersAtPrice
    <3> QED
      BY <3>1, <3>2 DEF LevelHoldsItsOrders
  <2>3. \A j \in S : level[j].price \in Nat
    BY SizeAssumption DEF IInv, TypeOK, LevelsOf, MEOrdersAtPrice
  <2>4. ASSUME NEW j \in S
        PROVE  ~Crosses(aggressor.side, aggressor.price, level[j].price)
    <3>1. j = i \/ Better(Opposite(aggressor.side), level[i].price, level[j].price)
      BY <2>1 DEF IsBest
    <3>2. ~Crosses(aggressor.side, aggressor.price, level[i].price)
      BY <2>1, <2>2
    <3> HIDE DEF S
    <3>3. CASE aggressor.side = "BUY"
      BY <3>1, <3>2, <3>3, <2>3, <1>2 DEF Crosses, Better, Opposite
    <3>4. CASE aggressor.side = "SELL"
      BY <3>1, <3>2, <3>4, <2>3, <1>2 DEF Crosses, Better, Opposite
    <3> QED
      BY <3>3, <3>4, <1>2 DEF Side
  <2> QED
    BY <2>4
<1> QED
  BY <1>3, <1>4

(* IInv and BookInv say the same of the containers. *)
LEMMA BookOfIInv == IInv => BookInv
BY DEF IInv, BookInv, TypeOK, BookTypeOK

-----------------------------------------------------------------------------
(* One lemma per action. *)

(* A step that leaves the orders, the levels and the entries alone keeps what relates them. *)
LEMMA SameBook ==
  ASSUME IInv, UNCHANGED <<order, level, cid_oid_to_order>>
  PROVE  EntriesAgree' /\ FifoIsTimeOrder' /\ NotCrossed'
<1>1. EntriesAgree /\ FifoIsTimeOrder /\ NotCrossed /\ order' = order /\ level' = level
      /\ cid_oid_to_order' = cid_oid_to_order
  BY DEF IInv
<1>2. EntriesAgree'
  <2>1. /\ \A i \in DOMAIN level : LevelHoldsItsOrders(i)' <=> LevelHoldsItsOrders(i)
        /\ \A m \in DOMAIN order : OrderIsInItsLevel(m)' <=> OrderIsInItsLevel(m)
    BY <1>1 DEF LevelHoldsItsOrders, OrderIsInItsLevel
  <2> QED
    BY <1>1, <2>1 DEF EntriesAgree
<1>3. FifoIsTimeOrder'
  BY <1>1, Zenon DEF FifoIsTimeOrder
<1>4. NotCrossed'
  BY <1>1, Zenon DEF NotCrossed, LevelsOf
<1> QED
  BY <1>2, <1>3, <1>4

(* A NEW request gives the aggressor an id no live order has. *)
LEMMA AddStep ==
  ASSUME IInv, NEW c \in ClientId, NEW o \in OrderId, NEW s \in Side, NEW p \in Price,
         NEW q \in Qty, add(c, o, s, p, q)
  PROVE  IInv'
<1>1. next_market_order_id \in MarketOrderId /\ next_market_order_id' \in 1 .. MaxOrders + 1
  BY SizeAssumption DEF IInv, TypeOK, add, MarketOrderId
<1>2. aggressor' \in Aggressor
  BY <1>1, SizeAssumption DEF add, Aggressor
<1>3. TypeOK'
  BY <1>1, <1>2 DEF IInv, TypeOK, add
<1>4. EntriesAgree' /\ FifoIsTimeOrder' /\ NotCrossed'
  <2>1. UNCHANGED <<order, level, cid_oid_to_order>>
    BY DEF add
  <2> QED
    BY <2>1, SameBook
<1>5. AggressorIsNew'
  <2>1. \A m \in DOMAIN order : m \in Nat /\ m < next_market_order_id
    BY SizeAssumption DEF IInv, TypeOK, AggressorIsNew, MarketOrderId
  <2>2. next_market_order_id \notin DOMAIN order
    BY <2>1, <1>1, SizeAssumption DEF MarketOrderId
  <2>3. \A m \in DOMAIN order : m < next_market_order_id + 1
    BY <2>1, <1>1, SizeAssumption DEF MarketOrderId
  <2> QED
    BY <2>2, <2>3, Zenon DEF add, AggressorIsNew
<1> QED
  BY <1>3, <1>4, <1>5 DEF IInv

(* The passive order an iteration of checkForMatch trades against. *)
LEMMA HeadOfLevel ==
  ASSUME IInv, NEW i \in DOMAIN level
  PROVE  /\ level[i].fifo[1] \in DOMAIN order
         /\ order[level[i].fifo[1]] \in MEOrder
         /\ order[level[i].fifo[1]].qty \in Nat /\ order[level[i].fifo[1]].qty > 0
         /\ order[level[i].fifo[1]].side = level[i].side
         /\ order[level[i].fifo[1]].price = level[i].price
<1>1. LevelHoldsItsOrders(i) /\ level[i] \in MEOrdersAtPrice
  BY DEF IInv, EntriesAgree, TypeOK
<1>2. 1 \in 1 .. Len(level[i].fifo)
  BY <1>1 DEF LevelHoldsItsOrders, MEOrdersAtPrice
<1>3. /\ level[i].fifo[1] \in DOMAIN order
      /\ order[level[i].fifo[1]].side = level[i].side
      /\ order[level[i].fifo[1]].price = level[i].price
  BY <1>1, <1>2 DEF LevelHoldsItsOrders
<1>4. order[level[i].fifo[1]] \in MEOrder
  BY <1>3 DEF IInv, TypeOK
<1>5. order[level[i].fifo[1]].qty > 0
  BY <1>3 DEF IInv, EntriesAgree, OrderIsInItsLevel
<1> QED
  BY <1>3, <1>4, <1>5, Zenon DEF MEOrder

(* What a fill leaves of the two orders. *)
LEMMA FillLeaves ==
  ASSUME NEW a \in Nat, NEW b \in Nat, a > 0, b > 0
  PROVE  /\ FillQty(a, b) \in Nat /\ FillQty(a, b) > 0
         /\ a - FillQty(a, b) \in Nat /\ b - FillQty(a, b) \in Nat
         /\ b - FillQty(a, b) < b /\ a - FillQty(a, b) < a
BY DEF FillQty

(* One iteration of checkForMatch. *)
LEMMA MatchStep ==
  ASSUME NoCollision, IInv, match
  PROVE  IInv'
<1>1. PICK i \in LevelsOf(Opposite(aggressor.side)) :
        LET a        == aggressor
            m        == level[i].fifo[1]
            o        == order[m]
            fill_qty == FillQty(a.leaves_qty, o.qty)
            leaves   == a.leaves_qty - fill_qty
            qty      == o.qty - fill_qty
        IN  /\ aggressor' = [a EXCEPT !.leaves_qty = leaves]
            /\ \/ qty = 0 /\ removeOrder(m)
               \/ /\ qty > 0
                  /\ order' = [order EXCEPT ![m].qty = qty]
                  /\ UNCHANGED <<level, cid_oid_to_order>>
  BY Zenon DEF match
<1> DEFINE m == level[i].fifo[1]
           left == aggressor.leaves_qty - FillQty(aggressor.leaves_qty, order[m].qty)
           qty == order[m].qty - FillQty(aggressor.leaves_qty, order[m].qty)
<1>2. /\ aggressor' = [aggressor EXCEPT !.leaves_qty = left]
      /\ \/ qty = 0 /\ removeOrder(m)
         \/ /\ qty > 0
            /\ order' = [order EXCEPT ![m].qty = qty]
            /\ UNCHANGED <<level, cid_oid_to_order>>
  BY <1>1
<1>3. m \in DOMAIN order /\ order[m] \in MEOrder /\ order[m].qty \in Nat /\ order[m].qty > 0
  BY HeadOfLevel DEF LevelsOf
<1>4. aggressor \in Aggressor /\ aggressor.leaves_qty \in Nat /\ aggressor.leaves_qty > 0
  BY Zenon DEF IInv, TypeOK, match, Aggressor
<1>5. left \in Nat /\ qty \in Nat
  BY <1>3, <1>4, FillLeaves, Zenon
<1>6. next_market_order_id' = next_market_order_id /\ ~Idle
  BY Zenon DEF match
<1> HIDE DEF m, left, qty
<1>7. /\ aggressor' \in Aggressor
      /\ aggressor'.market_order_id = aggressor.market_order_id
      /\ aggressor'.client_id = aggressor.client_id
      /\ aggressor'.client_order_id = aggressor.client_order_id
  BY <1>2, <1>4, <1>5 DEF Aggressor
<1>8. /\ BookInv' /\ DOMAIN order' \subseteq DOMAIN order
      /\ \A co \in ClientId \X OrderId :
           cid_oid_to_order[co] = NoOrder => cid_oid_to_order'[co] = NoOrder
  <2>1. CASE qty = 0 /\ removeOrder(m)
    <3>1. BookInv' /\ DOMAIN order' = DOMAIN order \ {m}
      BY <2>1, <1>3, BookOfIInv, RemoveKeepsBook
    <3>2. \A co \in ClientId \X OrderId :
            cid_oid_to_order[co] = NoOrder => cid_oid_to_order'[co] = NoOrder
      BY <2>1 DEF removeOrder, IInv, TypeOK
    <3> QED
      BY <3>1, <3>2
  <2>2. CASE /\ qty > 0
             /\ order' = [order EXCEPT ![m].qty = qty]
             /\ UNCHANGED <<level, cid_oid_to_order>>
    <3>1. BookInv' /\ DOMAIN order' = DOMAIN order
      BY <2>2, <1>3, <1>5, BookOfIInv, ReduceKeepsBook, Zenon
    <3> QED
      BY <3>1, <2>2
  <2> QED
    BY <1>2, <2>1, <2>2
<1>9. AggressorIsNew'
  <2>1. <<aggressor.client_id, aggressor.client_order_id>> \in ClientId \X OrderId
    BY <1>4 DEF Aggressor
  <2>2. /\ \A n \in DOMAIN order : n < next_market_order_id
        /\ next_market_order_id = aggressor.market_order_id + 1
        /\ aggressor.market_order_id \notin DOMAIN order
        /\ cid_oid_to_order[<<aggressor.client_id, aggressor.client_order_id>>] = NoOrder
    BY <1>6 DEF IInv, AggressorIsNew
  <2> QED
    BY <2>1, <2>2, <1>6, <1>7, <1>8 DEF AggressorIsNew
<1>10. TypeOK'
  BY <1>6, <1>7, <1>8 DEF IInv, TypeOK, BookInv, BookTypeOK
<1> QED
  BY <1>8, <1>9, <1>10 DEF IInv, BookInv

(* The rest of the aggressor joins the book, or nothing is left of it. *)
LEMMA AddRestStep ==
  ASSUME NoCollision, IInv, addRest
  PROVE  IInv'
<1>1. ~Idle /\ MatchingDone /\ Idle' /\ next_market_order_id' = next_market_order_id
  BY DEF addRest, Idle
<1>2. aggressor \in Aggressor
  BY <1>1 DEF IInv, TypeOK
<1>3. CASE aggressor.leaves_qty = 0
  <2>1. UNCHANGED <<order, level, cid_oid_to_order>>
    BY <1>3 DEF addRest
  <2>2. TypeOK'
    BY <2>1, <1>1 DEF IInv, TypeOK
  <2>3. EntriesAgree' /\ FifoIsTimeOrder' /\ NotCrossed'
    BY <2>1, SameBook
  <2>4. AggressorIsNew'
    BY <2>1, <1>1 DEF IInv, AggressorIsNew
  <2> QED
    BY <2>2, <2>3, <2>4 DEF IInv
<1>4. CASE aggressor.leaves_qty > 0
  <2> DEFINE m == aggressor.market_order_id
             o == [client_id |-> aggressor.client_id,
                   client_order_id |-> aggressor.client_order_id,
                   side |-> aggressor.side, price |-> aggressor.price,
                   qty |-> aggressor.leaves_qty, priority |-> getNextPriority(aggressor.price)]
  <2>1. addOrder(m, o)
    BY <1>4, <1>2 DEF addRest, Aggressor
  <2>2. getNextPriority(aggressor.price) \in Nat
    <3> DEFINE i == priceToIndex(aggressor.price)
               f == level[i].fifo
    <3>1. CASE i \in DOMAIN level
      <4>1. LevelHoldsItsOrders(i) /\ level[i] \in MEOrdersAtPrice
        BY <3>1 DEF IInv, EntriesAgree, TypeOK
      <4>2. Len(f) \in 1 .. Len(f)
        BY <4>1 DEF LevelHoldsItsOrders, MEOrdersAtPrice
      <4>3. f[Len(f)] \in DOMAIN order
        BY <4>1, <4>2 DEF LevelHoldsItsOrders
      <4>4. order[f[Len(f)]].priority \in Nat
        BY <4>3 DEF IInv, TypeOK, MEOrder
      <4> QED
        BY <3>1, <4>4 DEF getNextPriority
    <3>2. CASE i \notin DOMAIN level
      BY <3>2 DEF getNextPriority
    <3> QED
      BY <3>1, <3>2
  <2>3. m \in MarketOrderId /\ o \in MEOrder
    BY <1>2, <2>2 DEF Aggressor, MEOrder
  <2>4. /\ o.qty > 0 /\ o.priority = getNextPriority(o.price)
        /\ o.side = aggressor.side /\ o.price = aggressor.price
        /\ o.client_id = aggressor.client_id /\ o.client_order_id = aggressor.client_order_id
    BY <1>4
  <2> HIDE DEF o
  <2>5. /\ \A n \in DOMAIN order : n < m
        /\ next_market_order_id = m + 1
        /\ cid_oid_to_order[<<o.client_id, o.client_order_id>>] = NoOrder
    <3>1. /\ \A n \in DOMAIN order : n \in Nat /\ n < next_market_order_id /\ n # m
          /\ next_market_order_id = m + 1 /\ m \in Nat
      BY <1>1, <2>3, SizeAssumption DEF IInv, TypeOK, AggressorIsNew, MarketOrderId
    <3>2. cid_oid_to_order[<<o.client_id, o.client_order_id>>] = NoOrder
      BY <1>1, <2>4 DEF IInv, AggressorIsNew
    <3> QED
      BY <3>1, <3>2
  <2>6. \A j \in LevelsOf(Opposite(o.side)) : ~Crosses(o.side, o.price, level[j].price)
    BY <1>1, <1>4, <2>4, NothingCrosses
  <2>7. BookInv' /\ DOMAIN order' = DOMAIN order \cup {m}
    BY <2>1, <2>3, <2>4, <2>5, <2>6, BookOfIInv, AddKeepsBook
  <2>8. AggressorIsNew'
    <3>1. \A n \in DOMAIN order' : n < next_market_order_id
      BY <2>3, <2>5, <2>7, SizeAssumption DEF IInv, AggressorIsNew, MarketOrderId
    <3> QED
      BY <3>1, <1>1 DEF AggressorIsNew
  <2>9. TypeOK'
    BY <1>1, <2>7 DEF IInv, TypeOK, BookInv, BookTypeOK
  <2> QED
    BY <2>7, <2>8, <2>9 DEF IInv, BookInv
<1> QED
  BY <1>2, <1>3, <1>4 DEF Aggressor

(* A cancel removes the order the client's entry names, or changes nothing. *)
LEMMA CancelStep ==
  ASSUME NoCollision, IInv, NEW c \in ClientId, NEW oid \in OrderId, cancel(c, oid)
  PROVE  IInv'
<1> DEFINE m == cid_oid_to_order[<<c, oid>>]
<1>1. Idle /\ Idle' /\ next_market_order_id' = next_market_order_id
  BY DEF cancel, Idle
<1>2. CASE m = NoOrder
  <2>1. UNCHANGED <<order, level, cid_oid_to_order>>
    BY <1>2 DEF cancel
  <2>2. TypeOK'
    BY <2>1, <1>1 DEF IInv, TypeOK
  <2>3. EntriesAgree' /\ FifoIsTimeOrder' /\ NotCrossed'
    BY <2>1, SameBook
  <2>4. AggressorIsNew'
    BY <2>1, <1>1 DEF IInv, AggressorIsNew
  <2> QED
    BY <2>2, <2>3, <2>4 DEF IInv
<1>3. CASE m # NoOrder
  <2>1. m \in DOMAIN order
    BY <1>3 DEF IInv, EntriesAgree
  <2>2. removeOrder(m)
    BY <1>3 DEF cancel
  <2> HIDE DEF m
  <2>3. BookInv' /\ DOMAIN order' = DOMAIN order \ {m}
    BY <2>1, <2>2, BookOfIInv, RemoveKeepsBook
  <2>4. AggressorIsNew'
    BY <2>3, <1>1 DEF IInv, AggressorIsNew
  <2>5. TypeOK'
    BY <1>1, <2>3 DEF IInv, TypeOK, BookInv, BookTypeOK
  <2> QED
    BY <2>3, <2>4, <2>5 DEF IInv, BookInv
<1> QED
  BY <1>2, <1>3

-----------------------------------------------------------------------------
(* The empty book satisfies the invariant. *)
LEMMA InitIInv == Init => IInv
<1> SUFFICES ASSUME Init PROVE IInv
  OBVIOUS
<1>1. DOMAIN order = {} /\ DOMAIN level = {} /\ Idle
  BY DEF Init, Idle
<1>2. cid_oid_to_order = [co \in ClientId \X OrderId |-> NoOrder]
  BY DEF Init
<1>3. order \in [DOMAIN order -> MEOrder] /\ level \in [DOMAIN level -> MEOrdersAtPrice]
  BY <1>1 DEF Init
<1>4. TypeOK
  BY <1>1, <1>2, <1>3, SizeAssumption DEF Init, TypeOK
<1>5. EntriesAgree /\ FifoIsTimeOrder /\ NotCrossed /\ AggressorIsNew
  BY <1>1, <1>2 DEF EntriesAgree, FifoIsTimeOrder, NotCrossed, LevelsOf, AggressorIsNew
<1> QED
  BY <1>4, <1>5 DEF IInv

(* Every step keeps the invariant, when no two prices share a slot. *)
LEMMA NextIInv ==
  ASSUME NoCollision
  PROVE  IInv /\ [Next]_vars => IInv'
<1> SUFFICES ASSUME IInv, [Next]_vars PROVE IInv'
  OBVIOUS
<1>1. ASSUME NEW c \in ClientId, NEW o \in OrderId, NEW s \in Side, NEW p \in Price,
             NEW q \in Qty, add(c, o, s, p, q)
      PROVE  IInv'
  BY <1>1, AddStep
<1>2. ASSUME NEW c \in ClientId, NEW o \in OrderId, cancel(c, o)
      PROVE  IInv'
  BY <1>2, CancelStep
<1>3. CASE match
  BY <1>3, MatchStep
<1>4. CASE addRest
  BY <1>4, AddRestStep
<1>5. CASE UNCHANGED vars
  <2>1. EntriesAgree' /\ FifoIsTimeOrder' /\ NotCrossed'
    BY <1>5, SameBook DEF vars
  <2>2. TypeOK'
    BY <1>5 DEF vars, IInv, TypeOK, Idle
  <2>3. AggressorIsNew'
    BY <1>5 DEF vars, IInv, AggressorIsNew, Idle
  <2> QED
    BY <2>1, <2>2, <2>3 DEF IInv
<1> QED
  BY <1>1, <1>2, <1>3, <1>4, <1>5 DEF Next, processClientRequest

(***************************************************************************)
(* The order book of MEOrderBook is well formed after every step of the    *)
(* matching engine, for any clients, quantities and number of orders, as   *)
(* long as the prices in use do not share a slot.                          *)
(***************************************************************************)
THEOREM BookIsWellFormed ==
  ASSUME NoCollision
  PROVE  Spec => []IInv
<1>1. Init => IInv
  BY InitIInv
<1>2. IInv /\ [Next]_vars => IInv'
  BY NextIInv
<1> QED
  BY <1>1, <1>2, PTL DEF Spec

(* The containers of the book always hold values of their types. *)
THEOREM BookTypes ==
  ASSUME NoCollision
  PROVE  Spec => []TypeOK
<1>1. IInv => TypeOK
  BY DEF IInv
<1> QED
  BY <1>1, BookIsWellFormed, PTL

(* The order rings, the slot table and the client index name the same orders. *)
THEOREM BookEntriesAgree ==
  ASSUME NoCollision
  PROVE  Spec => []EntriesAgree
<1>1. IInv => EntriesAgree
  BY DEF IInv
<1> QED
  BY <1>1, BookIsWellFormed, PTL

(* The orders of a level stand in the order of their acceptance. *)
THEOREM BookIsFifo ==
  ASSUME NoCollision
  PROVE  Spec => []FifoIsTimeOrder
<1>1. IInv => FifoIsTimeOrder
  BY DEF IInv
<1> QED
  BY <1>1, BookIsWellFormed, PTL

(* Every bid is below every ask, also while an order is being matched. *)
THEOREM BookNotCrossed ==
  ASSUME NoCollision
  PROVE  Spec => []NotCrossed
<1>1. IInv => NotCrossed
  BY DEF IInv
<1> QED
  BY <1>1, BookIsWellFormed, PTL

(* In a step of match, only the head of the best opposite level is filled. *)
LEMMA MatchFillsHead ==
  ASSUME IInv, match, NEW m \in DOMAIN order, Filled(m)
  PROVE  \E i \in LevelsOf(Opposite(aggressor.side)) :
           /\ m = level[i].fifo[1]
           /\ IsBest(Opposite(aggressor.side), i)
           /\ Crosses(aggressor.side, aggressor.price, order[m].price)
<1>1. PICK i \in LevelsOf(Opposite(aggressor.side)) :
        LET h   == level[i].fifo[1]
            qty == order[h].qty - FillQty(aggressor.leaves_qty, order[h].qty)
        IN  /\ IsBest(Opposite(aggressor.side), i)
            /\ Crosses(aggressor.side, aggressor.price, order[h].price)
            /\ \/ removeOrder(h)
               \/ order' = [order EXCEPT ![h].qty = qty]
  BY Zenon DEF match
<1>2. order[m].qty \in Nat
  BY DEF IInv, TypeOK, MEOrder
<1>3. ASSUME m # level[i].fifo[1]
      PROVE  FALSE
  <2>1. m \in DOMAIN order' /\ order'[m] = order[m]
    BY <1>1, <1>3, Zenon DEF removeOrder
  <2> QED
    BY <2>1, <1>2 DEF Filled
<1> QED
  BY <1>1, <1>3

(* Nothing on its side stands before the head of the best level. *)
LEMMA HeadOfBestIsFirst ==
  ASSUME IInv, NEW s \in Side, NEW i \in LevelsOf(s), IsBest(s, i),
         NEW n \in DOMAIN order, order[n].side = s
  PROVE  /\ ~Better(s, order[n].price, level[i].price)
         /\ order[n].price = level[i].price => level[i].fifo[1] <= n
<1> DEFINE j == priceToIndex(order[n].price)
<1>1. PICK b \in 1 .. Len(level[j].fifo) : level[j].fifo[b] = n
  BY Zenon DEF IInv, EntriesAgree, OrderIsInItsLevel
<1>2. j \in DOMAIN level /\ LevelHoldsItsOrders(j) /\ i \in DOMAIN level /\ LevelHoldsItsOrders(i)
  BY DEF IInv, EntriesAgree, OrderIsInItsLevel, LevelsOf
<1>3. level[j].price = order[n].price /\ level[j].side = s
  BY <1>1, <1>2, Zenon DEF LevelHoldsItsOrders
<1>4. level[i].price \in Nat /\ level[j].price \in Nat
  BY <1>2, SizeAssumption DEF IInv, TypeOK, MEOrdersAtPrice
<1>5. j = i \/ Better(s, level[i].price, level[j].price)
  BY <1>2, <1>3 DEF IsBest, LevelsOf
<1> HIDE DEF j
<1>6. CASE j = i
  <2>1. n \in Nat /\ level[i].fifo[1] \in Nat /\ Len(level[i].fifo) \in Nat
    <3>1. level[i].fifo[1] \in DOMAIN order
      BY <1>2, HeadOfLevel
    <3>2. level[i].fifo \in Seq(MarketOrderId)
      BY <1>2 DEF IInv, TypeOK, MEOrdersAtPrice
    <3> QED
      BY <3>1, <3>2, SizeAssumption DEF IInv, TypeOK, MarketOrderId
  <2>2. level[i].fifo[1] <= n
    <3>1. CASE b = 1
      BY <3>1, <2>1, <1>1, <1>6
    <3>2. CASE 1 < b
      BY <3>2, <2>1, <1>1, <1>2, <1>6 DEF IInv, FifoIsTimeOrder
    <3> QED
      BY <3>1, <3>2, <2>1, <1>1, <1>6
  <2> QED
    BY <2>2, <1>3, <1>4, <1>6 DEF Better
<1>7. CASE Better(s, level[i].price, level[j].price)
  BY <1>3, <1>4, <1>7 DEF Better, Side
<1> QED
  BY <1>5, <1>6, <1>7, Zenon

(***************************************************************************)
(* Price-time priority of checkForMatch and match, for every sequence of   *)
(* requests: an order is only filled when nothing on its side is ahead.    *)
(***************************************************************************)
THEOREM BookFillsBestFirst ==
  ASSUME NoCollision
  PROVE  Spec => FillsBestFirst
<1> DEFINE Priority(m) ==
             Filled(m) =>
               /\ order[m].side = Opposite(aggressor.side)
               /\ Crosses(aggressor.side, aggressor.price, order[m].price)
               /\ \A n \in DOMAIN order : order[n].side = order[m].side =>
                    /\ ~Better(order[m].side, order[n].price, order[m].price)
                    /\ order[n].price = order[m].price => m <= n
<1>1. ASSUME IInv, [Next]_vars
      PROVE  [\A m \in DOMAIN order : Priority(m)]_vars
  <2> SUFFICES ASSUME ~UNCHANGED vars, NEW m \in DOMAIN order, Filled(m)
               PROVE  Priority(m)
    OBVIOUS
  <2>1. match \/ addRest
    BY <1>1, Zenon DEF Next, processClientRequest, add, cancel, Filled
  <2>2. CASE addRest
    <3>1. order[m].qty \in Nat
      BY <1>1 DEF IInv, TypeOK, MEOrder
    <3>2. m # aggressor.market_order_id
      BY <1>1 DEF Filled, IInv, AggressorIsNew
    <3>3. m \in DOMAIN order' /\ order'[m] = order[m]
      BY <2>2, <3>2 DEF addRest, addOrder
    <3> QED
      BY <3>1, <3>3 DEF Filled
  <2>3. CASE match
    <3>1. PICK i \in LevelsOf(Opposite(aggressor.side)) :
            /\ m = level[i].fifo[1]
            /\ IsBest(Opposite(aggressor.side), i)
            /\ Crosses(aggressor.side, aggressor.price, order[m].price)
      BY <1>1, <2>3, MatchFillsHead
    <3>2. order[m].side = Opposite(aggressor.side) /\ order[m].price = level[i].price
      BY <1>1, <3>1, HeadOfLevel DEF LevelsOf
    <3>3. Opposite(aggressor.side) \in Side
      BY DEF Opposite, Side
    <3> QED
      BY <1>1, <3>1, <3>2, <3>3, HeadOfBestIsFirst
  <2> QED
    BY <2>1, <2>2, <2>3
<1>2. Spec => []IInv
  BY BookIsWellFormed
<1> QED
  BY <1>1, <1>2, PTL DEF Spec, FillsBestFirst

-----------------------------------------------------------------------------
(* The index arithmetic of the ring. *)

(* Quotient and remainder are unique. *)
LEMMA ModUnique ==
  ASSUME NEW q \in Int, NEW r \in 0 .. N - 1
  PROVE  (N * q + r) % N = r
<1>1. N \in Nat /\ N > 0 /\ N * q \in Int
  BY QueueAssumption
<1> DEFINE a == N * q + r
           d == a \div N
           m == a % N
<1>2. a \in Int /\ d \in Int /\ m \in 0 .. N - 1 /\ a = N * d + m
  BY <1>1
<1> HIDE DEF d, m
<1>3. N * (d - q) = N * d - N * q
  BY <1>1, <1>2
<1>4. N * (d - q) = r - m
  BY <1>1, <1>2, <1>3
<1>5. d - q >= 1 => N * (d - q) >= N
  BY <1>1, <1>2
<1>6. d - q <= -1 => N * (d - q) <= -N
  BY <1>1, <1>2
<1>7. d - q = 0
  BY <1>1, <1>2, <1>4, <1>5, <1>6
<1>8. r = m
  BY <1>1, <1>2, <1>3, <1>4, <1>7
<1> QED
  BY <1>8 DEF m

(* Less than one round further on, the index is further on or has wrapped around. *)
LEMMA ModStep ==
  ASSUME NEW a \in Nat, NEW d \in 0 .. N
  PROVE  /\ (a % N) \in 0 .. N - 1
         /\ (a + d) % N = IF (a % N) + d < N THEN (a % N) + d ELSE (a % N) + d - N
<1>1. N \in Nat /\ N > 0
  BY QueueAssumption
<1> DEFINE q == a \div N
           m == a % N
<1>2. q \in Int /\ m \in 0 .. N - 1 /\ a = N * q + m
  BY <1>1
<1> HIDE DEF q, m
<1>3. CASE m + d < N
  <2>1. m + d \in 0 .. N - 1 /\ a + d = N * q + (m + d)
    BY <1>1, <1>2, <1>3
  <2>2. (N * q + (m + d)) % N = m + d
    BY <1>2, <2>1, ModUnique
  <2>3. (a + d) % N = m + d
    BY <2>1, <2>2
  <2> QED
    BY <1>2, <1>3, <2>3 DEF m
<1>4. CASE ~(m + d < N)
  <2>1. m + d - N \in 0 .. N - 1 /\ N * (q + 1) = N * q + N
    BY <1>1, <1>2, <1>4
  <2>2. a + d = N * (q + 1) + (m + d - N) /\ q + 1 \in Int
    BY <1>1, <1>2, <2>1
  <2>3. (N * (q + 1) + (m + d - N)) % N = m + d - N
    BY <2>1, <2>2, ModUnique
  <2>4. (a + d) % N = m + d - N
    BY <2>2, <2>3
  <2> QED
    BY <1>2, <1>4, <2>4 DEF m
<1> QED
  BY <1>3, <1>4

\* The slot n places after slot i, for any n.
Slot(i, n) == (i + n) % N

(* What is used of slots: the next one, going on from one, and when two differ. *)
LEMMA Slots ==
  ASSUME NEW i \in 0 .. N - 1, NEW n \in Nat
  PROVE  /\ Slot(i, n) \in 0 .. N - 1 /\ Slot(i, 0) = i
         /\ (Slot(i, n) + 1) % N = Slot(i, n + 1)
         /\ Slot((i + 1) % N, n) = Slot(i, n + 1)
         /\ \A d \in 1 .. N - 1 : Slot(i, n + d) # Slot(i, n)
<1>1. N \in Nat /\ N > 0 /\ i \in Nat /\ i + n \in Nat
  BY QueueAssumption
<1>2. Slot(i, n) \in 0 .. N - 1 /\ Slot(i, 0) = i
  <2>1. (i + n) % N \in 0 .. N - 1
    BY <1>1
  <2>2. i = N * 0 + i
    BY <1>1
  <2>3. i % N = i
    BY <2>2, ModUnique
  <2> QED
    BY <1>1, <2>1, <2>3 DEF Slot
<1>3. (Slot(i, n) + 1) % N = Slot(i, n + 1)
  <2>1. (i + n + 1) % N = IF ((i + n) % N) + 1 < N THEN ((i + n) % N) + 1 ELSE ((i + n) % N) + 1 - N
    BY <1>1, ModStep
  <2> DEFINE m == (i + n) % N
  <2>2. m \in 0 .. N - 1
    BY <1>2 DEF Slot
  <2> HIDE DEF m
  <2>3. m \in Nat /\ m = N * 0 + m /\ 0 \in Int
    BY <1>1, <2>2
  <2>4. m % N = m
    BY <2>2, <2>3, ModUnique
  <2>5. (m + 1) % N = IF m + 1 < N THEN m + 1 ELSE m + 1 - N
    BY <1>1, <2>3, <2>4, ModStep
  <2>6. i + (n + 1) = i + n + 1
    BY <1>1
  <2> QED
    BY <2>1, <2>5, <2>6 DEF Slot, m
<1>4. Slot((i + 1) % N, n) = Slot(i, n + 1)
  <2>1. i + 1 < N => (i + 1) % N = i + 1
    <3> SUFFICES ASSUME i + 1 < N PROVE (i + 1) % N = i + 1
      OBVIOUS
    <3>1. i + 1 \in 0 .. N - 1 /\ i + 1 = N * 0 + (i + 1)
      BY <1>1
    <3> QED
      BY <3>1, ModUnique
  <2>2. ~(i + 1 < N) => (i + 1) % N = 0 /\ i + 1 = N
    <3> SUFFICES ASSUME ~(i + 1 < N) PROVE (i + 1) % N = 0 /\ i + 1 = N
      OBVIOUS
    <3>1. 0 \in 0 .. N - 1 /\ i + 1 = N * 1 + 0 /\ i + 1 = N
      BY <1>1
    <3> QED
      BY <3>1, ModUnique
  <2>3. (n + N) % N = n % N
    <3>1. N \in 0 .. N /\ (n % N) \in 0 .. N - 1
      BY <1>1
    <3>2. (n + N) % N = IF (n % N) + N < N THEN (n % N) + N ELSE (n % N) + N - N
      BY <3>1, ModStep
    <3> DEFINE m == n % N
    <3>3. m \in 0 .. N - 1
      BY <3>1
    <3> HIDE DEF m
    <3>4. ~(m + N < N) /\ m + N - N = m
      BY <1>1, <3>3
    <3> QED
      BY <3>2, <3>4 DEF m
  <2>4. CASE i + 1 < N
    <3>1. i + (n + 1) = i + 1 + n
      BY <1>1
    <3> QED
      BY <2>1, <2>4, <3>1 DEF Slot
  <2>5. CASE ~(i + 1 < N)
    <3>1. i + (n + 1) = n + N /\ 0 + n = n
      BY <1>1, <2>2, <2>5
    <3> QED
      BY <2>2, <2>3, <2>5, <3>1 DEF Slot
  <2> QED
    BY <2>4, <2>5
<1>5. ASSUME NEW d \in 1 .. N - 1
      PROVE  Slot(i, n + d) # Slot(i, n)
  <2>0. d \in 0 .. N
    BY <1>1
  <2>1. (i + n + d) % N = IF ((i + n) % N) + d < N THEN ((i + n) % N) + d ELSE ((i + n) % N) + d - N
    BY <1>1, <2>0, ModStep
  <2> DEFINE m == (i + n) % N
  <2>2. m \in 0 .. N - 1
    BY <1>2 DEF Slot
  <2> HIDE DEF m
  <2>3. (IF m + d < N THEN m + d ELSE m + d - N) # m
    BY <1>1, <2>2
  <2>4. i + (n + d) = i + n + d
    BY <1>1
  <2> QED
    BY <2>1, <2>3, <2>4 DEF Slot, m
<1> QED
  BY <1>2, <1>3, <1>4, <1>5

-----------------------------------------------------------------------------
\* The elements that were written and have their index, counted or not, beyond those read.
Ahead == Unread + (IF wpc = "advanced" THEN 1 ELSE 0)

\* The inductive invariant.
QInv == QueueTypes /\ IndicesAgree /\ (wpc # "idle" => num_elements < MaxAhead)

(* What the invariant says of the positions. *)
LEMMA Positions ==
  ASSUME QueueTypes, rpc # "idle" => num_elements > 0
  PROVE  /\ FirstUnread \in 0 .. N - 1 /\ Unread \in Nat /\ Ahead \in Nat
         /\ rpc = "reading" => FirstUnread = Slot(next_read_index, 1)
         /\ rpc # "reading" => FirstUnread = next_read_index
         /\ rpc = "idle" => Unread = num_elements
         /\ rpc # "idle" => Unread = num_elements - 1
         /\ wpc # "advanced" => Ahead = Unread
         /\ wpc = "advanced" => Ahead = Unread + 1
         /\ IndicesAgree <=> next_write_index = Slot(FirstUnread, Ahead)
<1>1. N \in Nat /\ N > 0 /\ MaxAhead \in Nat /\ next_read_index \in 0 .. N - 1 /\ num_elements \in 0 .. MaxAhead
  BY QueueAssumption DEF QueueTypes
<1>2. (next_read_index + 1) % N = Slot(next_read_index, 1) /\ Slot(next_read_index, 1) \in 0 .. N - 1
  BY <1>1, Slots DEF Slot
<1>3. FirstUnread \in 0 .. N - 1 /\ Unread \in Nat
  BY <1>1, <1>2 DEF FirstUnread, Unread
<1>4. /\ rpc = "reading" => FirstUnread = Slot(next_read_index, 1)
      /\ rpc # "reading" => FirstUnread = next_read_index
      /\ rpc = "idle" => Unread = num_elements
      /\ rpc # "idle" => Unread = num_elements - 1
  BY <1>2 DEF FirstUnread, Unread
<1>5. /\ wpc # "advanced" => Ahead = Unread
      /\ wpc = "advanced" => Ahead = Unread + 1
      /\ Ahead \in Nat
  BY <1>3 DEF Ahead
<1>6. FirstUnread + Unread + (IF wpc = "advanced" THEN 1 ELSE 0) = FirstUnread + Ahead
  BY <1>3 DEF Ahead
<1> QED
  BY <1>3, <1>4, <1>5, <1>6 DEF IndicesAgree, Slot

\* The facts the proofs below use of a state of the ring.
QState ==
  /\ QueueTypes
  /\ N \in Nat /\ N > 0 /\ MaxAhead \in Nat
  /\ num_elements \in 0 .. MaxAhead
  /\ next_read_index \in 0 .. N - 1 /\ next_write_index \in 0 .. N - 1
  /\ wpc # "idle" => num_elements < MaxAhead
  /\ rpc # "idle" => num_elements > 0
  /\ FirstUnread \in 0 .. N - 1 /\ Unread \in Nat /\ Ahead \in Nat
  /\ rpc = "reading" => FirstUnread = Slot(next_read_index, 1)
  /\ rpc # "reading" => FirstUnread = next_read_index
  /\ rpc = "idle" => Unread = num_elements
  /\ rpc # "idle" => Unread = num_elements - 1
  /\ wpc # "advanced" => Ahead = Unread
  /\ wpc = "advanced" => Ahead = Unread + 1
  /\ next_write_index = Slot(FirstUnread, Ahead)

(* They follow from the invariant. *)
LEMMA QFactsOf ==
  ASSUME QInv
  PROVE  QState
<1>1. QueueTypes /\ IndicesAgree /\ (wpc # "idle" => num_elements < MaxAhead) /\ (rpc # "idle" => num_elements > 0)
  BY DEF QInv, IndicesAgree
<1>2. /\ N \in Nat /\ N > 0 /\ MaxAhead \in Nat /\ num_elements \in 0 .. MaxAhead
      /\ next_read_index \in 0 .. N - 1 /\ next_write_index \in 0 .. N - 1
  BY <1>1, QueueAssumption DEF QueueTypes
<1> QED
  BY <1>1, <1>2, Positions DEF QState

-----------------------------------------------------------------------------
(* The empty ring. *)
LEMMA InitQ == QueueInit => QInv
<1> SUFFICES ASSUME QueueInit PROVE QInv
  OBVIOUS
<1>1. QueueTypes /\ 0 \in 0 .. N - 1
  BY QueueAssumption DEF QueueInit, QueueTypes
<1>2. FirstUnread = 0 /\ Ahead = 0
  BY DEF QueueInit, FirstUnread, Unread, Ahead
<1>3. Slot(0, 0) = 0
  BY <1>1, Slots
<1> QED
  BY <1>1, <1>2, <1>3, Positions DEF QueueInit, QInv

(* Every step of either thread keeps the invariant, at any load. *)
LEMMA NextQ == QInv /\ [QueueNext]_queueVars => QInv'
<1> SUFFICES ASSUME QInv, [QueueNext]_queueVars PROVE QInv'
  OBVIOUS
<1>1. QState
  BY QFactsOf
<1>2. /\ QueueTypes'
      /\ (wpc # "idle" => num_elements < MaxAhead)'
      /\ (rpc # "idle" => num_elements > 0)'
      /\ (next_write_index = Slot(FirstUnread, Ahead))'
      => QInv'
  BY Positions, PTL DEF QInv
<1>3. ASSUME NEW i \in 0 .. N - 1, NEW n \in Nat
      PROVE  /\ (i + 1) % N \in 0 .. N - 1 /\ (i + 1) % N = Slot(i, 1)
             /\ (Slot(i, n) + 1) % N = Slot(i, n + 1)
             /\ Slot(Slot(i, 1), n) = Slot(i, n + 1)
  <2>1. (i + 1) % N = Slot(i, 1) /\ Slot(i, 1) \in 0 .. N - 1
    BY Slots DEF Slot
  <2>2. (Slot(i, n) + 1) % N = Slot(i, n + 1) /\ Slot((i + 1) % N, n) = Slot(i, n + 1)
    BY Slots
  <2> QED
    BY <2>1, <2>2
<1>4. ASSUME NEW v \in Value, getNextToWriteTo(v)
      PROVE  QInv'
  <2>1. FirstUnread' = FirstUnread /\ Unread' = Unread /\ Ahead' = Ahead
    BY <1>4 DEF getNextToWriteTo, FirstUnread, Unread, Ahead
  <2>2. QueueTypes'
    BY <1>1, <1>4 DEF getNextToWriteTo, QueueTypes, QState
  <2>3. (wpc # "idle" => num_elements < MaxAhead)' /\ (rpc # "idle" => num_elements > 0)'
        /\ next_write_index' = next_write_index
    BY <1>1, <1>4 DEF getNextToWriteTo, QState
  <2>4. (next_write_index = Slot(FirstUnread, Ahead))'
    BY <1>1, <2>1, <2>3 DEF QState, Slot
  <2> QED
    BY <1>2, <2>2, <2>3, <2>4
<1>5. CASE advanceWriteIndex
  <2>1. FirstUnread' = FirstUnread /\ Unread' = Unread /\ Ahead' = Ahead + 1
    BY <1>1, <1>5 DEF advanceWriteIndex, consumer, FirstUnread, Unread, Ahead, QState
  <2>2. QueueTypes'
    BY <1>1, <1>3, <1>5 DEF advanceWriteIndex, consumer, QueueTypes, QState
  <2>3. (wpc # "idle" => num_elements < MaxAhead)' /\ (rpc # "idle" => num_elements > 0)'
    BY <1>1, <1>5 DEF advanceWriteIndex, consumer, QState
  <2>4. next_write_index' = Slot(FirstUnread, Ahead + 1)
    BY <1>1, <1>3, <1>5 DEF advanceWriteIndex, QState
  <2> QED
    BY <1>2, <2>1, <2>2, <2>3, <2>4 DEF Slot
<1>6. CASE countWrite
  <2>1. FirstUnread' = FirstUnread /\ Unread' = Unread + 1
    BY <1>1, <1>6 DEF countWrite, consumer, FirstUnread, Unread, QState
  <2>2. QueueTypes'
    BY <1>1, <1>6 DEF countWrite, consumer, QueueTypes, QState
  <2>3. /\ (wpc # "idle" => num_elements < MaxAhead)' /\ (rpc # "idle" => num_elements > 0)'
        /\ next_write_index' = next_write_index /\ Ahead' = Ahead
    BY <1>1, <1>6, <2>1 DEF countWrite, consumer, QState, Ahead
  <2> QED
    BY <1>1, <1>2, <2>1, <2>2, <2>3 DEF QState, Slot
<1>7. CASE getNextToRead
  <2>1. /\ FirstUnread = next_read_index /\ Unread = num_elements
        /\ FirstUnread' = (next_read_index + 1) % N /\ Unread' = num_elements - 1
        /\ Ahead' = Ahead - 1 /\ Ahead > 0
    BY <1>1, <1>7 DEF getNextToRead, producer, FirstUnread, Unread, Ahead, QState
  <2>2. QueueTypes'
    BY <1>1, <1>7 DEF getNextToRead, producer, QueueTypes, ReadOf, QState
  <2>3. (wpc # "idle" => num_elements < MaxAhead)' /\ (rpc # "idle" => num_elements > 0)'
        /\ next_write_index' = next_write_index
    BY <1>1, <1>7 DEF getNextToRead, producer, QState
  <2>4. Ahead - 1 \in Nat /\ Ahead - 1 + 1 = Ahead
    BY <1>1, <2>1 DEF QState
  <2>5. Slot((next_read_index + 1) % N, Ahead - 1) = Slot(next_read_index, Ahead)
    <3>1. next_read_index \in 0 .. N - 1
      BY <1>1 DEF QState
    <3> QED
      BY <2>4, <3>1, Slots
  <2> QED
    BY <1>1, <1>2, <2>1, <2>2, <2>3, <2>5 DEF QState, Slot
<1>8. CASE advanceReadIndex
  <2>1. FirstUnread' = FirstUnread /\ Unread' = Unread /\ Ahead' = Ahead
    BY <1>8 DEF advanceReadIndex, producer, FirstUnread, Unread, Ahead
  <2>2. QueueTypes'
    BY <1>1, <1>3, <1>8 DEF advanceReadIndex, producer, QueueTypes, QState
  <2>3. (wpc # "idle" => num_elements < MaxAhead)' /\ (rpc # "idle" => num_elements > 0)'
        /\ next_write_index' = next_write_index
    BY <1>1, <1>8 DEF advanceReadIndex, producer, QState
  <2> QED
    BY <1>1, <1>2, <2>1, <2>2, <2>3 DEF QState, Slot
<1>9. CASE countRead
  <2>1. FirstUnread' = FirstUnread /\ Unread' = Unread /\ Ahead' = Ahead
    BY <1>1, <1>9 DEF countRead, producer, FirstUnread, Unread, Ahead, QState
  <2>2. QueueTypes'
    BY <1>1, <1>9 DEF countRead, producer, QueueTypes, QState
  <2>3. (wpc # "idle" => num_elements < MaxAhead)' /\ (rpc # "idle" => num_elements > 0)'
        /\ next_write_index' = next_write_index
    BY <1>1, <1>9 DEF countRead, producer, QState
  <2> QED
    BY <1>1, <1>2, <2>1, <2>2, <2>3 DEF QState, Slot
<1>10. CASE UNCHANGED queueVars
  BY <1>10 DEF queueVars, QInv, QueueTypes, IndicesAgree, FirstUnread, Unread
<1> QED
  BY <1>4, <1>5, <1>6, <1>7, <1>8, <1>9, <1>10 DEF QueueNext, Write, Read

(* The invariant of the ring, for any size and any load, overruns included. *)
THEOREM QueueInvariant == QueueSpec => []QInv
<1>1. QueueInit => QInv
  BY InitQ
<1>2. QInv /\ [QueueNext]_queueVars => QInv'
  BY NextQ
<1> QED
  BY <1>1, <1>2, PTL DEF QueueSpec

(* The indices and the element count always fit together. *)
THEOREM QueueIndicesAgree == QueueSpec => []IndicesAgree
<1>1. QInv => IndicesAgree
  BY DEF QInv
<1> QED
  BY <1>1, QueueInvariant, PTL

-----------------------------------------------------------------------------
(* Which slots the producer's next one may be: only those N or more places before it. *)
LEMMA WriteSlot ==
  ASSUME QState, wpc # "advanced"
  PROVE  /\ \A j \in 1 .. Unread : Unread - j < N - 1 => Slot(FirstUnread, j - 1) # next_write_index
         /\ rpc = "reading" /\ Unread < N - 1 => next_read_index # next_write_index
         /\ rpc = "idle" /\ num_elements \in 1 .. N - 1 => next_read_index # next_write_index
<1>1. /\ N \in Nat /\ FirstUnread \in 0 .. N - 1 /\ Unread \in Nat /\ next_read_index \in 0 .. N - 1
      /\ next_write_index = Slot(FirstUnread, Unread)
  BY DEF QState
<1>2. ASSUME NEW j \in 1 .. Unread, Unread - j < N - 1
      PROVE  Slot(FirstUnread, j - 1) # next_write_index
  <2>1. j - 1 \in Nat /\ Unread - j + 1 \in 1 .. N - 1 /\ j - 1 + (Unread - j + 1) = Unread
    BY <1>1, <1>2
  <2>2. Slot(FirstUnread, j - 1 + (Unread - j + 1)) # Slot(FirstUnread, j - 1)
    BY <1>1, <2>1, Slots
  <2> QED
    BY <1>1, <2>1, <2>2
<1>3. ASSUME NEW n \in 1 .. N - 1
      PROVE  Slot(next_read_index, n) # next_read_index
  <2>1. 0 \in Nat /\ 0 + n = n
    BY <1>1
  <2>2. Slot(next_read_index, 0) = next_read_index
    BY <1>1, <2>1, Slots
  <2>3. \A d \in 1 .. N - 1 : Slot(next_read_index, 0 + d) # Slot(next_read_index, 0)
    BY <1>1, <2>1, Slots
  <2>4. Slot(next_read_index, 0 + n) # Slot(next_read_index, 0)
    BY <2>3
  <2> QED
    BY <2>1, <2>2, <2>4
<1>4. ASSUME rpc = "reading", Unread < N - 1
      PROVE  next_read_index # next_write_index
  <2>1. FirstUnread = (next_read_index + 1) % N
    BY <1>4 DEF QState, FirstUnread
  <2>2. Slot((next_read_index + 1) % N, Unread) = Slot(next_read_index, Unread + 1)
    BY <1>1, Slots
  <2>3. Unread + 1 \in 1 .. N - 1
    BY <1>1, <1>4
  <2> QED
    BY <1>1, <1>3, <2>1, <2>2, <2>3
<1>5. ASSUME rpc = "idle", num_elements \in 1 .. N - 1
      PROVE  next_read_index # next_write_index
  <2>1. FirstUnread = next_read_index /\ Unread = num_elements
    BY <1>5 DEF QState
  <2> QED
    BY <1>1, <1>3, <1>5, <2>1
<1> QED
  BY <1>2, <1>4, <1>5

-----------------------------------------------------------------------------
(* The elements of the abstract queue. *)
Q == [j \in 1 .. Unread |-> store[(FirstUnread + j - 1) % N]]

(* A function on an initial segment of the numbers is a sequence. *)
LEMMA FunctionIsSequence ==
  ASSUME NEW S, NEW n \in Nat, NEW f \in [1 .. n -> S]
  PROVE  f \in Seq(S) /\ Len(f) = n
OBVIOUS

\* What the elements of the abstract queue are.
QFacts ==
  /\ Q \in Seq(Value) /\ Len(Q) = Unread /\ Q \in [1 .. Unread -> Value]
  /\ \A j \in 1 .. Unread : Q[j] = store[Slot(FirstUnread, j - 1)]

(* The abstract queue is a sequence of elements read off the ring. *)
LEMMA QElements ==
  ASSUME QState
  PROVE  QFacts
<1>1. QueueTypes /\ N \in Nat /\ N > 0 /\ Unread \in Nat /\ FirstUnread \in 0 .. N - 1
  BY DEF QState
<1>2. ASSUME NEW j \in 1 .. Unread
      PROVE  /\ (FirstUnread + j - 1) % N = Slot(FirstUnread, j - 1)
             /\ Slot(FirstUnread, j - 1) \in 0 .. N - 1
  <2>1. j - 1 \in Nat /\ FirstUnread + (j - 1) = FirstUnread + j - 1
    BY <1>1
  <2>2. Slot(FirstUnread, j - 1) \in 0 .. N - 1
    BY <1>1, <2>1, Slots
  <2> QED
    BY <2>1, <2>2 DEF Slot
<1>3. \A j \in 1 .. Unread : Q[j] = store[Slot(FirstUnread, j - 1)] /\ Q[j] \in Value
  BY <1>1, <1>2, Zenon DEF Q, QueueTypes
<1>4. DOMAIN Q = 1 .. Unread /\ Q = [j \in 1 .. Unread |-> Q[j]]
  BY DEF Q
<1>5. Q \in [1 .. Unread -> Value]
  BY <1>3, <1>4
<1>6. Q \in Seq(Value) /\ Len(Q) = Unread
  BY <1>1, <1>5, FunctionIsSequence
<1> QED
  BY <1>3, <1>5, <1>6 DEF QFacts

(* Two sequences with the same elements are the same. *)
LEMMA SameSequence ==
  ASSUME NEW S, NEW s \in Seq(S), NEW t \in Seq(S), Len(s) = Len(t),
         \A j \in 1 .. Len(s) : s[j] = t[j]
  PROVE  s = t
OBVIOUS

(***************************************************************************)
(* The ring, at any load, implements the queue: an element is put when the *)
(* producer counts it and taken when the consumer reads it, and a producer *)
(* that starts on a slot with N elements not given back spoils only what   *)
(* is that far back.                                                       *)
(***************************************************************************)
THEOREM QueueIsFifo == QueueSpec => IsFifo
<1>1. QueueInit => Fifo!Init
  <2> SUFFICES ASSUME QueueInit PROVE Fifo!Init
    OBVIOUS
  <2>1. Unread = 0 /\ item \in Value
    BY DEF QueueInit, Unread
  <2>2. Q \in Seq(Value) /\ Len(Q) = 0
    BY <2>1, InitQ, QFactsOf, QElements DEF QFacts
  <2>3. Q = <<>>
    BY <2>2
  <2> QED
    BY <2>1, <2>3 DEF Fifo!Init, Q
<1>2. ASSUME QInv, QInv', [QueueNext]_queueVars
      PROVE  [Fifo!Next]_(Fifo!vars)
  <2>0. QState
    BY <1>2, QFactsOf
  <2>1. /\ Q \in Seq(Value) /\ Len(Q) = Unread /\ Q \in [1 .. Unread -> Value]
        /\ \A j \in 1 .. Unread : Q[j] = store[Slot(FirstUnread, j - 1)]
        /\ Unread \in Nat /\ FirstUnread \in 0 .. N - 1
    BY <2>0, QElements DEF QFacts, QState
  <2>2. /\ Q' \in Seq(Value) /\ Len(Q') = Unread' /\ Q' \in [1 .. Unread' -> Value]
        /\ \A j \in 1 .. Unread' : Q'[j] = store'[Slot(FirstUnread', j - 1)]
        /\ Unread' \in Nat /\ FirstUnread' \in 0 .. N - 1
    <3>1. QState' /\ QFacts'
      BY <1>2, QFactsOf, QElements, PTL
    <3> QED
      BY <3>1 DEF QFacts, QState, Slot
  <2>3. /\ QueueTypes /\ N \in Nat /\ N > 0 /\ num_elements \in Nat
        /\ rpc # "idle" => num_elements > 0
        /\ next_read_index \in 0 .. N - 1
    BY <2>0 DEF QState
  <2>4. SUFFICES \/ Q' = Q /\ item' = item
                 \/ /\ Q # <<>> /\ Q' = Tail(Q)
                    /\ item' = Head(Q) \/ (Len(Q) >= N /\ item' \in Value)
                 \/ /\ Len(Q) >= N - 1 /\ Q' \in [1 .. Len(Q) -> Value] /\ item' \in Value
                    /\ \A j \in 1 .. Len(Q) : Len(Q) - j < N - 1 => Q'[j] = Q[j]
                 \/ \E v \in Value : Q' = Append(Q, v) /\ item' = item
    BY Zenon DEF Fifo!Next, Fifo!vars, Fifo!Get, Fifo!Put, Fifo!Overrun, Q
  <2>5. ASSUME NEW v \in Value, getNextToWriteTo(v)
        PROVE  \/ Q' = Q /\ item' = item
               \/ /\ Len(Q) >= N - 1 /\ Q' \in [1 .. Len(Q) -> Value] /\ item' \in Value
                  /\ \A j \in 1 .. Len(Q) : Len(Q) - j < N - 1 => Q'[j] = Q[j]
    <3>1. FirstUnread' = FirstUnread /\ Unread' = Unread /\ wpc # "advanced"
      BY <2>5 DEF getNextToWriteTo, FirstUnread, Unread
    <3>2. ASSUME NEW j \in 1 .. Unread, Unread - j < N - 1
          PROVE  Q'[j] = Q[j]
      <4>1. Slot(FirstUnread, j - 1) # next_write_index
        BY <2>0, <3>1, <3>2, WriteSlot
      <4>2. j - 1 \in Nat
        BY <2>1
      <4>3. Slot(FirstUnread, j - 1) \in 0 .. N - 1
        BY <2>1, <4>2, Slots
      <4>4. store'[Slot(FirstUnread, j - 1)] = store[Slot(FirstUnread, j - 1)]
        BY <2>3, <2>5, <4>1, <4>3 DEF getNextToWriteTo, QueueTypes
      <4> QED
        BY <2>1, <2>2, <3>1, <4>4
    <3>3. item' \in Value
      BY <2>3, <2>5 DEF getNextToWriteTo, QueueTypes
    <3>4. CASE Unread < N - 1
      <4>1. item' = item
        BY <2>0, <2>5, <3>1, <3>4, WriteSlot DEF getNextToWriteTo
      <4>2. \A j \in 1 .. Unread : Unread - j < N - 1
        BY <2>1, <2>3, <3>4
      <4>3. Q' = Q
        BY <2>1, <2>2, <3>1, <3>2, <4>2, SameSequence
      <4> QED
        BY <4>1, <4>3
    <3>5. CASE ~(Unread < N - 1)
      <4>1. Len(Q) >= N - 1
        BY <2>1, <2>3, <3>5
      <4> QED
        BY <2>1, <2>2, <3>1, <3>2, <3>3, <4>1
    <3> QED
      BY <3>4, <3>5
  <2>6. CASE advanceWriteIndex
    BY <2>6 DEF advanceWriteIndex, consumer, Q, FirstUnread, Unread
  <2>7. CASE countWrite
    <3>1. FirstUnread' = FirstUnread /\ Unread' = Unread + 1 /\ item' = item /\ store' = store
      BY <2>3, <2>7 DEF countWrite, consumer, FirstUnread, Unread
    <3>2. Slot(FirstUnread, Unread) \in 0 .. N - 1
      BY <2>1, Slots
    <3>3. store[Slot(FirstUnread, Unread)] \in Value
      BY <2>3, <3>2 DEF QueueTypes
    <3> DEFINE w == store[Slot(FirstUnread, Unread)]
    <3> HIDE DEF w
    <3>4. Append(Q, w) \in Seq(Value) /\ Len(Append(Q, w)) = Unread + 1
          /\ \A j \in 1 .. Unread : Append(Q, w)[j] = Q[j]
          /\ Append(Q, w)[Unread + 1] = w
      BY <2>1, <3>3 DEF w
    <3>5. \A j \in 1 .. Unread : Q'[j] = Q[j]
      <4> SUFFICES ASSUME NEW j \in 1 .. Unread PROVE Q'[j] = Q[j]
        OBVIOUS
      <4>1. j \in 1 .. Unread' /\ Q[j] = store[Slot(FirstUnread, j - 1)]
        BY <2>1, <3>1
      <4> QED
        BY <2>2, <3>1, <4>1
    <3>6. Q'[Unread + 1] = w
      <4>1. \A j \in 1 .. Unread + 1 : Q'[j] = store[Slot(FirstUnread, j - 1)]
        BY <2>2, <3>1, Zenon
      <4> DEFINE l == Unread + 1
      <4>2. l \in 1 .. Unread + 1
        BY <2>1
      <4>3. l - 1 = Unread
        BY <2>1
      <4> HIDE DEF l
      <4>4. Q'[l] = store[Slot(FirstUnread, l - 1)]
        BY <4>1, <4>2, Zenon
      <4>5. Q'[l] = w
        BY <4>3, <4>4 DEF w
      <4> QED
        BY <4>5 DEF l
    <3>7. Q' = Append(Q, w)
      BY <2>1, <2>2, <3>1, <3>4, <3>5, <3>6, SameSequence
    <3> QED
      BY <3>1, <3>3, <3>7 DEF w
  <2>8. CASE getNextToRead
    <3>1. /\ FirstUnread = next_read_index /\ Unread = num_elements /\ Unread > 0
          /\ Unread' = Unread - 1 /\ store' = store
          /\ FirstUnread' = (FirstUnread + 1) % N
      BY <2>3, <2>8 DEF getNextToRead, producer, FirstUnread, Unread
    <3>2. Q # <<>> /\ Head(Q) = Q[1] /\ Q[1] = store[next_read_index]
      <4>1. 1 \in 1 .. Unread /\ Q # <<>> /\ Head(Q) = Q[1]
        BY <2>1, <3>1
      <4>2. Slot(FirstUnread, 0) = FirstUnread /\ 1 - 1 = 0
        BY <2>1, Slots
      <4> QED
        BY <2>1, <3>1, <4>1, <4>2
    <3>3. item' = Head(Q) \/ (Len(Q) >= N /\ item' \in Value)
      <4>1. CASE wpc = "written" /\ next_write_index = next_read_index
        <5>1. ~(num_elements \in 1 .. N - 1)
          BY <2>0, <2>8, <4>1, WriteSlot DEF getNextToRead
        <5>2. Len(Q) >= N
          BY <2>1, <2>3, <3>1, <5>1
        <5> QED
          BY <2>8, <4>1, <5>2 DEF getNextToRead, ReadOf
      <4>2. CASE ~(wpc = "written" /\ next_write_index = next_read_index)
        BY <2>8, <3>2, <4>2 DEF getNextToRead, ReadOf
      <4> QED
        BY <4>1, <4>2
    <3>4. /\ Tail(Q) \in Seq(Value) /\ Len(Tail(Q)) = Unread - 1
          /\ \A j \in 1 .. Unread - 1 : Tail(Q)[j] = Q[j + 1]
      BY <2>1, <3>1
    <3>5. \A j \in 1 .. Unread - 1 : Q'[j] = Q[j + 1]
      <4> SUFFICES ASSUME NEW j \in 1 .. Unread - 1 PROVE Q'[j] = Q[j + 1]
        OBVIOUS
      <4>1. Q'[j] = store[Slot((FirstUnread + 1) % N, j - 1)]
        BY <2>2, <3>1
      <4>2. j + 1 \in 1 .. Unread /\ j - 1 \in Nat /\ (j + 1) - 1 = j - 1 + 1
        BY <2>1, <3>1
      <4>3. Q[j + 1] = store[Slot(FirstUnread, j - 1 + 1)]
        BY <2>1, <4>2
      <4>4. Slot((FirstUnread + 1) % N, j - 1) = Slot(FirstUnread, j - 1 + 1)
        BY <2>1, <4>2, Slots
      <4> QED
        BY <4>1, <4>3, <4>4
    <3>6. Q' = Tail(Q)
      BY <2>2, <3>1, <3>4, <3>5, SameSequence
    <3> QED
      BY <3>2, <3>3, <3>6
  <2>9. CASE advanceReadIndex
    BY <2>9 DEF advanceReadIndex, producer, Q, FirstUnread, Unread
  <2>10. CASE countRead
    <3>1. FirstUnread' = FirstUnread /\ Unread' = Unread /\ item' = item /\ store' = store
      BY <2>3, <2>10 DEF countRead, producer, FirstUnread, Unread
    <3> QED
      BY <3>1 DEF Q
  <2>11. CASE UNCHANGED queueVars
    BY <2>11 DEF queueVars, Q, FirstUnread, Unread
  <2> QED
    BY <1>2, <2>5, <2>6, <2>7, <2>8, <2>9, <2>10, <2>11 DEF QueueNext, Write, Read
<1> QED
  BY <1>1, <1>2, QueueInvariant, PTL DEF QueueSpec, IsFifo, Fifo!Spec

-----------------------------------------------------------------------------
(* The publisher. *)

\* Where the publisher's pointer is, relative to the read index.
PointerInv ==
  /\ rpc = "idle" \/ market_update # NoSlot
  /\ market_update # NoSlot =>
       IF rpc = "reading" THEN market_update = next_read_index
                          ELSE next_read_index = Slot(market_update, 1)

\* The inductive invariant.
PInv == QInv /\ PTypeOK /\ PointerInv /\ SlotStable /\ ForwardsWhatItSent

-----------------------------------------------------------------------------
(* Every step is a step of the queue or leaves the queue alone. *)
LEMMA PNextIsNext == [PNext]_pvars => [QueueNext]_queueVars
BY DEF PNext, pvars, sendMarketUpdate, sendIncremental, release, forward, queueVars, QueueNext, Read

(* A producer with N - 2 elements or fewer before it does not reach the slot just released. *)
LEMMA ReleasedSlotIsSafe ==
  ASSUME PInv, wpc = "idle", num_elements < N - 1, market_update # NoSlot
  PROVE  market_update # next_write_index
<1>1. QState /\ N \in Nat /\ market_update \in 0 .. N - 1 /\ num_elements \in Nat
  BY QFactsOf DEF PInv, QState, PTypeOK
<1>2. CASE rpc = "reading"
  <2>1. Unread < N - 1 /\ market_update = next_read_index
    BY <1>1, <1>2 DEF QState, PInv, PointerInv
  <2> QED
    BY <1>1, <1>2, <2>1, WriteSlot
<1>3. CASE rpc # "reading"
  <2>1. next_read_index = Slot(market_update, 1) /\ FirstUnread = next_read_index
        /\ next_write_index = Slot(FirstUnread, Unread)
    BY <1>1, <1>3 DEF PInv, PointerInv, QState
  <2>2. Unread \in Nat /\ Unread + 1 \in 1 .. N - 1 /\ 0 \in Nat /\ 0 + (Unread + 1) = Unread + 1
    BY <1>1 DEF QState
  <2>3. (market_update + 1) % N = Slot(market_update, 1)
    BY DEF Slot
  <2>4. Slot((market_update + 1) % N, Unread) = Slot(market_update, Unread + 1)
    BY <1>1, <2>2, Slots
  <2>5. Slot(market_update, 0) = market_update
    BY <1>1, <2>2, Slots
  <2>6. \A d \in 1 .. N - 1 : Slot(market_update, 0 + d) # Slot(market_update, 0)
    BY <1>1, <2>2, Slots
  <2>7. Slot(market_update, Unread + 1) # market_update
    BY <2>2, <2>5, <2>6
  <2> QED
    BY <2>1, <2>3, <2>4, <2>7
<1> QED
  BY <1>2, <1>3

(* Every step keeps the invariant. *)
LEMMA NextP == PInv /\ [PNext]_pvars => PInv'
<1> SUFFICES ASSUME PInv, [PNext]_pvars PROVE PInv'
  OBVIOUS
<1>1. QInv'
  BY NextQ, PNextIsNext DEF PInv
<1>2. /\ QState /\ QueueTypes /\ N \in Nat /\ N > 0 /\ next_read_index \in 0 .. N - 1 /\ num_elements \in Nat
      /\ market_update = NoSlot \/ market_update \in 0 .. N - 1
      /\ (next_read_index + 1) % N = Slot(next_read_index, 1)
  BY QFactsOf DEF PInv, PTypeOK, QState, Slot
<1>3. CASE sendMarketUpdate
  <2>1. UNCHANGED <<market_update, forwarded, rpc, next_read_index>>
    BY <1>3 DEF sendMarketUpdate, Write, getNextToWriteTo, advanceWriteIndex, countWrite, consumer
  <2>2. ~crowded' => ~crowded /\ ~(wpc = "idle" /\ num_elements >= N - 1)
    BY <1>3, Zenon DEF sendMarketUpdate
  <2>3. ASSUME NEW v \in Value, getNextToWriteTo(v)
        PROVE  SlotStable' /\ ForwardsWhatItSent'
    <3>1. market_update = NoSlot => item' = item
      BY <2>3 DEF getNextToWriteTo, PInv, PointerInv
    <3>2. ForwardsWhatItSent'
      BY <2>1, <2>2, <3>1 DEF PInv, ForwardsWhatItSent
    <3>3. ASSUME market_update # NoSlot, ~crowded'
          PROVE  /\ store'[market_update] = item'
                 /\ ~(wpc' = "written" /\ next_write_index' = market_update)
      <4>1. ~crowded /\ wpc = "idle" /\ num_elements < N - 1 /\ next_write_index' = next_write_index
        BY <1>2, <2>2, <2>3, <3>3 DEF getNextToWriteTo
      <4>2. market_update # next_write_index
        BY <3>3, <4>1, ReleasedSlotIsSafe
      <4>3. store'[market_update] = store[market_update]
        BY <1>2, <2>3, <3>3, <4>2 DEF getNextToWriteTo, QueueTypes
      <4>4. item' = item
        BY <2>3, <3>3, <4>2 DEF getNextToWriteTo, PInv, PointerInv
      <4> QED
        BY <3>3, <4>1, <4>2, <4>3, <4>4 DEF PInv, SlotStable
    <3> QED
      BY <2>1, <3>2, <3>3 DEF SlotStable
  <2>4. ASSUME advanceWriteIndex \/ countWrite
        PROVE  SlotStable' /\ ForwardsWhatItSent'
    <3>1. store' = store /\ item' = item /\ wpc' # "written"
      BY <2>4 DEF advanceWriteIndex, countWrite, consumer
    <3> QED
      BY <2>1, <2>2, <3>1 DEF PInv, SlotStable, ForwardsWhatItSent
  <2>5. SlotStable' /\ ForwardsWhatItSent'
    BY <1>3, <2>3, <2>4, Zenon DEF sendMarketUpdate, Write
  <2> QED
    BY <1>1, <2>1, <2>5 DEF PInv, PTypeOK, PointerInv, Slot
<1>4. CASE sendIncremental
  <2>1. /\ market_update' = next_read_index /\ item' \in ReadOf(next_read_index)
        /\ rpc = "idle" /\ num_elements # 0
        /\ rpc' = "reading" /\ UNCHANGED <<store, forwarded, next_read_index, wpc, next_write_index>>
    BY <1>4 DEF sendIncremental, getNextToRead, producer
  <2>2. market_update' # NoSlot
    BY <1>2, <2>1 DEF NoSlot
  <2>3. ~crowded' => ~(wpc = "written" /\ next_write_index = next_read_index)
    <3> SUFFICES ASSUME ~crowded', wpc = "written" PROVE next_write_index # next_read_index
      OBVIOUS
    <3>0. ~(num_elements >= N - 1)
      BY <1>4, Zenon DEF sendIncremental
    <3>1. num_elements \in 1 .. N - 1
      BY <1>2, <2>1, <3>0
    <3> QED
      BY <1>2, <2>1, <3>1, WriteSlot
  <2>4. SlotStable'
    BY <2>1, <2>3 DEF SlotStable, ReadOf
  <2> QED
    BY <1>1, <1>2, <2>1, <2>2, <2>4 DEF PInv, PTypeOK, PointerInv, ForwardsWhatItSent
<1>5. CASE release
  <2>1. UNCHANGED <<market_update, forwarded, item, store, wpc, next_write_index, crowded>>
    BY <1>5 DEF release, advanceReadIndex, countRead, producer
  <2>2. PointerInv'
    BY <1>2, <1>5 DEF release, advanceReadIndex, countRead, producer, PInv, PointerInv, Slot
  <2> QED
    BY <1>1, <2>1, <2>2 DEF PInv, PTypeOK, SlotStable, ForwardsWhatItSent
<1>6. CASE forward
  <2>1. market_update' = NoSlot /\ rpc = "idle" /\ UNCHANGED <<queueVars, crowded>>
        /\ forwarded' \in ReadOf(market_update) /\ market_update # NoSlot
    BY <1>6 DEF forward
  <2>2. ~crowded => forwarded' = item
    BY <2>1 DEF PInv, SlotStable, ReadOf
  <2>3. forwarded' \in Value
    BY <1>2, <2>1 DEF ReadOf, QueueTypes
  <2> QED
    BY <1>1, <1>2, <2>1, <2>2, <2>3 DEF queueVars, PInv, PTypeOK, PointerInv, SlotStable, ForwardsWhatItSent
<1>7. CASE UNCHANGED pvars
  BY <1>1, <1>7 DEF pvars, PInv, PTypeOK, PointerInv, SlotStable, ForwardsWhatItSent, Slot
<1> QED
  BY <1>3, <1>4, <1>5, <1>6, <1>7 DEF PNext

(***************************************************************************)
(* At any load, an update the synthesizer receives is the update that was  *)
(* published under its sequence number, unless the matching engine began   *)
(* an update with N - 1 in the ring between the two.                       *)
(***************************************************************************)
THEOREM PublisherForwards == PSpec => []ForwardsWhatItSent
<1>1. PInit => PInv
  BY InitQ DEF PInit, PInv, PTypeOK, PointerInv, SlotStable, ForwardsWhatItSent, QueueInit, QInv, QueueTypes
<1>2. PInv /\ [PNext]_pvars => PInv'
  BY NextP
<1>3. PInv => ForwardsWhatItSent
  BY DEF PInv
<1> QED
  BY <1>1, <1>2, <1>3, PTL DEF PSpec

=============================================================================
