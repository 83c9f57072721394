----------------------- MODULE UnorderedMapMEOrderBook -----------------------
(***************************************************************************)
(* The order book of exchange/matcher/unordered_map_me_order_book.{h,cpp}: *)
(* the matching of MEOrderBook over std::unordered_map, at the grain of    *)
(* its objects.  An MEOrder is a block of the pool, the orders of a price  *)
(* level are a ring of prev_order_ and next_order_ pointers that starts at *)
(* first_me_order_, and cid_oid_to_order_ knows only clients it has met.   *)
(* MEOrderBook keeps its orders in the same rings and the same pool.       *)
(*                                                                         *)
(* A level is named by its slot, as in MEOrderBook; the rings that link    *)
(* the levels of a side are the subject of PriceLevelRing.                 *)
(***************************************************************************)
EXTENDS MemPool, Sequences, FiniteSetsExt, Functions

CONSTANTS
  ClientId, OrderId, Price, Qty, ME_MAX_PRICE_LEVELS,
  MaxOrders,  \* bound: orders accepted in a behaviour
  QtyModulus

VARIABLES
  next_market_order_id,
  object,            \* block -> the MEOrder in it
  level,             \* slot -> MEOrdersAtPrice, for the slots with one
  cid_oid_to_order,  \* client met -> client order id -> block
  aggressor, responses, updates

book == <<object, level, cid_oid_to_order>>
vars == <<poolVars, next_market_order_id, book, aggressor, responses, updates>>

Null == -1

\* A block that is not in use: what deallocate leaves in it no longer matters.
Blank == [client_id |-> Null, client_order_id |-> Null, market_order_id |-> 0, side |-> "INVALID",
          price |-> Null, qty |-> 0, priority |-> 0, prev_order |-> Null, next_order |-> Null]

\* Function f with x mapped to y.
With(f, x, y) == [z \in DOMAIN f \cup {x} |-> IF z = x THEN y ELSE f[z]]

-----------------------------------------------------------------------------
(* The orders and levels of MEOrderBook. *)

NextOrder(b) == IF b \in Block THEN object[b].next_order ELSE b

\* The blocks of the ring that starts at first, in the order toString walks it.
Ring(first) ==
  LET at[n \in 1 .. N] == IF n = 1 THEN first ELSE NextOrder(at[n - 1])
      ends == {n \in 1 .. N : NextOrder(at[n]) = first}
  IN  [n \in 1 .. (IF ends = {} THEN N ELSE Min(ends)) |-> at[n]]

MarketOrderIdOf(b) == IF b \in Block THEN object[b].market_order_id ELSE 0

\* Blocks with an order in them; an allocation that ends the process takes one without.
Live == {b \in held : object[b].market_order_id # 0}

BlockOf(m) == CHOOSE b \in held : object[b].market_order_id = m

AbstractOrder ==
  [m \in {object[b].market_order_id : b \in Live} |->
     LET x == object[BlockOf(m)]
     IN  [client_id |-> x.client_id, client_order_id |-> x.client_order_id, side |-> x.side,
          price |-> x.price, qty |-> x.qty, priority |-> x.priority]]

AbstractLevel ==
  [i \in DOMAIN level |->
     [side |-> level[i].side, price |-> level[i].price,
      fifo |-> LET r == Ring(level[i].first_me_order) IN [k \in DOMAIN r |-> MarketOrderIdOf(r[k])]]]

\* The order of client c with its id o, if the map has it.
Lookup(c, o) == IF c \in DOMAIN cid_oid_to_order THEN cid_oid_to_order[c][o] ELSE Null

AbstractCidOid == [co \in ClientId \X OrderId |-> MarketOrderIdOf(Lookup(co[1], co[2]))]

Book == INSTANCE MEOrderBook
          WITH order <- AbstractOrder, level <- AbstractLevel, cid_oid_to_order <- AbstractCidOid

-----------------------------------------------------------------------------
Idle == aggressor = <<>>

LevelsOf(s) == {i \in DOMAIN level : level[i].side = s}

\* Slot i holds the level bids_by_price_ or asks_by_price_ points to.
IsBest(s, i) ==
  /\ i \in LevelsOf(s)
  /\ \A j \in LevelsOf(s) \ {i} : Book!Better(s, level[i].price, level[j].price)

Init ==
  /\ PoolInit
  /\ next_market_order_id = 1
  /\ object = [b \in Block |-> Blank]
  /\ level = <<>>
  /\ cid_oid_to_order = <<>>
  /\ aggressor = <<>> /\ responses = <<>> /\ updates = <<>>

\* cid_oid_to_order_[c], which inserts an empty map for a client it has not met.
Met(c) ==
  IF c \in DOMAIN cid_oid_to_order THEN cid_oid_to_order
  ELSE With(cid_oid_to_order, c, [o \in OrderId |-> Null])

getNextPriority(p) ==
  IF Book!priceToIndex(p) \in DOMAIN level
  THEN object[object[level[Book!priceToIndex(p)].first_me_order].prev_order].priority + 1
  ELSE 1

\* Mutant: a first order that leaves stays the first of its level.
removeOrderMutant(b) ==
  LET x == object[b]
      i == Book!priceToIndex(x.price)
  IN  /\ \/ /\ x.prev_order = b
            /\ level' = [j \in DOMAIN level \ {i} |-> level[j]]
            /\ object' = [object EXCEPT ![b] = Blank]
         \/ /\ x.prev_order # b
            /\ object' = [object EXCEPT ![x.prev_order].next_order = x.next_order,
                                        ![x.next_order].prev_order = x.prev_order,
                                        ![b] = Blank]
            /\ UNCHANGED level
      /\ cid_oid_to_order' = [cid_oid_to_order EXCEPT ![x.client_id][x.client_order_id] = Null]
      /\ deallocate(b)

removeOrder(b) ==
  LET x == object[b]
      i == Book!priceToIndex(x.price)
  IN  /\ \/ /\ x.prev_order = b
            /\ level' = [j \in DOMAIN level \ {i} |-> level[j]]
            /\ object' = [object EXCEPT ![b] = Blank]
         \/ /\ x.prev_order # b
            /\ object' = [object EXCEPT ![x.prev_order].next_order = x.next_order,
                                        ![x.next_order].prev_order = x.prev_order,
                                        ![b] = Blank]
            /\ level' = [level EXCEPT ![i].first_me_order = IF @ = b THEN x.next_order ELSE @]
      /\ cid_oid_to_order' = [cid_oid_to_order EXCEPT ![x.client_id][x.client_order_id] = Null]
      /\ deallocate(b)

\* Mutant: the last order of the ring keeps pointing to the first.
addOrderMutant(b, x) ==
  LET i     == Book!priceToIndex(x.price)
      first == level[i].first_me_order
      last  == object[first].prev_order
  IN  /\ \/ /\ i \notin DOMAIN level
            /\ object' = [object EXCEPT ![b] = [x EXCEPT !.prev_order = b, !.next_order = b]]
            /\ level' = With(level, i, [side |-> x.side, price |-> x.price, first_me_order |-> b])
         \/ /\ i \in DOMAIN level
            /\ object' = [object EXCEPT ![b] = [x EXCEPT !.prev_order = last, !.next_order = first],
                                        ![last].next_order = b]
            /\ UNCHANGED level
      /\ cid_oid_to_order' = [Met(x.client_id) EXCEPT ![x.client_id][x.client_order_id] = b]

\* Order x, in block b, becomes the last of its level.
addOrder(b, x) ==
  LET i     == Book!priceToIndex(x.price)
      first == level[i].first_me_order
      last  == object[first].prev_order
  IN  /\ \/ /\ i \notin DOMAIN level
            /\ object' = [object EXCEPT ![b] = [x EXCEPT !.prev_order = b, !.next_order = b]]
            /\ level' = With(level, i, [side |-> x.side, price |-> x.price, first_me_order |-> b])
         \/ /\ i \in DOMAIN level
            /\ object' = [[object EXCEPT ![last].next_order = b, ![first].prev_order = b]
                            EXCEPT ![b] = [x EXCEPT !.prev_order = last, !.next_order = first]]
            /\ UNCHANGED level
      /\ cid_oid_to_order' = [Met(x.client_id) EXCEPT ![x.client_id][x.client_order_id] = b]

\* A NEW request: add() up to checkForMatch.  A client does not reuse the id of a live order.
add(c, o, s, p, q) ==
  /\ Idle
  /\ next_market_order_id <= MaxOrders
  /\ Lookup(c, o) = Null
  /\ next_market_order_id' = next_market_order_id + 1
  /\ aggressor' = [client_id |-> c, client_order_id |-> o, market_order_id |-> next_market_order_id,
                   side |-> s, price |-> p, leaves_qty |-> q]
  /\ responses' = <<Book!ClientResponse("ACCEPTED", c, o, next_market_order_id, s, p, 0, q)>>
  /\ updates' = <<>>
  /\ UNCHANGED <<poolVars, book>>

\* One iteration of checkForMatch, with match().
match ==
  /\ ~Idle
  /\ aggressor.leaves_qty > 0
  /\ \E i \in LevelsOf(Book!Opposite(aggressor.side)) :
       LET a        == aggressor
           b        == level[i].first_me_order
           x        == object[b]
           fill_qty == Book!FillQty(a.leaves_qty, x.qty)
           leaves   == a.leaves_qty - fill_qty
           qty      == x.qty - fill_qty
       IN  /\ IsBest(Book!Opposite(a.side), i)
           /\ Book!Crosses(a.side, a.price, x.price)
           /\ aggressor' = [a EXCEPT !.leaves_qty = leaves]
           /\ responses' =
                <<Book!ClientResponse("FILLED", a.client_id, a.client_order_id,
                    a.market_order_id % QtyModulus, a.side, x.price, fill_qty, leaves),
                  Book!ClientResponse("FILLED", x.client_id, x.client_order_id,
                    x.market_order_id, x.side, x.price, fill_qty, qty)>>
           /\ updates' =
                <<Book!MarketUpdate("TRADE", Book!Invalid, a.side, x.price, fill_qty, Book!Invalid),
                  Book!PassiveUpdate(x.market_order_id, x, qty)>>
           /\ \/ qty = 0 /\ removeOrder(b)
              \/ /\ qty > 0
                 /\ object' = [object EXCEPT ![b].qty = qty]
                 /\ UNCHANGED <<poolVars, level, cid_oid_to_order>>
  /\ UNCHANGED next_market_order_id

\* The loop of checkForMatch is over.
MatchingDone ==
  \/ aggressor.leaves_qty = 0
  \/ LevelsOf(Book!Opposite(aggressor.side)) = {}
  \/ \E i \in LevelsOf(Book!Opposite(aggressor.side)) :
       /\ IsBest(Book!Opposite(aggressor.side), i)
       /\ ~Book!Crosses(aggressor.side, aggressor.price, object[level[i].first_me_order].price)

\* The rest of add().  A pool that is exhausted ends the process inside allocate.
addRest ==
  /\ ~Idle
  /\ MatchingDone
  /\ LET a == aggressor
         priority == getNextPriority(a.price)
         x == [client_id |-> a.client_id, client_order_id |-> a.client_order_id,
               market_order_id |-> a.market_order_id, side |-> a.side, price |-> a.price,
               qty |-> a.leaves_qty, priority |-> priority, prev_order |-> Null, next_order |-> Null]
     IN  \/ /\ a.leaves_qty > 0
            /\ allocate
            /\ \/ aborted' /\ UNCHANGED <<book, aggressor, responses, updates>>
               \/ /\ ~aborted'
                  /\ addOrder(next_free_index, x)
                  /\ aggressor' = <<>>
                  /\ responses' = <<>>
                  /\ updates' = <<Book!MarketUpdate("ADD", a.market_order_id, a.side, a.price,
                                                    a.leaves_qty, priority)>>
         \/ /\ a.leaves_qty = 0
            /\ aggressor' = <<>> /\ responses' = <<>> /\ updates' = <<>>
            /\ UNCHANGED <<poolVars, book>>
  /\ UNCHANGED next_market_order_id

\* The test of cancel() for a client it has met: the number of clients met.
Cancelable(c) == c < Cardinality(DOMAIN cid_oid_to_order)

Rejection(c, o) ==
  Book!ClientResponse("CANCEL_REJECTED", c, o, Book!Invalid, "INVALID",
                      Book!Invalid, Book!Invalid, Book!Invalid)

\* A CANCEL request.
cancel(c, o) ==
  /\ Idle
  /\ LET b == IF Cancelable(c) THEN Lookup(c, o) ELSE Null
     IN  \/ /\ b = Null
            /\ responses' = <<Rejection(c, o)>>
            /\ updates' = <<>>
            /\ cid_oid_to_order' = IF Cancelable(c) THEN Met(c) ELSE cid_oid_to_order
            /\ UNCHANGED <<poolVars, object, level>>
         \/ /\ b # Null
            /\ LET x == object[b]
               IN  /\ responses' = <<Book!ClientResponse("CANCELED", c, o, x.market_order_id, x.side,
                                                         x.price, Book!Invalid, x.qty)>>
                   /\ updates' = <<Book!MarketUpdate("CANCEL", x.market_order_id, x.side, x.price,
                                                     0, x.priority)>>
            /\ removeOrder(b)
  /\ UNCHANGED <<next_market_order_id, aggressor>>

Next ==
  /\ ~aborted
  /\ \/ \E c \in ClientId, o \in OrderId, s \in Book!Side, p \in Price, q \in Qty : add(c, o, s, p, q)
     \/ \E c \in ClientId, o \in OrderId : cancel(c, o)
     \/ match \/ addRest

Spec == Init /\ [][Next]_vars

-----------------------------------------------------------------------------
(* Properties. *)

\* A cancel of a client whose id is not below the number of clients met is rejected, whatever
\* orders the client has.
RejectHighClient ==
  /\ \E c \in ClientId, o \in OrderId :
       ~Cancelable(c) /\ responses' = <<Rejection(c, o)>>
  /\ updates' = <<>>
  /\ UNCHANGED <<next_market_order_id, AbstractOrder, AbstractLevel, AbstractCidOid, aggressor>>

(***************************************************************************)
(* Pool, rings and maps together do what MEOrderBook does, responses and   *)
(* market updates included, with one exception: cancel() takes the number  *)
(* of clients it has met for the bound of their ids.                       *)
(***************************************************************************)
ImplementsBook == Book!Init /\ [][Book!Next \/ RejectHighClient]_(Book!vars)

(***************************************************************************)
(* No pointer dangles and no block leaks: every order that holds a block   *)
(* is in the ring of its own price level, its neighbours point back to it, *)
(* and its client's entry leads to it; the map leads to no other block.    *)
(***************************************************************************)
BlocksAreLinked ==
  /\ ~aborted => held = Live
  /\ \A b \in Live :
       LET x == object[b]
           i == Book!priceToIndex(x.price)
       IN  /\ i \in DOMAIN level /\ b \in Range(Ring(level[i].first_me_order))
           /\ x.next_order \in Live /\ object[x.next_order].prev_order = b
           /\ x.prev_order \in Live /\ object[x.prev_order].next_order = b
           /\ Lookup(x.client_id, x.client_order_id) = b
  /\ \A c \in ClientId, o \in OrderId : Lookup(c, o) \in Live \cup {Null}

=============================================================================
