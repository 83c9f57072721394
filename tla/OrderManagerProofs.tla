-------------------------- MODULE OrderManagerProofs --------------------------
(***************************************************************************)
(* The second half of the proof about OrderManager: the steps of the       *)
(* exchange keep the invariant of module OrderManagerInvariant, and the    *)
(* properties follow from it.                                              *)
(***************************************************************************)
EXTENDS OrderManagerInvariant

-----------------------------------------------------------------------------
(* The exchange's steps. *)

\* The exchange sends response e; n is its place on the way.
Sent(e, n) == responses' = Append(responses, e) /\ n = Len(responses) + 1

\* A response is added behind the others.
LEMMA ResponsesGrow ==
  ASSUME Types, NEW e \in Responses, NEW n, Sent(e, n)
  PROVE  /\ responses' \in Seq(Responses) /\ n \in Nat /\ responses'[n] = e
         /\ \A t \in Side :
              /\ \A i : i \in About(t)' <=> i \in About(t) \/ (i = n /\ e.side = t)
              /\ \A i : i \in Fills(t)' <=> i \in Fills(t) \/ (i = n /\ e.side = t /\ e.type = "FILLED")
              /\ \A i \in About(t) : i \in Nat /\ i < n /\ responses'[i] = responses[i]
              /\ Fills(t) \subseteq About(t)
<1>1. /\ responses' \in Seq(Responses) /\ n \in Nat /\ responses'[n] = e
      /\ DOMAIN responses' = DOMAIN responses \cup {n}
      /\ \A i \in DOMAIN responses : i \in Nat /\ i < n /\ responses'[i] = responses[i]
  BY AppendIs DEF Types, Sent
<1>2. \A t \in Side : \A i : i \in About(t)' <=> i \in About(t) \/ (i = n /\ e.side = t)
  BY <1>1 DEF About
<1>3. \A t \in Side : \A i : i \in Fills(t)' <=> i \in Fills(t) \/ (i = n /\ e.side = t /\ e.type = "FILLED")
  BY <1>1 DEF Fills, About
<1>4. \A t \in Side : /\ \A i \in About(t) : i \in Nat /\ i < n /\ responses'[i] = responses[i]
                      /\ Fills(t) \subseteq About(t)
  BY <1>1 DEF About, Fills
<1> QED
  BY <1>1, <1>2, <1>3, <1>4

\* A CANCEL of the order in the slot of side t is on the way.
CancelSent(t) ==
  \E i \in DOMAIN requests : requests[i].type = "CANCEL" /\ requests[i].order_id = order[t].order_id

\* Places, by the names of the variables.
Placed(t) ==
  /\ order[t].order_state \in {"LIVE", "PENDING_CANCEL"} => InBook(t) \/ Ending(t)
  /\ order[t].order_state = "PENDING_NEW" =>
       \/ NewSent(Here, t)
       \/ (InBook(t) \/ Ending(t)) /\ \E i \in About(t) : responses[i].type = "ACCEPTED"
  /\ order[t].order_state = "PENDING_CANCEL" => Ending(t) \/ CancelSent(t)

\* The two forms of the fact that an open order is somewhere.
LEMMA PlacesIsPlaced ==
  /\ Places(Here) <=> \A t \in Side : Placed(t)
  /\ Places(Here)' <=> \A t \in Side : Placed(t)'
<1>1. Places(Here) <=> \A t \in Side : Placed(t)
  BY HereIs DEF Places, Placed, CancelSent
<1>2. Places(Here)' <=> \A t \in Side : Placed(t)'
  BY HereIs DEF Places, Placed, CancelSent
<1> QED
  BY <1>1, <1>2

\* The first request is taken: the others move one place down, and so what was true of all stays.
LEMMA RequestsShift ==
  ASSUME Here \in States, requests # <<>>, requests' = Tail(requests), UNCHANGED <<order, next_order_id>>
  PROVE  /\ Here' \in States
         /\ 1 \in DOMAIN requests /\ Head(requests) = requests[1] /\ Head(requests) \in Requests
         /\ \A i \in DOMAIN requests' : i \in Nat /\ i + 1 \in DOMAIN requests /\ requests'[i] = requests[i + 1]
         /\ \A i \in DOMAIN requests' : i + 1 # 1
         /\ \A i \in DOMAIN requests : i # 1 => i - 1 \in DOMAIN requests' /\ requests'[i - 1] = requests[i]
         /\ Ids(Here) => Ids(Here)'
         /\ \A t \in Side :
              /\ NewSent(Here, t)' => NewSent(Here, t)
              /\ NewSent(Here, t) => NewSent(Here, t)' \/ (Head(requests).type = "NEW" /\ Head(requests).side = t)
              /\ CancelSent(t) => CancelSent(t)' \/ (Head(requests).type = "CANCEL" /\ Head(requests).order_id = order[t].order_id)
<1>1. /\ requests \in Seq(Requests) /\ order \in [Side -> OMOrders] /\ next_order_id \in Nat \ {0}
  BY FieldsOf, HereIs
<1>2. /\ requests' \in Seq(Requests) /\ Head(requests) \in Requests /\ Head(requests) = requests[1]
      /\ 1 \in DOMAIN requests /\ DOMAIN requests \subseteq Nat \ {0}
      /\ \A i \in Nat : i \in DOMAIN requests' <=> i # 0 /\ i + 1 \in DOMAIN requests
      /\ \A i \in DOMAIN requests' : requests'[i] = requests[i + 1]
      /\ DOMAIN requests' \subseteq Nat
  BY <1>1, TailIs
<1>3. Here' \in States
  BY <1>1, <1>2 DEF Here, States
<1>4. \A i \in DOMAIN requests' : i \in Nat /\ i + 1 \in DOMAIN requests /\ requests'[i] = requests[i + 1] /\ i + 1 # 1
  BY <1>2
<1>5. ASSUME NEW i \in DOMAIN requests, i # 1
      PROVE  i - 1 \in DOMAIN requests' /\ requests'[i - 1] = requests[i]
  <2>1. i \in Nat /\ i - 1 \in Nat /\ i - 1 # 0 /\ (i - 1) + 1 = i
    BY <1>2, <1>5
  <2> QED
    BY Zenon, <1>2, <2>1
<1>6. Ids(Here) => Ids(Here)'
  BY <1>4, HereIs DEF Ids
<1>7. ASSUME NEW t \in Side
      PROVE  /\ NewSent(Here, t)' => NewSent(Here, t)
             /\ NewSent(Here, t) => NewSent(Here, t)' \/ (Head(requests).type = "NEW" /\ Head(requests).side = t)
             /\ CancelSent(t) => CancelSent(t)' \/ (Head(requests).type = "CANCEL" /\ Head(requests).order_id = order[t].order_id)
  <2>1. ASSUME NewSent(Here, t)' PROVE NewSent(Here, t)
    <3>1. PICK i \in DOMAIN requests' : requests'[i].type = "NEW" /\ requests'[i].side = t
      BY <2>1, HereIs DEF NewSent
    <3> QED
      BY <1>4, <3>1, HereIs DEF NewSent
  <2>2. ASSUME NewSent(Here, t), ~(Head(requests).type = "NEW" /\ Head(requests).side = t)
        PROVE  NewSent(Here, t)'
    <3>1. PICK i \in DOMAIN requests : requests[i].type = "NEW" /\ requests[i].side = t
      BY <2>2, HereIs DEF NewSent
    <3>2. i - 1 \in DOMAIN requests' /\ requests'[i - 1] = requests[i]
      BY <1>2, <1>5, <2>2, <3>1
    <3> QED
      BY <3>1, <3>2, HereIs DEF NewSent
  <2>3. ASSUME CancelSent(t), ~(Head(requests).type = "CANCEL" /\ Head(requests).order_id = order[t].order_id)
        PROVE  CancelSent(t)'
    <3>1. PICK i \in DOMAIN requests : requests[i].type = "CANCEL" /\ requests[i].order_id = order[t].order_id
      BY <2>3 DEF CancelSent
    <3>2. i - 1 \in DOMAIN requests' /\ requests'[i - 1] = requests[i]
      BY <1>2, <1>5, <2>3, <3>1
    <3> QED
      BY <3>1, <3>2 DEF CancelSent
  <2> QED
    BY <2>1, <2>2, <2>3
<1> QED
  BY <1>2, <1>3, <1>4, <1>5, <1>6, <1>7

\* The parts of the invariant, one lemma each, so that a step cites what it uses.  The types of the variables.
LEMMA TypesHold ==
  ASSUME IInv
  PROVE  Here \in States /\ Types /\ \A t \in Side : order[t].qty \in Nat
<1>1. Here \in States /\ Types
  BY DEF IInv, Good
<1>2. \A t \in Side : order[t].qty \in Nat
  BY <1>1, FieldsOf, HereIs
<1> QED
  BY <1>1, <1>2

\* Order ids name one slot each.
LEMMA IdsHold == ASSUME IInv PROVE Ids(Here)
  BY DEF IInv, Good

\* What is on the way or in the book is about the order in the slot.
LEMMA CurrentHolds == ASSUME IInv PROVE Current(Here)
  BY DEF IInv, Good

\* Each place of an order excludes the next ones.
LEMMA PathsHold == ASSUME IInv PROVE Paths(Here)
  BY DEF IInv, Good

\* An order that has not ended for the client is somewhere.
LEMMA PlacesHold == ASSUME IInv PROVE Places(Here)
  BY DEF IInv, Good

\* The fills on the way follow on each other.
LEMMA ChainHolds == ASSUME IInv PROVE Chain(Here)
  BY DEF IInv, Good

\* Each slot's quantity is within the limit of its side.
LEMMA LimitsHold == ASSUME IInv PROVE Limits(Here)
  BY DEF IInv, Good

\* What the exchange has left of each order explains the difference of the positions.
LEMMA AmountsHold == ASSUME IInv PROVE \E rest \in [Side -> Nat] : Amounts(Here, rest)
  BY DEF IInv, Good

\* An order in the book is the one in the slot of its side.
LEMMA LiveIsCurrent ==
  ASSUME IInv
  PROVE  \A o \in live : o.side \in Side /\ o.order_id = order[o.side].order_id
  BY TypesHold, CurrentHolds, HereIs DEF Types, BookOrders, Current

\* Current after a step, by the names of the variables.
LEMMA CurrentNext ==
  ASSUME \A t \in Side : \A i \in About(t)' : responses'[i].order_id = order'[t].order_id,
         \A x \in live' : x.order_id = order'[x.side].order_id,
         \A i \in DOMAIN requests' :
           requests'[i].type = "NEW" =>
             /\ requests'[i].order_id = order'[requests'[i].side].order_id
             /\ requests'[i].qty = order'[requests'[i].side].qty
             /\ requests'[i].qty # 0
  PROVE  Current(Here)'
  BY HereIs DEF Current

\* The same for the places of an order.
LEMMA PathsNext ==
  ASSUME \A t \in Side : NewSent(Here, t)' => About(t)' = {} /\ ~InBook(t)',
         \A i, j \in DOMAIN requests' :
           /\ requests'[i].type = "NEW" /\ requests'[j].type = "NEW"
           /\ requests'[i].side = requests'[j].side
           => i = j,
         \A x, y \in live' : x.side = y.side => x = y,
         \A t \in Side : \A i \in About(t)' :
           Final(responses'[i]) => ~InBook(t)' /\ \A j \in About(t)' : j <= i,
         \A t \in Side :
           order'[t].order_state \in {"INVALID", "DEAD"} => About(t)' = {} /\ ~InBook(t)' /\ ~NewSent(Here, t)'
  PROVE  Paths(Here)'
  BY HereIs DEF Paths

\* What stays of a step of the exchange that only answers: no fill is added, nothing traded.
LEMMA AnswerKeepsMoney ==
  ASSUME IInv, Types', UNCHANGED <<order, position, executed>>,
         \A t \in Side : Fills(t)' = Fills(t) /\ \A i \in Fills(t) : responses'[i] = responses[i],
         \A o \in live' : o \in live \/ (o.side \in Side /\ Fills(o.side) = {} /\ o.qty = order[o.side].qty)
  PROVE  /\ Chain(Here)' /\ Limits(Here)'
         /\ \E rest \in [Side -> Nat] : Amounts(Here, rest)'
<1>1. Chain(Here)'
  <2>1. \A t \in Side : \A j \in Fills(t) :
          /\ (\A i \in Fills(t) : j <= i) =>
               responses[j].exec_qty + responses[j].leaves_qty = order[t].qty
          /\ \A i \in Fills(t) :
               i < j /\ (\A k \in Fills(t) : k <= i \/ j <= k) =>
                 responses[j].exec_qty + responses[j].leaves_qty = responses[i].leaves_qty
    BY ChainHolds, HereIs DEF Chain
  <2> QED
    BY <2>1, HereIs DEF Chain
<1>2. Limits(Here)'
  BY LimitsHold, HereIs DEF Limits
<1>3. PICK rest \in [Side -> Nat] : Amounts(Here, rest)
  BY AmountsHold
<1>4. ASSUME NEW t \in Side PROVE IsRest(Here, t, rest[t])' /\ rest[t] <= order'[t].qty
  <2>1. IsRest(Here, t, rest[t]) /\ rest[t] <= order[t].qty
    BY <1>3, HereIs DEF Amounts
  <2> QED
    BY <2>1, HereIs DEF IsRest
<1>5. \A t \in Side : \A i \in Fills(t)' : rest[t] <= responses'[i].leaves_qty
  BY <1>3 DEF Amounts
<1>6. \A o \in live' : o.qty = rest[o.side]
  BY Zenon, <1>3, HereIs DEF Amounts, IsRest
<1>7. executed' = position' + (order'["BUY"].qty - rest["BUY"]) - (order'["SELL"].qty - rest["SELL"])
  BY <1>3, HereIs DEF Amounts
<1> QED
  BY <1>1, <1>2, <1>4, <1>5, <1>6, <1>7, HereIs DEF Amounts

\* A NEW arrives at the exchange: nothing else of its side was anywhere.
LEMMA AcceptStep ==
  ASSUME IInv, requests # <<>>, requests' = Tail(requests), NEW r \in Requests, r = Head(requests),
         r.type = "NEW",
         live' = live \cup {[order_id |-> r.order_id, side |-> r.side, qty |-> r.qty]},
         responses' = Append(responses, Response("ACCEPTED", r.order_id, r.side, 0, r.qty)),
         UNCHANGED <<order, next_order_id, position, executed>>
  PROVE  IInv'
<1> DEFINE s == r.side
           o == [order_id |-> r.order_id, side |-> s, qty |-> r.qty]
<1>1. s \in Side /\ r.order_id \in Nat /\ r.qty \in Nat
  BY DEF Requests
<1>a. PICK e \in Responses : e = Response("ACCEPTED", r.order_id, s, 0, r.qty)
  BY <1>1 DEF Response, Responses
<1>2. e.side = s /\ e.type = "ACCEPTED" /\ e.order_id = r.order_id /\ ~Final(e)
  BY <1>a DEF Response, Final
<1>3. o.side = s /\ o.order_id = r.order_id /\ o.qty = r.qty
  OBVIOUS
<1>4. /\ Here' \in States /\ Ids(Here)'
      /\ 1 \in DOMAIN requests /\ r = requests[1]
      /\ \A i \in DOMAIN requests' : /\ i \in Nat /\ i + 1 \in DOMAIN requests
                                     /\ requests'[i] = requests[i + 1] /\ i + 1 # 1
      /\ \A t \in Side :
           /\ NewSent(Here, t)' => NewSent(Here, t)
           /\ NewSent(Here, t) => NewSent(Here, t)' \/ t = s
           /\ CancelSent(t) => CancelSent(t)'
  BY TypesHold, IdsHold, RequestsShift
<1>b. PICK n : Sent(e, n)
  BY <1>a DEF Sent
<1>5. /\ responses' \in Seq(Responses) /\ n \in Nat /\ responses'[n] = e
      /\ \A t \in Side :
           /\ \A i : i \in About(t)' <=> i \in About(t) \/ (i = n /\ s = t)
           /\ \A i : i \in Fills(t)' <=> i \in Fills(t)
           /\ \A i \in About(t) : i \in Nat /\ i < n /\ responses'[i] = responses[i]
           /\ Fills(t) \subseteq About(t)
  <2>1. /\ responses' \in Seq(Responses) /\ n \in Nat /\ responses'[n] = e
        /\ \A t \in Side :
             /\ \A i : i \in About(t)' <=> i \in About(t) \/ (i = n /\ e.side = t)
             /\ \A i : i \in Fills(t)' <=> i \in Fills(t) \/ (i = n /\ e.side = t /\ e.type = "FILLED")
             /\ \A i \in About(t) : i \in Nat /\ i < n /\ responses'[i] = responses[i]
             /\ Fills(t) \subseteq About(t)
    BY Zenon, <1>b, TypesHold, ResponsesGrow
  <2> QED
    BY Zenon, <1>2, <2>1
<1>6. live' = live \cup {o}
  OBVIOUS
<1> HIDE DEF s, o
<1>7. /\ NewSent(Here, s) /\ About(s) = {} /\ ~InBook(s) /\ Fills(s) = {} /\ ~Ending(s)
      /\ r.order_id = order[s].order_id /\ r.qty = order[s].qty /\ r.qty # 0
  <2>1. NewSent(Here, s)
    BY <1>4, HereIs DEF NewSent, s
  <2>2. About(s) = {} /\ ~InBook(s)
    BY <1>1, <2>1, PathsHold DEF Paths
  <2>3. r.order_id = order[s].order_id /\ r.qty = order[s].qty /\ r.qty # 0
    BY <1>4, CurrentHolds, HereIs DEF Current, s
  <2> QED
    BY <2>1, <2>2, <2>3 DEF Fills, Ending
<1>8. order[s].order_state = "PENDING_NEW"
  <2>1. order[s].order_state \notin {"INVALID", "DEAD"}
    BY <1>1, <1>7, PathsHold, HereIs DEF Paths
  <2>2. order[s].order_state \notin {"LIVE", "PENDING_CANCEL"}
    BY <1>1, <1>7, PlacesHold, HereIs DEF Places
  <2>3. order \in [Side -> OMOrders]
    BY TypesHold, FieldsOf, HereIs
  <2> QED
    BY <1>1, <2>1, <2>2, <2>3 DEF OMOrders
<1>9. Types'
  <2>1. o \in BookOrders
    BY <1>1, <1>7 DEF o, BookOrders
  <2> QED
    BY <1>5, <1>6, <2>1, TypesHold DEF Types
<1>10. /\ \A t \in Side : t # s => (NewSent(Here, t)' <=> NewSent(Here, t))
       /\ ~NewSent(Here, s)'
  <2>1. \A t \in Side : t # s => (NewSent(Here, t)' <=> NewSent(Here, t))
    BY <1>4
  <2>2. ASSUME NEW i \in DOMAIN requests', requests'[i].type = "NEW", requests'[i].side = s PROVE FALSE
    <3>1. i + 1 \in DOMAIN requests /\ i + 1 # 1 /\ requests[i + 1].type = "NEW" /\ requests[i + 1].side = requests[1].side
      BY <1>4, <2>2 DEF s
    <3> QED
      BY <1>4, <3>1, PathsHold, HereIs DEF Paths
  <2> QED
    BY <2>1, <2>2, HereIs DEF NewSent
<1>11. InBook(s)' /\ \A t \in Side : t # s => (InBook(t)' <=> InBook(t))
  BY <1>3, <1>6 DEF InBook
<1>12. Current(Here)'
  <2>1. \A t \in Side : \A i \in About(t)' : responses'[i].order_id = order'[t].order_id
    <3>1. \A t \in Side : \A i \in About(t) : responses[i].order_id = order[t].order_id
      BY CurrentHolds, HereIs DEF Current
    <3>2. responses'[n].order_id = order[s].order_id
      BY Zenon, <1>2, <1>5, <1>7
    <3>3. ASSUME NEW t \in Side, NEW i \in About(t)' PROVE responses'[i].order_id = order'[t].order_id
      <4>1. CASE i \in About(t)
        BY Zenon, <1>5, <3>1, <4>1
      <4>2. CASE i \notin About(t)
        BY Zenon, <1>5, <3>2, <3>3, <4>2
      <4> QED
        BY Zenon, <4>1, <4>2
    <3> QED
      BY Zenon, <3>3
  <2>2. \A x \in live' : x.order_id = order'[x.side].order_id
    BY <1>3, <1>6, <1>7, LiveIsCurrent
  <2>3. \A i \in DOMAIN requests' :
          requests'[i].type = "NEW" =>
            /\ requests'[i].order_id = order'[requests'[i].side].order_id
            /\ requests'[i].qty = order'[requests'[i].side].qty
            /\ requests'[i].qty # 0
    BY <1>4, CurrentHolds, HereIs DEF Current
  <2> QED
    BY Zenon, <2>1, <2>2, <2>3, CurrentNext
<1>13. Paths(Here)'
  <2>1. \A t \in Side : NewSent(Here, t)' => About(t)' = {} /\ ~InBook(t)'
    BY <1>5, <1>10, <1>11, PathsHold DEF Paths
  <2>2. ASSUME NEW i \in DOMAIN requests', NEW j \in DOMAIN requests',
               requests'[i].type = "NEW", requests'[j].type = "NEW", requests'[i].side = requests'[j].side
        PROVE  i = j
    <3>1. i + 1 = j + 1
      BY <1>4, <2>2, PathsHold, HereIs DEF Paths
    <3> QED
      BY <1>4, <3>1
  <2>3. \A x, y \in live' : x.side = y.side => x = y
    BY <1>3, <1>6, <1>7, PathsHold DEF Paths, InBook
  <2>4. ASSUME NEW t \in Side, NEW i \in About(t)', Final(responses'[i])
        PROVE  ~InBook(t)' /\ \A j \in About(t)' : j <= i
    <3>1. t # s
      <4> SUFFICES ASSUME t = s PROVE FALSE
        OBVIOUS
      <4>1. i = n
        BY <1>5, <1>7, <2>4
      <4> QED
        BY Zenon, <1>2, <1>5, <2>4, <4>1
    <3> QED
      BY Zenon, <1>5, <1>11, <2>4, <3>1, PathsHold DEF Paths
  <2>5. ASSUME NEW t \in Side, order'[t].order_state \in {"INVALID", "DEAD"}
        PROVE  About(t)' = {} /\ ~InBook(t)' /\ ~NewSent(Here, t)'
    <3>1. t # s
      BY <1>8, <2>5
    <3> QED
      BY <1>5, <1>10, <1>11, <2>5, <3>1, PathsHold, HereIs DEF Paths
  <2> QED
    BY Zenon, <2>1, <2>2, <2>3, <2>4, <2>5, PathsNext
<1>14. Places(Here)'
  <2>1. \E i \in About(s)' : responses'[i].type = "ACCEPTED"
    BY Zenon, <1>1, <1>2, <1>5
  <2>2. ASSUME NEW t \in Side, t # s
        PROVE  /\ Ending(t)' <=> Ending(t)
               /\ (\E i \in About(t)' : responses'[i].type = "ACCEPTED") <=> \E i \in About(t) : responses[i].type = "ACCEPTED"
    BY Zenon, <1>5, <2>2 DEF Ending
  <2>3. ASSUME NEW t \in Side PROVE Placed(t)'
    <3>1. CASE t = s
      BY Zenon, <1>8, <1>11, <2>1, <3>1 DEF Placed
    <3>2. CASE t # s
      BY Zenon, <1>4, <1>10, <1>11, <2>2, <3>2, PlacesHold, PlacesIsPlaced DEF Placed
    <3> QED
      BY <3>1, <3>2
  <2> QED
    BY <2>3, PlacesIsPlaced
<1>15. /\ Chain(Here)' /\ Limits(Here)' /\ \E rest \in [Side -> Nat] : Amounts(Here, rest)'
  <2>1. \A t \in Side : Fills(t)' = Fills(t) /\ \A i \in Fills(t) : responses'[i] = responses[i]
    BY Zenon, <1>5
  <2>2. \A x \in live' : x \in live \/ (x.side \in Side /\ Fills(x.side) = {} /\ x.qty = order[x.side].qty)
    BY <1>1, <1>3, <1>6, <1>7
  <2> QED
    BY Zenon, <1>9, <2>1, <2>2, AnswerKeepsMoney
<1> QED
  BY <1>4, <1>9, <1>12, <1>13, <1>14, <1>15 DEF IInv, Good

\* What the exchange does not change of the requests when it takes the first.
LEMMA RequestsKeep ==
  ASSUME IInv, requests # <<>>, requests' = Tail(requests), UNCHANGED <<order, next_order_id>>
  PROVE  /\ \A i \in DOMAIN requests' :
              requests'[i].type = "NEW" =>
                /\ requests'[i].order_id = order'[requests'[i].side].order_id
                /\ requests'[i].qty = order'[requests'[i].side].qty
                /\ requests'[i].qty # 0
         /\ \A i, j \in DOMAIN requests' :
              /\ requests'[i].type = "NEW" /\ requests'[j].type = "NEW"
              /\ requests'[i].side = requests'[j].side
              => i = j
<1>1. \A i \in DOMAIN requests' : i \in Nat /\ i + 1 \in DOMAIN requests /\ requests'[i] = requests[i + 1]
  BY TypesHold, IdsHold, RequestsShift
<1>2. ASSUME NEW i \in DOMAIN requests', requests'[i].type = "NEW"
      PROVE  /\ requests'[i].order_id = order'[requests'[i].side].order_id
             /\ requests'[i].qty = order'[requests'[i].side].qty
             /\ requests'[i].qty # 0
  BY <1>1, <1>2, CurrentHolds, HereIs DEF Current
<1>3. ASSUME NEW i \in DOMAIN requests', NEW j \in DOMAIN requests',
             requests'[i].type = "NEW", requests'[j].type = "NEW", requests'[i].side = requests'[j].side
      PROVE  i = j
  <2>1. i + 1 = j + 1
    BY <1>1, <1>3, PathsHold, HereIs DEF Paths
  <2> QED
    BY <1>1, <2>1
<1> QED
  BY <1>2, <1>3

\* A CANCEL meets its order in the book: the answer is the last about this side.
LEMMA CancelStep ==
  ASSUME IInv, requests # <<>>, requests' = Tail(requests), NEW r \in Requests, r = Head(requests),
         r.type = "CANCEL", NEW o \in live, o.order_id = r.order_id,
         live' = live \ {x \in live : x.order_id = r.order_id},
         NEW q \in Nat, responses' = Append(responses, Response("CANCELED", r.order_id, r.side, 0, q)),
         UNCHANGED <<order, next_order_id, position, executed>>
  PROVE  IInv'
<1> DEFINE s == r.side
<1>1. s \in Side /\ r.order_id \in Nat
  BY DEF Requests
<1>a. PICK e \in Responses : e = Response("CANCELED", r.order_id, s, 0, q)
  BY <1>1 DEF Response, Responses
<1>2. e.side = s /\ e.type = "CANCELED" /\ e.order_id = r.order_id /\ Final(e)
  BY <1>a DEF Response, Final
<1>4. /\ Here' \in States /\ Ids(Here)'
      /\ 1 \in DOMAIN requests /\ r = requests[1]
      /\ \A t \in Side :
           /\ NewSent(Here, t)' <=> NewSent(Here, t)
           /\ CancelSent(t) => CancelSent(t)' \/ r.order_id = order[t].order_id
  BY TypesHold, IdsHold, RequestsShift
<1>b. PICK n : Sent(e, n)
  BY <1>a DEF Sent
<1>5. /\ responses' \in Seq(Responses) /\ n \in Nat /\ responses'[n] = e
      /\ \A t \in Side :
           /\ \A i : i \in About(t)' <=> i \in About(t) \/ (i = n /\ s = t)
           /\ \A i : i \in Fills(t)' <=> i \in Fills(t)
           /\ \A i \in About(t) : i \in Nat /\ i < n /\ responses'[i] = responses[i]
           /\ Fills(t) \subseteq About(t)
  <2>1. /\ responses' \in Seq(Responses) /\ n \in Nat /\ responses'[n] = e
        /\ \A t \in Side :
             /\ \A i : i \in About(t)' <=> i \in About(t) \/ (i = n /\ e.side = t)
             /\ \A i : i \in Fills(t)' <=> i \in Fills(t) \/ (i = n /\ e.side = t /\ e.type = "FILLED")
             /\ \A i \in About(t) : i \in Nat /\ i < n /\ responses'[i] = responses[i]
             /\ Fills(t) \subseteq About(t)
    BY Zenon, <1>b, TypesHold, ResponsesGrow
  <2> QED
    BY Zenon, <1>2, <2>1
<1> HIDE DEF s
<1>6. \A t \in Side : order[t].order_id = r.order_id => t = s
  BY <1>4, IdsHold, HereIs DEF Ids, s
<1>7. /\ o.side = s /\ r.order_id = order[s].order_id
      /\ \A x \in live : x.order_id = r.order_id <=> x.side = s
  BY <1>6, PathsHold, LiveIsCurrent DEF Paths
<1>8. /\ InBook(s) /\ ~NewSent(Here, s) /\ order[s].order_state \notin {"INVALID", "DEAD"}
      /\ \A i \in About(s) : ~Final(responses[i])
  <2>1. InBook(s)
    BY <1>7 DEF InBook
  <2> QED
    BY <1>1, <2>1, PathsHold, HereIs DEF Paths
<1>9. ~InBook(s)' /\ \A t \in Side : t # s => (InBook(t)' <=> InBook(t))
  BY <1>7 DEF InBook
<1>10. Types'
  BY <1>5, TypesHold DEF Types
<1>11. Current(Here)'
  <2>1. \A t \in Side : \A i \in About(t) : responses[i].order_id = order[t].order_id
    BY CurrentHolds, HereIs DEF Current
  <2>2. responses'[n].order_id = order[s].order_id
    BY Zenon, <1>2, <1>5, <1>7
  <2>3. ASSUME NEW t \in Side, NEW i \in About(t)' PROVE responses'[i].order_id = order'[t].order_id
    <3>1. CASE i \in About(t)
      BY Zenon, <1>5, <2>1, <3>1
    <3>2. CASE i \notin About(t)
      BY Zenon, <1>5, <2>2, <2>3, <3>2
    <3> QED
      BY Zenon, <3>1, <3>2
  <2>4. \A x \in live' : x.order_id = order'[x.side].order_id
    BY LiveIsCurrent
  <2> QED
    BY Zenon, <2>3, <2>4, RequestsKeep, HereIs DEF Current
<1>12. Paths(Here)'
  <2>1. \A t \in Side : NewSent(Here, t)' => About(t)' = {} /\ ~InBook(t)'
    BY <1>4, <1>5, <1>8, <1>9, PathsHold DEF Paths
  <2>2. \A x, y \in live' : x.side = y.side => x = y
    BY PathsHold DEF Paths
  <2>3. ASSUME NEW t \in Side, NEW i \in About(t)', Final(responses'[i])
        PROVE  ~InBook(t)' /\ \A j \in About(t)' : j <= i
    <3>1. CASE t = s
      <4>1. i = n
        <5>1. i \in About(s)' /\ (i \in About(s) => responses'[i] = responses[i])
          BY Zenon, <1>1, <1>5, <2>3, <3>1
        <5>2. i \notin About(s)
          BY Zenon, <1>8, <2>3, <5>1
        <5> QED
          BY <1>1, <1>5, <5>1, <5>2
      <4>2. \A j \in About(t)' : j <= n
        BY <1>5
      <4> QED
        BY <1>9, <3>1, <4>1, <4>2
    <3>2. CASE t # s
      <4>1. i \in About(t) /\ Final(responses[i])
        BY Zenon, <1>5, <2>3, <3>2
      <4> QED
        BY <1>5, <1>9, <3>2, <4>1, PathsHold DEF Paths
    <3> QED
      BY <3>1, <3>2
  <2>4. ASSUME NEW t \in Side, order'[t].order_state \in {"INVALID", "DEAD"}
        PROVE  About(t)' = {} /\ ~InBook(t)' /\ ~NewSent(Here, t)'
    BY <1>4, <1>5, <1>8, <1>9, <2>4, PathsHold, HereIs DEF Paths
  <2> QED
    BY Zenon, <2>1, <2>2, <2>3, <2>4, RequestsKeep, HereIs DEF Paths
<1>13. Places(Here)'
  <2>1. Ending(s)'
    BY Zenon, <1>1, <1>2, <1>5 DEF Ending
  <2>2. ASSUME NEW t \in Side
        PROVE  /\ Ending(t) => Ending(t)'
               /\ (\E i \in About(t) : responses[i].type = "ACCEPTED") => \E i \in About(t)' : responses'[i].type = "ACCEPTED"
    BY Zenon, <1>5 DEF Ending
  <2>3. ASSUME NEW t \in Side PROVE Placed(t)'
    BY Zenon, <1>4, <1>6, <1>8, <1>9, <2>1, <2>2, PlacesHold, PlacesIsPlaced DEF Placed
  <2> QED
    BY <2>3, PlacesIsPlaced
<1>14. /\ Chain(Here)' /\ Limits(Here)' /\ \E rest \in [Side -> Nat] : Amounts(Here, rest)'
  <2>1. \A t \in Side : Fills(t)' = Fills(t) /\ \A i \in Fills(t) : responses'[i] = responses[i]
    BY Zenon, <1>5
  <2> QED
    BY Zenon, <1>10, <2>1, AnswerKeepsMoney
<1> QED
  BY <1>4, <1>10, <1>11, <1>12, <1>13, <1>14 DEF IInv, Good

\* A CANCEL comes too late: its order has ended, and the response that says so is on the way.
LEMMA RejectStep ==
  ASSUME IInv, requests # <<>>, requests' = Tail(requests), NEW r \in Requests, r = Head(requests),
         r.type = "CANCEL", \A x \in live : x.order_id # r.order_id, live' = live,
         responses' = Append(responses, Response("CANCEL_REJECTED", r.order_id, "INVALID", 0, 0)),
         UNCHANGED <<order, next_order_id, position, executed>>
  PROVE  IInv'
<1>1. PICK e \in Responses : e = Response("CANCEL_REJECTED", r.order_id, "INVALID", 0, 0)
  BY DEF Response, Responses, Requests
<1>2. \A t \in Side : e.side # t
  BY <1>1 DEF Response, Side
<1>3. /\ Here' \in States /\ Ids(Here)'
      /\ \A t \in Side :
           /\ NewSent(Here, t)' <=> NewSent(Here, t)
           /\ CancelSent(t) => CancelSent(t)' \/ r.order_id = order[t].order_id
  BY TypesHold, IdsHold, RequestsShift
<1>4. PICK n : Sent(e, n)
  BY <1>1 DEF Sent
<1>5. /\ responses' \in Seq(Responses)
      /\ \A t \in Side :
           /\ \A i : i \in About(t)' <=> i \in About(t)
           /\ \A i : i \in Fills(t)' <=> i \in Fills(t)
           /\ \A i \in About(t) : responses'[i] = responses[i]
           /\ Fills(t) \subseteq About(t)
  <2>1. /\ responses' \in Seq(Responses) /\ n \in Nat /\ responses'[n] = e
        /\ \A t \in Side :
             /\ \A i : i \in About(t)' <=> i \in About(t) \/ (i = n /\ e.side = t)
             /\ \A i : i \in Fills(t)' <=> i \in Fills(t) \/ (i = n /\ e.side = t /\ e.type = "FILLED")
             /\ \A i \in About(t) : i \in Nat /\ i < n /\ responses'[i] = responses[i]
             /\ Fills(t) \subseteq About(t)
    BY Zenon, <1>4, TypesHold, ResponsesGrow
  <2> QED
    BY Zenon, <1>2, <2>1
<1>6. \A t \in Side : /\ InBook(t)' <=> InBook(t)
                      /\ Ending(t)' <=> Ending(t)
                      /\ (\E i \in About(t)' : responses'[i].type = "ACCEPTED") <=> \E i \in About(t) : responses[i].type = "ACCEPTED"
  BY Zenon, <1>5 DEF InBook, Ending
<1>7. Types'
  BY <1>5, TypesHold DEF Types
<1>8. Current(Here)'
  <2>a. \A t \in Side : \A i \in About(t) : responses[i].order_id = order[t].order_id
    BY CurrentHolds, HereIs DEF Current
  <2>1. \A t \in Side : \A i \in About(t)' : responses'[i].order_id = order'[t].order_id
    BY Zenon, <1>5, <2>a
  <2>2. \A x \in live' : x.order_id = order'[x.side].order_id
    BY LiveIsCurrent
  <2> QED
    BY Zenon, <2>1, <2>2, RequestsKeep, HereIs DEF Current
<1>9. Paths(Here)'
  <2>1. \A t \in Side : NewSent(Here, t)' => About(t)' = {} /\ ~InBook(t)'
    BY <1>3, <1>5, <1>6, PathsHold DEF Paths
  <2>2. \A x, y \in live' : x.side = y.side => x = y
    BY PathsHold DEF Paths
  <2>3. ASSUME NEW t \in Side, NEW i \in About(t)', Final(responses'[i])
        PROVE  ~InBook(t)' /\ \A j \in About(t)' : j <= i
    <3>1. i \in About(t) /\ Final(responses[i])
      BY Zenon, <1>5, <2>3
    <3> QED
      BY <1>5, <1>6, <3>1, PathsHold DEF Paths
  <2>4. ASSUME NEW t \in Side, order'[t].order_state \in {"INVALID", "DEAD"}
        PROVE  About(t)' = {} /\ ~InBook(t)' /\ ~NewSent(Here, t)'
    BY <1>3, <1>5, <1>6, <2>4, PathsHold, HereIs DEF Paths
  <2> QED
    BY Zenon, <2>1, <2>2, <2>3, <2>4, RequestsKeep, HereIs DEF Paths
<1>10. Places(Here)'
  <2>1. \A t \in Side : order[t].order_id = r.order_id => ~InBook(t)
    BY LiveIsCurrent DEF InBook
  <2>2. ASSUME NEW t \in Side PROVE Placed(t)'
    BY Zenon, <1>3, <1>6, <2>1, PlacesHold, PlacesIsPlaced DEF Placed
  <2> QED
    BY <2>2, PlacesIsPlaced
<1>11. /\ Chain(Here)' /\ Limits(Here)' /\ \E rest \in [Side -> Nat] : Amounts(Here, rest)'
  <2>1. \A t \in Side : Fills(t)' = Fills(t) /\ \A i \in Fills(t) : responses'[i] = responses[i]
    BY Zenon, <1>5
  <2> QED
    BY Zenon, <1>7, <2>1, AnswerKeepsMoney
<1> QED
  BY <1>3, <1>7, <1>8, <1>9, <1>10, <1>11 DEF IInv, Good

\* q of order o in the book trades.
FillOf(o, q) ==
  /\ q <= o.qty
  /\ live' = (live \ {o}) \cup (IF q = o.qty THEN {} ELSE {[o EXCEPT !.qty = o.qty - q]})
  /\ responses' = Append(responses, Response("FILLED", o.order_id, o.side, q, o.qty - q))
  /\ executed' = executed + q * sideToValue(o.side)

\* What is left in the book of an order that trades is what the fill says is left.
LEMMA FillStep ==
  ASSUME IInv, NEW o \in live, NEW q \in 1 .. Clip, FillOf(o, q),
         UNCHANGED <<order, next_order_id, position, requests>>
  PROVE  IInv'
<1>s. PICK s : s = o.side
  OBVIOUS
<1>1. /\ s \in Side /\ o.order_id \in Nat /\ o.qty \in Nat /\ q \in Nat /\ q # 0 /\ o \in BookOrders
      /\ o.order_id = order[s].order_id
  BY <1>s, TypesHold, LiveIsCurrent, OrderManagerAssumption DEF Types, BookOrders
<1>a. PICK left \in Nat : left = o.qty - q
  BY <1>1 DEF FillOf
<1>b. PICK e \in Responses : e = Response("FILLED", o.order_id, s, q, left)
  BY Zenon, <1>1, <1>a DEF Response, Responses
<1>c. PICK p : p = [o EXCEPT !.qty = left]
  BY Zenon
<1>2. /\ e.side = s /\ e.type = "FILLED" /\ e.order_id = o.order_id /\ e.exec_qty = q /\ e.leaves_qty = left
      /\ Final(e) <=> left = 0
      /\ left + q = o.qty /\ (left = 0 <=> q = o.qty)
  BY <1>1, <1>a, <1>b DEF Response, Final
<1>3. p.side = s /\ p.order_id = o.order_id /\ p.qty = left /\ (left # 0 => p \in BookOrders)
  BY <1>1, <1>s, <1>c DEF BookOrders
<1>d. PICK n : Sent(e, n)
  BY <1>s, <1>a, <1>b DEF Sent, FillOf
<1>4. /\ responses' \in Seq(Responses) /\ n \in Nat /\ responses'[n] = e
      /\ \A t \in Side :
           /\ \A i : i \in About(t)' <=> i \in About(t) \/ (i = n /\ s = t)
           /\ \A i : i \in Fills(t)' <=> i \in Fills(t) \/ (i = n /\ s = t)
           /\ \A i \in About(t) : i \in Nat /\ i < n /\ responses'[i] = responses[i]
           /\ Fills(t) \subseteq About(t)
  <2>1. /\ responses' \in Seq(Responses) /\ n \in Nat /\ responses'[n] = e
        /\ \A t \in Side :
             /\ \A i : i \in About(t)' <=> i \in About(t) \/ (i = n /\ e.side = t)
             /\ \A i : i \in Fills(t)' <=> i \in Fills(t) \/ (i = n /\ e.side = t /\ e.type = "FILLED")
             /\ \A i \in About(t) : i \in Nat /\ i < n /\ responses'[i] = responses[i]
             /\ Fills(t) \subseteq About(t)
    BY <1>d, TypesHold, ResponsesGrow
  <2> QED
    BY <1>2, <2>1
<1>5. \A x : x \in live' <=> (x \in live /\ x # o) \/ (x = p /\ left # 0)
  BY <1>2, <1>a, <1>c DEF FillOf
<1>6. \A x \in live : x.side = s => x = o
  BY <1>s, PathsHold DEF Paths
<1>7. /\ InBook(s) /\ ~NewSent(Here, s) /\ order[s].order_state \notin {"INVALID", "DEAD"}
      /\ \A i \in About(s) : ~Final(responses[i])
  <2>1. InBook(s)
    BY <1>s DEF InBook
  <2> QED
    BY <1>1, <2>1, PathsHold, HereIs DEF Paths
<1>8. /\ InBook(s)' <=> left # 0
      /\ \A t \in Side : t # s => (InBook(t)' <=> InBook(t))
  BY <1>s, <1>3, <1>5, <1>6 DEF InBook
<1>9. Types'
  <2>1. live' \subseteq BookOrders
    BY <1>3, <1>5, TypesHold DEF Types
  <2>2. executed' \in Int
    BY <1>1, TypesHold DEF Types, sideToValue, FillOf
  <2> QED
    BY <1>4, <2>1, <2>2, TypesHold DEF Types
<1>10. /\ Here' = Here /\ Here' \in States /\ Ids(Here)'
       /\ \A t \in Side : (NewSent(Here, t)' <=> NewSent(Here, t)) /\ (CancelSent(t)' <=> CancelSent(t))
  <2>1. Here' = Here
    BY DEF Here
  <2>2. \A t \in Side : (NewSent(Here, t)' <=> NewSent(Here, t)) /\ (CancelSent(t)' <=> CancelSent(t))
    BY <2>1 DEF NewSent, CancelSent
  <2> QED
    BY <2>1, <2>2, IdsHold, TypesHold DEF Ids
<1>11. Current(Here)'
  <2>a. /\ \A t \in Side : \A i \in About(t) : responses[i].order_id = order[t].order_id
        /\ \A i \in DOMAIN requests :
             requests[i].type = "NEW" =>
               /\ requests[i].order_id = order[requests[i].side].order_id
               /\ requests[i].qty = order[requests[i].side].qty
               /\ requests[i].qty # 0
    BY CurrentHolds, HereIs DEF Current
  <2>1. ASSUME NEW t \in Side, NEW i \in About(t)' PROVE responses'[i].order_id = order'[t].order_id
    <3>1. CASE i \in About(t)
      BY <1>4, <2>a, <3>1
    <3>2. CASE i \notin About(t)
      BY <1>1, <1>2, <1>4, <2>1, <3>2
    <3> QED
      BY <3>1, <3>2
  <2>2. \A x \in live' : x.order_id = order'[x.side].order_id
    BY <1>1, <1>3, <1>5, LiveIsCurrent
  <2> QED
    BY <2>a, <2>1, <2>2, HereIs DEF Current
<1>12. Paths(Here)'
  <2>1. \A t \in Side : NewSent(Here, t)' => About(t)' = {} /\ ~InBook(t)'
    BY <1>4, <1>7, <1>8, <1>10, PathsHold DEF Paths
  <2>2. \A x, y \in live' : x.side = y.side => x = y
    BY <1>3, <1>5, <1>6, PathsHold DEF Paths
  <2>3. ASSUME NEW t \in Side, NEW i \in About(t)', Final(responses'[i])
        PROVE  ~InBook(t)' /\ \A j \in About(t)' : j <= i
    <3>1. CASE t = s
      <4>1. i = n
        <5>1. i \in About(s)' /\ (i \in About(s) => responses'[i] = responses[i])
          BY <1>1, <1>4, <2>3, <3>1
        <5>2. i \notin About(s)
          BY <1>7, <2>3, <5>1
        <5> QED
          BY <1>1, <1>4, <5>1, <5>2
      <4>2. \A j \in About(t)' : j <= n
        BY <1>4
      <4>3. left = 0
        BY <1>2, <1>4, <2>3, <4>1
      <4> QED
        BY <1>8, <3>1, <4>1, <4>2, <4>3
    <3>2. CASE t # s
      <4>1. i \in About(t) /\ Final(responses[i])
        BY <1>4, <2>3, <3>2
      <4> QED
        BY <1>4, <1>8, <3>2, <4>1, PathsHold DEF Paths
    <3> QED
      BY <3>1, <3>2
  <2>4. ASSUME NEW t \in Side, order'[t].order_state \in {"INVALID", "DEAD"}
        PROVE  About(t)' = {} /\ ~InBook(t)' /\ ~NewSent(Here, t)'
    BY <1>4, <1>7, <1>8, <1>10, <2>4, PathsHold, HereIs DEF Paths
  <2>5. \A i, j \in DOMAIN requests' :
          /\ requests'[i].type = "NEW" /\ requests'[j].type = "NEW"
          /\ requests'[i].side = requests'[j].side
          => i = j
    BY PathsHold, HereIs DEF Paths
  <2> QED
    BY Zenon, <2>1, <2>2, <2>3, <2>4, <2>5, PathsNext
<1>13. Places(Here)'
  <2>1. left = 0 => Ending(s)'
    BY <1>1, <1>2, <1>4 DEF Ending
  <2>2. ASSUME NEW t \in Side
        PROVE  /\ Ending(t) => Ending(t)'
               /\ (\E i \in About(t) : responses[i].type = "ACCEPTED") => \E i \in About(t)' : responses'[i].type = "ACCEPTED"
    BY <1>4 DEF Ending
  <2>3. ASSUME NEW t \in Side PROVE Placed(t)'
    BY Zenon, <1>7, <1>8, <1>10, <2>1, <2>2, PlacesHold, PlacesIsPlaced DEF Placed
  <2> QED
    BY <2>3, PlacesIsPlaced
<1>14. Limits(Here)'
  BY LimitsHold, HereIs DEF Limits
<1>15. PICK rest \in [Side -> Nat] : Amounts(Here, rest)
  BY AmountsHold
<1>16. /\ rest[s] = o.qty
       /\ \A t \in Side : IsRest(Here, t, rest[t]) /\ rest[t] <= order[t].qty /\ order[t].qty \in Nat /\ rest[t] \in Nat
       /\ \A t \in Side : \A i \in Fills(t) : rest[t] <= responses[i].leaves_qty /\ responses[i].leaves_qty \in Nat
       /\ \A x \in live : x.qty = rest[x.side]
       /\ executed = position + (order["BUY"].qty - rest["BUY"]) - (order["SELL"].qty - rest["SELL"])
  <2>1. \A t \in Side : \A i \in Fills(t) : responses[i].leaves_qty \in Nat
    <3>1. \A i \in DOMAIN responses : responses[i].leaves_qty \in Nat
      BY TypesHold DEF Types, Responses
    <3> QED
      BY <3>1 DEF Fills, About
  <2> QED
    BY <1>s, <1>15, <2>1, AmountsHold, TypesHold, HereIs DEF Amounts
<1>17. Chain(Here)'
  <2>1. \A t \in Side : \A j \in Fills(t) :
          /\ (\A i \in Fills(t) : j <= i) =>
               responses[j].exec_qty + responses[j].leaves_qty = order[t].qty
          /\ \A i \in Fills(t) :
               i < j /\ (\A k \in Fills(t) : k <= i \/ j <= k) =>
                 responses[j].exec_qty + responses[j].leaves_qty = responses[i].leaves_qty
    BY ChainHolds, HereIs DEF Chain
  <2>a. \A t \in Side : \A i \in Fills(t) : i \in Nat /\ i < n /\ i \in Fills(t)' /\ responses'[i] = responses[i]
    BY <1>4
  <2>2. ASSUME NEW t \in Side, NEW j \in Fills(t), j \in Fills(t)'
        PROVE  /\ (\A i \in Fills(t)' : j <= i) =>
                    responses'[j].exec_qty + responses'[j].leaves_qty = order'[t].qty
               /\ \A i \in Fills(t)' :
                    i < j /\ (\A k \in Fills(t)' : k <= i \/ j <= k) =>
                      responses'[j].exec_qty + responses'[j].leaves_qty = responses'[i].leaves_qty
    <3>1. ASSUME \A i \in Fills(t)' : j <= i
          PROVE  responses'[j].exec_qty + responses'[j].leaves_qty = order'[t].qty
      BY <2>1, <2>2, <2>a, <3>1
    <3>2. ASSUME NEW i \in Fills(t)', i < j, \A k \in Fills(t)' : k <= i \/ j <= k
          PROVE  responses'[j].exec_qty + responses'[j].leaves_qty = responses'[i].leaves_qty
      <4>1. i \in Fills(t)
        BY <1>4, <2>2, <2>a, <3>2
      <4> QED
        BY <2>1, <2>2, <2>a, <3>2, <4>1
    <3> QED
      BY <3>1, <3>2
  <2>3. ASSUME \A i \in Fills(s)' : n <= i
        PROVE  responses'[n].exec_qty + responses'[n].leaves_qty = order'[s].qty
    <3>1. Fills(s) = {}
      BY <1>1, <1>4, <2>a, <2>3
    <3>2. rest[s] = order[s].qty
      BY <1>1, <1>16, <3>1, HereIs DEF IsRest
    <3> QED
      BY <1>2, <1>4, <1>16, <3>2, <1>1
  <2>4. ASSUME NEW i \in Fills(s)', i < n, \A k \in Fills(s)' : k <= i \/ n <= k
        PROVE  responses'[n].exec_qty + responses'[n].leaves_qty = responses'[i].leaves_qty
    <3>1. i \in Fills(s) /\ i \in Nat
      BY <1>1, <1>4, <2>4, <2>a
    <3>2. \A k \in Fills(s) : k <= i
      BY <1>1, <1>4, <2>4, <2>a
    <3>3. rest[s] = responses[i].leaves_qty
      <4>1. PICK k \in Fills(s) : (\A j \in Fills(s) : j <= k) /\ rest[s] = responses[k].leaves_qty
        BY Zenon, <1>1, <1>16, <3>1 DEF IsRest
      <4>2. k \in Nat /\ k <= i /\ i <= k
        BY Zenon, <1>1, <2>a, <3>1, <3>2, <4>1
      <4>3. k = i
        BY <3>1, <4>2
      <4> QED
        BY <4>1, <4>3
    <3>4. responses'[i] = responses[i]
      BY <1>1, <2>a, <3>1
    <3> QED
      BY <1>1, <1>2, <1>4, <1>16, <3>3, <3>4
  <2>5. \A t \in Side : \A j \in Fills(t)' : j \in Fills(t) \/ (t = s /\ j = n)
    BY <1>4
  <2>6. ASSUME NEW t \in Side, NEW j \in Fills(t)'
        PROVE  /\ (\A i \in Fills(t)' : j <= i) =>
                    responses'[j].exec_qty + responses'[j].leaves_qty = order'[t].qty
               /\ \A i \in Fills(t)' :
                    i < j /\ (\A k \in Fills(t)' : k <= i \/ j <= k) =>
                      responses'[j].exec_qty + responses'[j].leaves_qty = responses'[i].leaves_qty
    <3>1. CASE j \in Fills(t)
      BY <2>2, <2>6, <3>1
    <3>2. CASE t = s /\ j = n
      BY <2>3, <2>4, <3>2
    <3> QED
      BY <2>5, <2>6, <3>1, <3>2
  <2> QED
    BY <2>6, HereIs DEF Chain
<1>18. PICK left2 \in [Side -> Nat] : /\ left2[s] = left
                                      /\ \A t \in Side : t # s => left2[t] = rest[t]
  <2>1. [rest EXCEPT ![s] = left] \in [Side -> Nat]
    BY Zenon, <1>15
  <2> QED
    BY Zenon, <1>1, <2>1
<1>19. Amounts(Here, left2)'
  <2>1. ASSUME NEW t \in Side PROVE IsRest(Here, t, left2[t])' /\ left2[t] <= order'[t].qty
    <3>1. CASE t = s
      <4>a. n \in Fills(t)' /\ left2[t] = responses'[n].leaves_qty
        BY <1>1, <1>2, <1>4, <1>18, <3>1
      <4>b. \A j \in Fills(t)' : j = n \/ (j \in Nat /\ j < n)
        BY <1>4
      <4>1. n \in Fills(t)' /\ (\A j \in Fills(t)' : j <= n) /\ left2[t] = responses'[n].leaves_qty
        BY <1>4, <4>a, <4>b
      <4>2. left2[t] <= order[t].qty
        BY <1>1, <1>2, <1>16, <1>18, <3>1
      <4> QED
        BY <4>1, <4>2 DEF IsRest
    <3>2. CASE t # s
      <4>1. Fills(t)' = Fills(t) /\ \A i \in Fills(t) : responses'[i] = responses[i]
        BY Zenon, <1>4, <3>2
      <4>2. IsRest(Here, t, rest[t]) /\ rest[t] <= order[t].qty /\ left2[t] = rest[t]
        BY <1>16, <1>18, <3>2
      <4> QED
        BY <4>1, <4>2, HereIs DEF IsRest
    <3> QED
      BY <3>1, <3>2
  <2>2. ASSUME NEW t \in Side, NEW i \in Fills(t)' PROVE left2[t] <= responses'[i].leaves_qty
    <3>1. left2[t] \in Nat /\ left2[t] <= rest[t]
      BY <1>1, <1>2, <1>16, <1>18
    <3>2. CASE i \in Fills(t)
      <4>1. responses'[i] = responses[i]
        BY <1>4, <3>2
      <4> QED
        BY <1>16, <3>1, <3>2, <4>1
    <3>3. CASE i \notin Fills(t)
      <4>1. t = s /\ i = n
        BY <1>4, <2>2, <3>3
      <4> QED
        BY <1>2, <1>4, <1>18, <3>1, <4>1
    <3> QED
      BY <3>2, <3>3
  <2>3. ASSUME NEW x \in live' PROVE x.qty = left2[x.side]
    <3>1. CASE x = p
      BY <1>3, <1>18, <3>1
    <3>2. CASE x # p
      <4>1. x \in live /\ x # o
        BY <1>5, <2>3, <3>2
      <4>2. x.side \in Side /\ x.side # s
        BY <1>6, <4>1, LiveIsCurrent
      <4> QED
        BY <1>16, <1>18, <4>1, <4>2
    <3> QED
      BY <3>1, <3>2
  <2>4. executed' = position + (order["BUY"].qty - left2["BUY"]) - (order["SELL"].qty - left2["SELL"])
    <3>1. position \in Int /\ executed \in Int
      BY TypesHold DEF Types
    <3>2. "BUY" \in Side /\ "SELL" \in Side /\ "BUY" # "SELL" /\ (s = "BUY" \/ s = "SELL")
      BY <1>1 DEF Side
    <3>3. CASE s = "BUY"
      <4>1. executed' = executed + q
        BY <1>1, <1>s, <3>1, <3>3 DEF sideToValue, FillOf
      <4>2. left2["BUY"] = rest["BUY"] - q /\ left2["SELL"] = rest["SELL"]
        BY <1>1, <1>2, <1>16, <1>18, <3>2, <3>3
      <4> QED
        BY <1>1, <1>16, <3>1, <3>2, <4>1, <4>2
    <3>4. CASE s = "SELL"
      <4>1. executed' = executed - q
        BY <1>1, <1>s, <3>1, <3>4 DEF sideToValue, FillOf
      <4>2. left2["SELL"] = rest["SELL"] - q /\ left2["BUY"] = rest["BUY"]
        BY <1>1, <1>2, <1>16, <1>18, <3>2, <3>4
      <4> QED
        BY <1>1, <1>16, <3>1, <3>2, <4>1, <4>2
    <3> QED
      BY <3>2, <3>3, <3>4
  <2> QED
    BY <2>1, <2>2, <2>3, <2>4, HereIs DEF Amounts
<1> QED
  BY <1>9, <1>10, <1>11, <1>12, <1>13, <1>14, <1>17, <1>19 DEF IInv, Good

-----------------------------------------------------------------------------
(* The theorems. *)

\* A request at the exchange: accepted, cancelled, or too late to be cancelled.
LEMMA RequestStep == ASSUME IInv, processClientRequest PROVE IInv'
<1>1. requests # <<>> /\ requests' = Tail(requests) /\ UNCHANGED <<order, next_order_id, position, executed>>
  BY DEF processClientRequest
<1>2. PICK r \in Requests : r = Head(requests) /\ (r.type = "NEW" \/ r.type = "CANCEL")
  <2>1. requests \in Seq(Requests)
    BY TypesHold, HereIs DEF States
  <2>2. Head(requests) \in Requests
    BY <1>1, <2>1
  <2> QED
    BY <2>2 DEF Requests
<1>3. CASE r.type = "NEW"
  <2>1. /\ live' = live \cup {[order_id |-> r.order_id, side |-> r.side, qty |-> r.qty]}
        /\ responses' = Append(responses, Response("ACCEPTED", r.order_id, r.side, 0, r.qty))
    BY Zenon, <1>2, <1>3 DEF processClientRequest
  <2> QED
    BY <1>1, <1>2, <1>3, <2>1, AcceptStep
<1>4. CASE r.type = "CANCEL" /\ {x \in live : x.order_id = r.order_id} # {}
  <2> DEFINE known == {x \in live : x.order_id = r.order_id}
             found == CHOOSE x \in known : TRUE
  <2>1. /\ live' = live \ known
        /\ responses' = Append(responses, Response("CANCELED", r.order_id, r.side, 0, found.qty))
    BY Zenon, <1>2, <1>4 DEF processClientRequest
  <2>2. found \in known
    BY <1>4
  <2> HIDE DEF found
  <2>3. found \in live /\ found.order_id = r.order_id /\ found.qty \in Nat
    BY <2>2, TypesHold DEF Types, BookOrders
  <2> QED
    BY Zenon, <1>1, <1>2, <1>4, <2>1, <2>3, CancelStep
<1>5. CASE r.type = "CANCEL" /\ {x \in live : x.order_id = r.order_id} = {}
  <2>1. /\ live' = live
        /\ responses' = Append(responses, Response("CANCEL_REJECTED", r.order_id, "INVALID", 0, 0))
    BY Zenon, <1>2, <1>5 DEF processClientRequest
  <2>2. \A x \in live : x.order_id # r.order_id
    BY <1>5
  <2> QED
    BY <1>1, <1>2, <1>5, <2>1, <2>2, RejectStep
<1> QED
  BY <1>2, <1>3, <1>4, <1>5

\* Nothing is sent, nothing is in the book.
LEMMA OrderManagerInit == ASSUME Init PROVE IInv
<1>1. /\ \A s \in Side : order[s].qty = 0 /\ order[s].order_id = 0 /\ order[s].order_state = "INVALID"
      /\ order \in [Side -> OMOrders] /\ next_order_id = 1
  BY DEF Init, OMOrder, OMOrders, Invalid
<1>2. /\ requests = <<>> /\ DOMAIN requests = {} /\ requests \in Seq(Requests)
      /\ responses = <<>> /\ DOMAIN responses = {} /\ responses \in Seq(Responses)
      /\ live = {} /\ position = 0 /\ executed = 0
  BY DEF Init
<1>3. \A s : About(s) = {} /\ Fills(s) = {} /\ ~InBook(s) /\ ~NewSent(Here, s)
  BY <1>2, HereIs DEF About, Fills, InBook, NewSent
<1>4. Here \in States /\ Types
  BY <1>1, <1>2 DEF Here, States, Types
<1>a. Ids(Here)
  BY <1>1, <1>2, HereIs DEF Ids
<1>5. Current(Here)
  BY <1>2, <1>3, HereIs DEF Current
<1>6. Paths(Here) /\ Places(Here) /\ Chain(Here)
  BY <1>1, <1>2, <1>3, HereIs DEF Paths, Places, Chain
<1>7. "BUY" \in Side /\ "SELL" \in Side
  BY DEF Side
<1>8. Limits(Here)
  BY <1>1, <1>2, <1>7, HereIs, OrderManagerAssumption DEF Limits
<1>9. PICK rest \in [Side -> Nat] : \A s \in Side : rest[s] = 0
  <2>1. [s \in Side |-> 0] \in [Side -> Nat]
    OBVIOUS
  <2> QED
    BY Zenon, <2>1
<1>10. Amounts(Here, rest)
  BY <1>1, <1>2, <1>3, <1>7, <1>9, HereIs DEF Amounts, IsRest
<1> QED
  BY <1>4, <1>a, <1>5, <1>6, <1>8, <1>9, <1>10 DEF IInv, Good

(***************************************************************************)
(* The invariant behind the others: an order is in one place at a time,    *)
(* the fills on the way account for the difference of the two positions,   *)
(* and each slot's quantity is within the risk limit of its side.          *)
(***************************************************************************)
THEOREM OrdersInOnePlace == Spec => []IInv
<1>1. Init => IInv
  BY OrderManagerInit
<1>2. IInv /\ [Next]_vars => IInv'
  <2> SUFFICES ASSUME IInv, [Next]_vars PROVE IInv'
    OBVIOUS
  <2>1. CASE Strategy
    BY <2>1, StrategyStep
  <2>2. CASE onOrderUpdate
    BY <2>2, ResponseStep
  <2>3. CASE processClientRequest
    BY <2>3, RequestStep
  <2>4. CASE fill
    <3>1. PICK o \in live, q \in 1 .. Clip : FillOf(o, q)
      BY <2>4 DEF fill, FillOf
    <3>2. UNCHANGED <<order, next_order_id, position, requests>>
      BY <2>4 DEF fill
    <3> QED
      BY <3>1, <3>2, FillStep
  <2>5. CASE UNCHANGED vars
    <3>1. Here' = Here /\ UNCHANGED <<order, requests, responses, live, position, executed>>
      BY <2>5 DEF vars, Here
    <3>2. PICK st : st = Here
      OBVIOUS
    <3>3. Good(st)
      BY <3>2 DEF IInv
    <3>4. Good(st)'
      BY <3>1, <3>3, GoodKept
    <3>5. Here' = st
      BY <3>1, <3>2
    <3> QED
      BY <3>4, <3>5 DEF IInv
  <2> QED
    BY <2>1, <2>2, <2>3, <2>4, <2>5 DEF Next
<1> QED
  BY <1>1, <1>2, PTL DEF Spec

(***************************************************************************)
(* onOrderUpdate may find the slot by the side of the response alone: a    *)
(* response never meets the successor of the order it is about.            *)
(***************************************************************************)
THEOREM OrderManagerResponsesFit == Spec => []ResponsesFitSlots
<1>1. IInv => ResponsesFitSlots
  <2> SUFFICES ASSUME IInv, NEW i \in DOMAIN responses, responses[i].type # "CANCEL_REJECTED"
               PROVE  responses[i].order_id = order[responses[i].side].order_id
    BY DEF ResponsesFitSlots
  <2>1. responses[i] \in Responses
    BY TypesHold DEF Types
  <2>2. responses[i].side \in Side
    BY <2>1 DEF Responses
  <2>3. i \in About(responses[i].side)
    BY DEF About
  <2> QED
    BY <2>2, <2>3, CurrentHolds, HereIs DEF Current
<1> QED
  BY <1>1, OrdersInOnePlace, PTL

(***************************************************************************)
(* checkPreTradeRisk sees an old position and one side only; neither the   *)
(* trades of the exchange nor the client's position pass max_position_.    *)
(***************************************************************************)
THEOREM OrderManagerWithinRisk == Spec => []PositionWithinRisk
<1>1. IInv => PositionWithinRisk
  <2> SUFFICES ASSUME IInv PROVE PositionWithinRisk
    OBVIOUS
  <2>1. PICK rest \in [Side -> Nat] : Amounts(Here, rest)
    BY AmountsHold
  <2>2. "BUY" \in Side /\ "SELL" \in Side
    BY DEF Side
  <2>3. /\ rest["BUY"] \in Nat /\ rest["BUY"] <= order["BUY"].qty /\ order["BUY"].qty \in Nat
        /\ rest["SELL"] \in Nat /\ rest["SELL"] <= order["SELL"].qty /\ order["SELL"].qty \in Nat
        /\ executed = position + (order["BUY"].qty - rest["BUY"]) - (order["SELL"].qty - rest["SELL"])
    BY <2>1, <2>2, AmountsHold, TypesHold, HereIs DEF Amounts
  <2>4. /\ position + order["BUY"].qty <= MaxPosition /\ position - order["SELL"].qty >= -MaxPosition
        /\ position \in Int /\ executed \in Int /\ MaxPosition \in Nat
    BY LimitsHold, TypesHold, HereIs, OrderManagerAssumption DEF Limits, Types
  <2>5. executed <= MaxPosition /\ executed >= -MaxPosition
    BY <2>3, <2>4
  <2>6. position <= MaxPosition /\ position >= -MaxPosition
    BY <2>3, <2>4
  <2> QED
    BY <2>4, <2>5, <2>6 DEF PositionWithinRisk, Abs
<1> QED
  BY <1>1, OrdersInOnePlace, PTL

(***************************************************************************)
(* With both paths empty the client and the exchange agree on the position *)
(* and on the orders that are open.                                        *)
(***************************************************************************)
THEOREM OrderManagerSettled == Spec => []SettledAgree
<1>1. IInv => SettledAgree
  <2> SUFFICES ASSUME IInv, requests = <<>>, responses = <<>>
               PROVE  /\ position = executed
                      /\ \A s \in Side :
                           order[s].order_state = "LIVE" <=>
                             [order_id |-> order[s].order_id, side |-> s, qty |-> order[s].qty] \in live
    BY DEF SettledAgree
  <2>1. \A s : About(s) = {} /\ Fills(s) = {} /\ ~Ending(s) /\ ~NewSent(Here, s) /\ ~CancelSent(s)
    BY HereIs DEF About, Fills, Ending, NewSent, CancelSent
  <2>2. PICK rest \in [Side -> Nat] : Amounts(Here, rest)
    BY AmountsHold
  <2>3. \A s \in Side : rest[s] = order[s].qty /\ order[s].qty \in Nat
    BY <2>1, <2>2, AmountsHold, HereIs DEF Amounts, IsRest
  <2>4. position = executed
    <3>1. "BUY" \in Side /\ "SELL" \in Side
      BY DEF Side
    <3>2. executed = position + (order["BUY"].qty - rest["BUY"]) - (order["SELL"].qty - rest["SELL"])
      BY <2>2, HereIs DEF Amounts
    <3>3. position \in Int
      BY TypesHold DEF Types
    <3> QED
      BY <2>3, <3>1, <3>2, <3>3
  <2>5. ASSUME NEW s \in Side, order[s].order_state = "LIVE"
        PROVE  [order_id |-> order[s].order_id, side |-> s, qty |-> order[s].qty] \in live
    <3>1. PICK o \in live : o.side = s
      BY <2>1, <2>5, PlacesHold, PlacesIsPlaced DEF Placed, InBook
    <3>2. o.order_id = order[s].order_id /\ o.qty = order[s].qty
      BY <2>2, <2>3, <3>1, AmountsHold, LiveIsCurrent DEF Amounts
    <3>3. o = [order_id |-> o.order_id, side |-> o.side, qty |-> o.qty]
      BY TypesHold DEF Types, BookOrders
    <3> QED
      BY <3>1, <3>2, <3>3
  <2>6. ASSUME NEW s \in Side,
               [order_id |-> order[s].order_id, side |-> s, qty |-> order[s].qty] \in live
        PROVE  order[s].order_state = "LIVE"
    <3>1. InBook(s)
      BY <2>6 DEF InBook
    <3>2. order[s].order_state \in {"INVALID", "PENDING_NEW", "LIVE", "PENDING_CANCEL", "DEAD"}
      BY TypesHold, HereIs DEF States, OMOrders
    <3>3. order[s].order_state \notin {"INVALID", "DEAD"}
      BY <3>1, PathsHold, HereIs DEF Paths
    <3>4. order[s].order_state \notin {"PENDING_NEW", "PENDING_CANCEL"}
      BY Zenon, <2>1, PlacesHold, PlacesIsPlaced DEF Placed
    <3> QED
      BY <3>2, <3>3, <3>4
  <2> QED
    BY <2>4, <2>5, <2>6
<1> QED
  BY <1>1, OrdersInOnePlace, PTL

=============================================================================
