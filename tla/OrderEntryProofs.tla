-------------------------- MODULE OrderEntryProofs --------------------------
(***************************************************************************)
(* The callback of the order server, the initial states, and the three     *)
(* theorems about the way of an order and its responses that follow from   *)
(* the invariant of OrderEntryInvariant.                                   *)
(***************************************************************************)
EXTENDS OrderEntryInvariant

\* A sequence is the function of its places.
LEMMA SeqIsFunction ==
  ASSUME NEW S, NEW s \in Seq(S)
  PROVE  s = [i \in 1 .. Len(s) |-> s[i]]
OBVIOUS

\* The sequencer keeps the part of the requests that fits.
LEMMA Truncated ==
  ASSUME NEW S, NEW p \in Seq(S), NEW m \in Nat
  PROVE  LET t == SubSeq(p, 1, IF Len(p) > m THEN m ELSE Len(p))
         IN  /\ t \in Seq(S) /\ Len(t) <= Len(p) /\ \A i \in 1 .. Len(t) : i \in 1 .. Len(p) /\ t[i] = p[i]
             /\ ~(Len(p) > m) => t = p
<1>1. CASE Len(p) > m
  BY <1>1
<1>2. CASE ~(Len(p) > m)
  <2>1. SubSeq(p, 1, Len(p)) = p
    OBVIOUS
  <2> QED
    BY <1>2, <2>1
<1> QED
  BY <1>1, <1>2

\* The callback on a connection its client is not bound to reads the messages and refuses them.
LEMMA RequestRefused ==
  ASSUME RequestInv, recvCallback, UNCHANGED <<gateway, time>>, ~Bindable(receive_sockets[scan])
  PROVE  RequestInv' /\ cid_tcp_socket' = cid_tcp_socket
<1> DEFINE s == receive_sockets[scan]
           c == s[1]
           n == Len(pending)
<1>1. s \in Sockets /\ c \in Client /\ Made(s) /\ toServer[s] # <<>>
  <2>1. receive_sockets \in Seq(Sockets) /\ scan \in 1 .. Len(receive_sockets)
    BY DEF recvCallback, RequestInv, Connections
  <2> QED
    BY <2>1 DEF recvCallback, RequestInv, Connections, Sockets
<1>2. \A i \in 1 .. Len(toServer[s]) :
        /\ toServer[s][i].socket = s
        /\ Bindable(s) => toServer[s][i].seq_num + 1 = cid_next_exp_seq_num[s[1]] + i
  BY <1>1 DEF RequestInv, Streams
<1>3. Accepted(s) = [socket |-> cid_tcp_socket[c], exp |-> cid_next_exp_seq_num[c], accepted |-> <<>>]
  BY <1>1, <1>2, AcceptedIs DEF RequestInv
<1>4. /\ cid_tcp_socket' = [cid_tcp_socket EXCEPT ![c] = cid_tcp_socket[c]]
      /\ cid_next_exp_seq_num' = [cid_next_exp_seq_num EXCEPT ![c] = cid_next_exp_seq_num[c]]
      /\ addClientRequest(toServer[s][Len(toServer[s])].time, <<>>)
      /\ toServer' = [toServer EXCEPT ![s] = <<>>]
      /\ ~fatal /\ UNCHANGED <<connecting, receive_sockets>>
  BY <1>3 DEF recvCallback
<1>5. UNCHANGED <<cid_tcp_socket, cid_next_exp_seq_num, connecting, receive_sockets, session, next_outgoing_seq_num, time>>
  BY <1>1, <1>4 DEF RequestInv, EntryTypes, gateway
<1>6. toServer' \in [Sockets -> Seq(Message)] /\ toServer'[s] = <<>> /\ \A x \in Sockets : x # s => toServer'[x] = toServer[x]
  BY <1>1, <1>4 DEF RequestInv, EntryTypes
<1>7. pending \in Seq([recv_time : Nat, request : Message]) /\ n \in Nat
  BY DEF RequestInv, EntryTypes
<1>8. pending \o [i \in DOMAIN <<>> |-> [recv_time |-> toServer[s][Len(toServer[s])].time, request |-> <<>>[i]]] = pending
  <2>1. [i \in DOMAIN <<>> |-> [recv_time |-> toServer[s][Len(toServer[s])].time, request |-> <<>>[i]]] = <<>>
    OBVIOUS
  <2> QED
    BY <1>7, <2>1
<1>9. /\ pending' = SubSeq(pending, 1, IF n > MaxPending THEN MaxPending ELSE n)
      /\ fatal' = (n > MaxPending) /\ UNCHANGED <<incoming, overfull>>
  BY <1>4, <1>8, Zenon DEF addClientRequest
<1> HIDE DEF s, n
<1> DEFINE k == Len(pending')
           P == [recv_time : Nat, request : Message]
<1>10. pending \in Seq(P) /\ MaxPending \in Nat
  BY <1>7, OrderEntryAssumption
<1>11. /\ pending' \in Seq(P) /\ k <= n /\ (\A i \in 1 .. k : i \in 1 .. n /\ pending'[i] = pending[i])
       /\ ~fatal' => pending' = pending
  <2> HIDE DEF P
  <2> QED
    BY <1>9, <1>10, Truncated, Zenon DEF n
<1>12. k \in Nat /\ (~fatal' => pending' = pending)
  <2> HIDE DEF P
  <2> QED
    BY <1>11
<1>13. EntryTypes'
  <2>1. fatal' \in BOOLEAN /\ overfull' \in BOOLEAN /\ incoming' \in Seq(Message)
    BY <1>9 DEF RequestInv, EntryTypes
  <2> QED
    BY <1>5, <1>6, <1>11, <2>1, Zenon DEF RequestInv, EntryTypes, Sockets, NoSocket, Message
<1>14. Connections'
  BY <1>5 DEF RequestInv, Connections, Made, Sockets, NoSocket
<1>15. Streams'
  <2> SUFFICES ASSUME NEW x \in Sockets
               PROVE  /\ ~Made(x) => toServer'[x] = <<>>
                      /\ \A i \in 1 .. Len(toServer'[x]) :
                           /\ toServer'[x][i].client = x[1] /\ toServer'[x][i].socket = x
                           /\ toServer'[x][i].time <= time
                           /\ Bindable(x) => toServer'[x][i].seq_num + 1 = cid_next_exp_seq_num[x[1]] + i
                      /\ \A i, j \in 1 .. Len(toServer'[x]) : i <= j => toServer'[x][i].time <= toServer'[x][j].time
                      /\ Bindable(x) /\ x = Socket(x[1]) =>
                           next_outgoing_seq_num[x[1]] = cid_next_exp_seq_num[x[1]] + Len(toServer'[x])
    BY <1>5 DEF Streams, Made, Bindable, Socket, Sockets, NoSocket
  <2>1. CASE x = s
    <3>1. ~Bindable(x) /\ toServer'[x] = <<>> /\ Len(toServer'[x]) = 0
      BY <1>6, <2>1 DEF s
    <3> QED
      BY <3>1
  <2>2. CASE x # s
    <3>1. toServer'[x] = toServer[x]
      BY <1>6, <2>2
    <3> QED
      BY <3>1 DEF RequestInv, Streams
  <2> QED
    BY <2>1, <2>2
<1>16. Bound'
  BY <1>5, <1>9, <1>11 DEF RequestInv, Bound, n
<1>17. Numbers'
  <2> SUFFICES ASSUME ~fatal' PROVE Numbers'
    BY DEF Numbers
  <2>1. ~fatal /\ UNCHANGED <<pending, incoming, cid_next_exp_seq_num>>
    BY <1>4, <1>5, <1>9, <1>12
  <2> QED
    BY <2>1 DEF RequestInv, Numbers
<1>18. Times'
  <2> SUFFICES ASSUME NEW i \in 1 .. k
               PROVE  /\ pending[i].recv_time <= time
                      /\ \A j \in i .. k :
                           pending[j].request.client = pending[i].request.client => pending[i].recv_time <= pending[j].recv_time
                      /\ \A j \in 1 .. Len(toServer'[pending[i].request.socket]) :
                           pending[i].recv_time <= toServer'[pending[i].request.socket][j].time
    <3>1. \A i \in 1 .. k : \A j \in i .. k : j \in 1 .. k
      BY <1>12
    <3> QED
      BY <1>5, <1>11, <3>1, Zenon DEF Times
  <2>1. i \in 1 .. n /\ \A j \in i .. k : j \in i .. n
    BY <1>7, <1>11, <1>12
  <2>2. /\ pending[i].recv_time <= time
        /\ \A j \in i .. n :
             pending[j].request.client = pending[i].request.client => pending[i].recv_time <= pending[j].recv_time
        /\ \A j \in 1 .. Len(toServer[pending[i].request.socket]) :
             pending[i].recv_time <= toServer[pending[i].request.socket][j].time
    BY <2>1 DEF RequestInv, Times, n
  <2>3. pending[i].request.socket \in Sockets
    BY <2>1, PendingTypes DEF RequestInv, n
  <2>4. toServer'[pending[i].request.socket] \in {<<>>, toServer[pending[i].request.socket]}
    BY <1>6, <2>3
  <2> QED
    BY <2>1, <2>2, <2>4
<1>19. RequestsInOrder'
  BY <1>9 DEF RequestInv, RequestsInOrder
<1> QED
  BY <1>5, <1>13, <1>14, <1>15, <1>16, <1>17, <1>18, <1>19 DEF RequestInv

\* The callback on the connection its client is bound to, or binds it: every message is taken.
LEMMA RequestTaken ==
  ASSUME RequestInv, recvCallback, UNCHANGED <<gateway, time>>, Bindable(receive_sockets[scan])
  PROVE  /\ RequestInv'
         /\ cid_tcp_socket' = [cid_tcp_socket EXCEPT ![receive_sockets[scan][1]] = receive_sockets[scan]]
         /\ Made(receive_sockets[scan])
<1> DEFINE s == receive_sockets[scan]
           c == s[1]
           e == cid_next_exp_seq_num[c]
           ms == toServer[s]
           L == Len(ms)
           n == Len(pending)
           rx == ms[L].time
           new == [i \in DOMAIN ms |-> [recv_time |-> rx, request |-> ms[i]]]
           added == pending \o new
           P == [recv_time : Nat, request : Message]
<1>1. s \in Sockets /\ c \in Client /\ Made(s) /\ ms # <<>>
  <2>1. receive_sockets \in Seq(Sockets) /\ scan \in 1 .. Len(receive_sockets)
    BY DEF recvCallback, RequestInv, Connections
  <2> QED
    BY <2>1 DEF recvCallback, RequestInv, Connections, Sockets
<1>2. \A i \in 1 .. L :
        /\ ms[i].client = c /\ ms[i].socket = s /\ ms[i].time <= time /\ ms[i].seq_num + 1 = e + i
  BY <1>1 DEF RequestInv, Streams
<1>3. Accepted(s) = [socket |-> s, exp |-> e + L, accepted |-> ms]
  BY <1>1, <1>2, AcceptedIs DEF RequestInv
<1>4. /\ cid_tcp_socket' = [cid_tcp_socket EXCEPT ![c] = s]
      /\ cid_next_exp_seq_num' = [cid_next_exp_seq_num EXCEPT ![c] = e + L]
      /\ addClientRequest(rx, ms)
      /\ toServer' = [toServer EXCEPT ![s] = <<>>]
      /\ ~fatal /\ UNCHANGED <<connecting, receive_sockets>>
  BY <1>3 DEF recvCallback
<1>5. UNCHANGED <<connecting, receive_sockets, session, next_outgoing_seq_num, time>>
  BY <1>4 DEF gateway
<1>6. toServer' \in [Sockets -> Seq(Message)] /\ toServer'[s] = <<>> /\ \A x \in Sockets : x # s => toServer'[x] = toServer[x]
  BY <1>1, <1>4 DEF RequestInv, EntryTypes
<1>7. pending \in Seq(P) /\ n \in Nat /\ ms \in Seq(Message) /\ L \in Nat /\ L # 0 /\ e \in Nat
  BY <1>1 DEF RequestInv, EntryTypes
<1>8. rx = ms[L].time /\ rx \in Nat /\ \A i \in 1 .. L : ms[i] \in Message /\ ms[i].time <= rx
  <2>1. \A i \in 1 .. L : ms[i] \in Message
    BY <1>7
  <2>2. \A i, j \in 1 .. L : i <= j => ms[i].time <= ms[j].time
    BY <1>1 DEF RequestInv, Streams
  <2> HIDE DEF ms
  <2>3. L \in 1 .. L /\ \A i \in 1 .. L : i <= L
    BY <1>7
  <2> QED
    BY <1>7, <2>1, <2>2, <2>3 DEF Message
<1>9. new \in Seq(P) /\ Len(new) = L /\ \A i \in 1 .. L : new[i] = [recv_time |-> rx, request |-> ms[i]]
  <2> HIDE DEF ms, rx
  <2>1. DOMAIN ms = 1 .. L
    BY <1>7
  <2> QED
    BY <1>7, <1>8, <2>1
<1>10. /\ pending' = SubSeq(added, 1, IF Len(added) > MaxPending THEN MaxPending ELSE Len(added))
       /\ fatal' = (Len(added) > MaxPending) /\ UNCHANGED <<incoming, overfull>>
  BY <1>4 DEF addClientRequest
<1> HIDE DEF s, c, e, ms, L, n, rx, new, P
<1>11. /\ added \in Seq(P) /\ Len(added) = n + L
       /\ \A i \in 1 .. n : added[i] = pending[i]
       /\ \A i \in 1 .. L : added[n + i] = new[i]
       /\ \A i \in 1 .. n + L : i \in 1 .. n \/ \E k \in 1 .. L : i = n + k
  <2>1. /\ added \in Seq(P) /\ Len(added) = Len(pending) + Len(new)
        /\ \A i \in 1 .. Len(pending) : added[i] = pending[i]
        /\ \A i \in 1 .. Len(new) : added[Len(pending) + i] = new[i]
    <3>1. pending \in Seq(P) /\ new \in Seq(P)
      BY <1>7, <1>9
    <3> QED
      BY <3>1
  <2>2. \A i \in 1 .. n + L : i \in 1 .. n \/ \E k \in 1 .. L : i = n + k
    BY <1>7, SplitIndex
  <2> HIDE DEF added
  <2> QED
    BY <1>9, <2>1, <2>2 DEF n
<1> HIDE DEF added
<1> DEFINE k == Len(pending')
<1>12. MaxPending \in Nat
  BY OrderEntryAssumption
<1>13. /\ pending' \in Seq(P) /\ k <= n + L
       /\ \A i \in 1 .. k : i \in 1 .. n + L /\ pending'[i] = added[i]
       /\ ~fatal' => pending' = added
  BY <1>10, <1>11, <1>12, Truncated, Zenon
<1>14. k \in Nat
  BY <1>13
<1>15. /\ cid_tcp_socket' \in [Client -> Sockets \cup {NoSocket}] /\ cid_tcp_socket'[c] = s
       /\ \A d \in Client : d # c => cid_tcp_socket'[d] = cid_tcp_socket[d]
       /\ cid_next_exp_seq_num' \in [Client -> Nat] /\ cid_next_exp_seq_num'[c] = e + L
       /\ \A d \in Client : d # c => cid_next_exp_seq_num'[d] = cid_next_exp_seq_num[d]
  BY <1>1, <1>4, <1>7 DEF RequestInv, EntryTypes
<1>16. s # NoSocket /\ s[1] = c
  BY <1>1, NoSocketIsNone DEF c
<1>17. EntryTypes'
  <2>1. fatal' \in BOOLEAN /\ overfull' \in BOOLEAN /\ incoming' \in Seq(Message)
    BY <1>10 DEF RequestInv, EntryTypes
  <2> QED
    BY <1>5, <1>6, <1>13, <1>15, <2>1, Zenon DEF RequestInv, EntryTypes, Sockets, NoSocket, Message, P
<1>18. Connections'
  <2>1. ASSUME NEW d \in Client
        PROVE  IF cid_tcp_socket'[d] = NoSocket THEN cid_next_exp_seq_num'[d] = 1
               ELSE cid_tcp_socket'[d][1] = d /\ Made(cid_tcp_socket'[d])
    BY <1>1, <1>15, <1>16 DEF RequestInv, Connections
  <2> QED
    BY <1>5, <2>1 DEF RequestInv, Connections, Made, Sockets, NoSocket
<1>19. Streams'
  <2> SUFFICES ASSUME NEW x \in Sockets
               PROVE  /\ ~Made(x) => toServer'[x] = <<>>
                      /\ \A i \in 1 .. Len(toServer'[x]) :
                           /\ toServer'[x][i].client = x[1] /\ toServer'[x][i].socket = x
                           /\ toServer'[x][i].time <= time
                           /\ cid_tcp_socket'[x[1]] \in {NoSocket, x} =>
                                toServer'[x][i].seq_num + 1 = cid_next_exp_seq_num'[x[1]] + i
                      /\ \A i, j \in 1 .. Len(toServer'[x]) : i <= j => toServer'[x][i].time <= toServer'[x][j].time
                      /\ cid_tcp_socket'[x[1]] \in {NoSocket, x} /\ x = Socket(x[1]) =>
                           next_outgoing_seq_num[x[1]] = cid_next_exp_seq_num'[x[1]] + Len(toServer'[x])
    BY <1>5 DEF Streams, Made, Bindable, Socket, Sockets, NoSocket
  <2>0. x[1] \in Client
    BY DEF Sockets
  <2>1. CASE x = s
    <3>1. toServer'[x] = <<>> /\ Len(toServer'[x]) = 0 /\ x[1] = c
      BY <1>6, <1>16, <2>1
    <3>2. s = Socket(c) => next_outgoing_seq_num[c] = e + L
      BY <1>1, <1>16 DEF RequestInv, Streams, e, L, ms, s
    <3> QED
      BY <1>7, <1>15, <2>1, <3>1, <3>2
  <2>2. CASE x # s
    <3>1. toServer'[x] = toServer[x]
      BY <1>6, <2>2
    <3>2. CASE x[1] = c
      <4>1. ~(cid_tcp_socket'[x[1]] \in {NoSocket, x})
        BY <1>15, <1>16, <2>2, <3>2
      <4> QED
        BY <3>1, <4>1 DEF RequestInv, Streams
    <3>3. CASE x[1] # c
      <4>1. cid_tcp_socket'[x[1]] = cid_tcp_socket[x[1]] /\ cid_next_exp_seq_num'[x[1]] = cid_next_exp_seq_num[x[1]]
        BY <1>15, <2>0, <3>3
      <4> QED
        BY <3>1, <4>1 DEF RequestInv, Streams, Bindable
    <3> QED
      BY <3>2, <3>3
  <2> QED
    BY <2>1, <2>2
<1>20. ASSUME NEW d \in Client, cid_tcp_socket[d] \in Sockets PROVE cid_tcp_socket'[d] = cid_tcp_socket[d]
  <2>1. cid_tcp_socket[c] \in {NoSocket, s}
    BY DEF Bindable, c, s
  <2> QED
    BY <1>15, <1>20, <2>1, NoSocketIsNone
<1>21. ASSUME NEW i \in 1 .. n
       PROVE  /\ pending[i].request.client \in Client
              /\ pending[i].request.socket = cid_tcp_socket'[pending[i].request.client]
  <2>1. pending[i].request.client \in Client /\ pending[i].request.socket \in Sockets
    BY PendingTypes DEF RequestInv, n
  <2>2. pending[i].request.socket = cid_tcp_socket[pending[i].request.client]
    BY DEF RequestInv, Bound, n
  <2> QED
    BY <1>20, <2>1, <2>2
<1>22. Bound'
  <2>1. ASSUME NEW i \in 1 .. Len(incoming) PROVE incoming[i].socket = cid_tcp_socket'[incoming[i].client]
    <3>1. incoming[i].client \in Client /\ incoming[i].socket \in Sockets
      BY PendingTypes DEF RequestInv
    <3>2. incoming[i].socket = cid_tcp_socket[incoming[i].client]
      BY DEF RequestInv, Bound
    <3> QED
      BY <1>20, <3>1, <3>2
  <2>2. ASSUME NEW i \in 1 .. k PROVE pending'[i].request.socket = cid_tcp_socket'[pending'[i].request.client]
    <3>1. pending'[i] = added[i] /\ i \in 1 .. n + L
      BY <1>13
    <3>2. CASE i \in 1 .. n
      BY <1>11, <1>21, <3>1, <3>2
    <3>3. ASSUME NEW j \in 1 .. L, i = n + j PROVE pending'[i].request.socket = cid_tcp_socket'[pending'[i].request.client]
      <4>1. pending'[i].request = ms[j]
        BY <1>9, <1>11, <3>1, <3>3
      <4> QED
        BY <1>2, <1>15, <4>1
    <3> QED
      BY <1>11, <3>1, <3>2, <3>3
  <2> QED
    BY <1>10, <1>13, <2>1, <2>2, Zenon DEF Bound
<1>23. ASSUME ~fatal' PROVE Numbers'
  <2> DEFINE t == Requests(pending)
             I(d) == Count(incoming, d, Len(incoming))
  <2>1. pending' = added /\ Len(pending') = n + L /\ UNCHANGED incoming
    BY <1>10, <1>11, <1>13, <1>23
  <2>2. t \in Seq(Message) /\ Len(t) = n /\ \A i \in 1 .. n : t[i] = pending[i].request
    <3>1. DOMAIN pending = 1 .. n /\ \A i \in 1 .. n : pending[i].request \in Message
      BY <1>7, PendingTypes DEF RequestInv, n
    <3> QED
      BY <1>7, <3>1 DEF Requests
  <2>3. Requests(added) = t \o ms
    <3> HIDE DEF t
    <3>0. /\ t \o ms \in Seq(Message) /\ Len(t \o ms) = Len(t) + Len(ms)
          /\ \A j \in 1 .. Len(t) : (t \o ms)[j] = t[j]
          /\ \A j \in 1 .. Len(ms) : (t \o ms)[Len(t) + j] = ms[j]
      <4>1. t \in Seq(Message) /\ ms \in Seq(Message)
        BY <1>7, <2>2
      <4> QED
        BY <4>1
    <3>1. DOMAIN added = 1 .. n + L /\ DOMAIN (t \o ms) = 1 .. n + L
      <4>1. Len(t \o ms) = n + L
        BY <2>2, <3>0 DEF L
      <4> QED
        BY <1>11, <3>0, <4>1
    <3>2. ASSUME NEW i \in 1 .. n + L PROVE added[i].request = (t \o ms)[i]
      <4>1. /\ \A j \in 1 .. n : (t \o ms)[j] = t[j]
            /\ \A j \in 1 .. L : (t \o ms)[n + j] = ms[j]
        BY <2>2, <3>0 DEF L
      <4>2. CASE i \in 1 .. n
        BY <1>11, <2>2, <4>1, <4>2
      <4>3. ASSUME NEW j \in 1 .. L, i = n + j PROVE added[i].request = (t \o ms)[i]
        <5>1. added[i] = new[j] /\ (t \o ms)[i] = ms[j]
          BY <1>11, <4>1, <4>3, Zenon
        <5>2. new[j].request = ms[j]
          BY <1>9
        <5> QED
          BY <5>1, <5>2
      <4> QED
        BY <1>11, <4>2, <4>3, ZenonT(30)
    <3>3. t \o ms = [i \in 1 .. n + L |-> (t \o ms)[i]]
      <4>1. t \o ms = [i \in 1 .. Len(t \o ms) |-> (t \o ms)[i]] /\ Len(t \o ms) = n + L
        BY <2>2, <3>0, SeqIsFunction, Zenon DEF L
      <4> QED
        BY <4>1, Zenon
    <3> QED
      BY <3>1, <3>2, <3>3, Zenon DEF Requests
  <2> HIDE DEF t
  <2>4. ASSUME NEW d
        PROVE  /\ \A j \in 0 .. n : Count(t \o ms, d, j) = Count(t, d, j)
               /\ \A j \in 0 .. L : Count(t \o ms, d, n + j) = Count(t, d, n) + Count(ms, d, j)
    <3>1. t \in Seq(Message) /\ ms \in Seq(Message) /\ Len(t) = n /\ Len(ms) = L
      BY <1>7, <2>2 DEF L
    <3>2. /\ \A j \in 0 .. Len(t) : Count(t \o ms, d, j) = Count(t, d, j)
          /\ \A j \in 0 .. Len(ms) : Count(t \o ms, d, Len(t) + j) = Count(t, d, Len(t)) + Count(ms, d, j)
      <4>1. t \in Seq(Message) /\ ms \in Seq(Message)
        BY <3>1
      <4>2. \A j \in 0 .. Len(t) : Count(t \o ms, d, j) = Count(t, d, j)
        <5> TAKE j \in 0 .. Len(t)
        <5>1. j \in Nat /\ \A i \in 1 .. j : (t \o ms)[i].client = t[i].client
          BY <4>1
        <5> QED
          BY <5>1, CountSame, ZenonT(30)
      <4>3. \A j \in 0 .. Len(ms) : Count(t \o ms, d, Len(t) + j) = Count(t, d, Len(t)) + Count(ms, d, j)
        BY <4>1, CountConcat
      <4> QED
        BY <4>2, <4>3
    <3> QED
      BY <3>1, <3>2, Zenon
  <2>5. \A j \in 0 .. L : Count(ms, c, j) = j /\ \A d : d # c => Count(ms, d, j) = 0
    <3> TAKE j \in 0 .. L
    <3>1. j \in Nat /\ \A i \in 1 .. j : ms[i].client = c
      BY <1>2, <1>7
    <3> QED
      BY <3>1, CountOne
  <2>6. \A d, j : j \in Nat => Count(t, d, j) \in Nat /\ I(d) \in Nat
    <3>1. Len(incoming) \in Nat
      BY DEF RequestInv, EntryTypes
    <3> QED
      BY <3>1, CountNext
  <2>7. \A d \in Client : cid_next_exp_seq_num[d] = 1 + I(d) + Count(t, d, n)
    BY <1>4 DEF RequestInv, Numbers, n, t
  <2>8. e = 1 + I(c) + Count(t, c, n)
    BY <1>1, <2>7 DEF e
  <2> HIDE DEF I
  <2>9. ASSUME NEW d \in Client PROVE cid_next_exp_seq_num'[d] = 1 + I(d) + Count(t \o ms, d, n + L)
    <3>1. Count(t \o ms, d, n + L) = Count(t, d, n) + Count(ms, d, L) /\ L \in 0 .. L
      BY <1>7, <2>4
    <3>2. CASE d = c
      BY <1>7, <1>15, <2>5, <2>6, <2>8, <3>1, <3>2
    <3>3. CASE d # c
      <4>1. Count(ms, d, L) = 0 /\ Count(t, d, n) \in Nat
        BY <1>7, <2>5, <2>6, <3>1, <3>3
      <4> QED
        BY <1>15, <2>7, <3>1, <3>3, <4>1
    <3> QED
      BY <3>2, <3>3
  <2>10. ASSUME NEW i \in 1 .. n + L
         PROVE  added[i].request.seq_num = I(added[i].request.client) + Count(t \o ms, added[i].request.client, i)
    <3>1. CASE i \in 1 .. n
      <4>1. added[i] = pending[i] /\ i \in 0 .. n
        BY <1>7, <1>11, <3>1
      <4>2. pending[i].request.seq_num = I(pending[i].request.client) + Count(t, pending[i].request.client, i)
        BY <1>4, <3>1 DEF RequestInv, Numbers, n, t, I
      <4> QED
        BY <2>4, <4>1, <4>2, Zenon
    <3>2. ASSUME NEW j \in 1 .. L, i = n + j
          PROVE  added[i].request.seq_num = I(added[i].request.client) + Count(t \o ms, added[i].request.client, i)
      <4>1. added[i].request = ms[j] /\ ms[j].client = c /\ ms[j].seq_num + 1 = e + j /\ j \in 0 .. L
        BY <1>2, <1>7, <1>9, <1>11, <3>2
      <4>2. ms[j].seq_num \in Nat
        BY <1>8 DEF Message
      <4>3. Count(t \o ms, c, i) = Count(t, c, n) + j
        BY <2>4, <2>5, <3>2, <4>1
      <4>4. I(c) \in Nat /\ Count(t, c, n) \in Nat
        BY <1>7, <2>6
      <4>5. ms[j].seq_num = I(c) + (Count(t, c, n) + j)
        <5>1. ASSUME NEW x \in Nat, NEW y \in Nat, NEW z \in Nat, x + 1 = (1 + y + z) + j PROVE x = y + (z + j)
          BY <5>1
        <5>2. ms[j].seq_num + 1 = (1 + I(c) + Count(t, c, n)) + j
          BY <2>8, <4>1
        <5> QED
          BY <4>2, <4>4, <5>1, <5>2
      <4> QED
        BY <4>1, <4>3, <4>5
    <3> QED
      BY <1>11, <3>1, <3>2
  <2> QED
    BY <2>1, <2>3, <2>9, <2>10 DEF Numbers, I
<1>24. Times'
  <2>1. ASSUME NEW i \in 1 .. n + L
        PROVE  /\ added[i].recv_time <= time
               /\ \A j \in i .. n + L :
                    added[j].request.client = added[i].request.client => added[i].recv_time <= added[j].recv_time
               /\ \A j \in 1 .. Len(toServer'[added[i].request.socket]) :
                    added[i].recv_time <= toServer'[added[i].request.socket][j].time
    <3>1. CASE i \in 1 .. n
      <4> DEFINE r == pending[i].request
      <4>1. added[i] = pending[i]
        BY <1>11, <3>1
      <4>2. r.client \in Client /\ r.socket \in Sockets /\ pending[i].recv_time \in Nat
        BY <3>1, PendingTypes DEF RequestInv, n
      <4>3. /\ pending[i].recv_time <= time
            /\ \A j \in i .. n :
                 pending[j].request.client = r.client => pending[i].recv_time <= pending[j].recv_time
            /\ \A j \in 1 .. Len(toServer[r.socket]) : pending[i].recv_time <= toServer[r.socket][j].time
        BY <3>1 DEF RequestInv, Times, n
      <4>4. toServer'[r.socket] \in {<<>>, toServer[r.socket]}
        BY <1>6, <4>2
      <4>5. ASSUME NEW j \in i .. n + L, added[j].request.client = r.client PROVE pending[i].recv_time <= added[j].recv_time
        <5>0. j \in 1 .. n + L
          BY <1>7, <3>1
        <5>1. CASE j \in 1 .. n
          <6>1. j \in i .. n /\ added[j] = pending[j]
            BY <1>11, <5>1
          <6> QED
            BY <4>3, <4>5, <6>1
        <5>2. ASSUME NEW a \in 1 .. L, j = n + a PROVE pending[i].recv_time <= added[j].recv_time
          <6>1. added[j].request = ms[a] /\ added[j].recv_time = rx /\ ms[a].client = c
            BY <1>2, <1>9, <1>11, <5>2
          <6>2. r.socket = s
            BY <1>15, <1>21, <3>1, <4>5, <6>1
          <6>3. L \in 1 .. Len(toServer[r.socket]) /\ toServer[r.socket][L].time = rx
            BY <1>7, <1>8, <6>2 DEF ms, L
          <6> QED
            BY <4>3, <6>1, <6>3
        <5> QED
          BY <1>11, <5>0, <5>1, <5>2
      <4> QED
        BY <4>1, <4>3, <4>4, <4>5
    <3>2. ASSUME NEW a \in 1 .. L, i = n + a
          PROVE  /\ added[i].recv_time <= time
                 /\ \A j \in i .. n + L :
                      added[j].request.client = added[i].request.client => added[i].recv_time <= added[j].recv_time
                 /\ \A j \in 1 .. Len(toServer'[added[i].request.socket]) :
                      added[i].recv_time <= toServer'[added[i].request.socket][j].time
      <4>1. added[i].request = ms[a] /\ added[i].recv_time = rx /\ ms[a].socket = s
        BY <1>2, <1>9, <1>11, <3>2
      <4>2. L \in 1 .. L /\ ms[L].time <= time
        BY <1>2, <1>7
      <4>3. ASSUME NEW j \in i .. n + L PROVE added[j].recv_time = rx
        <5>1. j - n \in 1 .. L /\ j = n + (j - n)
          BY <1>7, <3>2
        <5> QED
          BY <1>9, <1>11, <5>1
      <4> QED
        BY <1>6, <1>8, <4>1, <4>2, <4>3
    <3> QED
      BY <1>11, <3>1, <3>2
  <2>2. \A i \in 1 .. k : \A j \in i .. k : j \in 1 .. k /\ j \in i .. n + L
    BY <1>7, <1>13, <1>14
  <2> QED
    BY <1>5, <1>13, <2>1, <2>2 DEF Times
<1>25. RequestsInOrder'
  BY <1>10 DEF RequestInv, RequestsInOrder
<1>26. Numbers'
  BY <1>23 DEF Numbers
<1> QED
  BY <1>1, <1>4, <1>17, <1>18, <1>19, <1>22, <1>24, <1>25, <1>26 DEF RequestInv, s, c

\* The invariant of the requests holds before the first step.
LEMMA RequestInit ==
  ASSUME Init
  PROVE  RequestInv
<1> USE DEF Init, SInit, QInit
<1>1. MaxSessions \in Nat /\ 1 <= MaxSessions /\ IsFiniteSet(Client)
  BY OrderEntryAssumption
<1>2. EntryTypes
  <2>1. session \in [Client -> 1 .. MaxSessions] /\ next_outgoing_seq_num \in [Client -> Nat]
        /\ cid_next_exp_seq_num \in [Client -> Nat] /\ time \in Nat /\ fatal \in BOOLEAN /\ overfull \in BOOLEAN
    <3>1. session = [c \in Client |-> 1] /\ next_outgoing_seq_num = [c \in Client |-> 1]
          /\ cid_next_exp_seq_num = [c \in Client |-> 1] /\ time = 0 /\ fatal = FALSE /\ overfull = FALSE
      BY Zenon
    <3>2. 1 \in 1 .. MaxSessions
      BY <1>1
    <3>3. session \in [Client -> 1 .. MaxSessions] /\ next_outgoing_seq_num \in [Client -> Nat] /\ cid_next_exp_seq_num \in [Client -> Nat]
      BY <3>1, <3>2
    <3>4. time \in Nat
      BY <3>1
    <3>5. fatal \in BOOLEAN /\ overfull \in BOOLEAN
      BY <3>1, Zenon
    <3> QED
      BY <3>3, <3>4, <3>5, Zenon
  <2>2. pending \in Seq([recv_time : Nat, request : Message]) /\ incoming \in Seq(Message)
    OBVIOUS
  <2>3. toServer \in [Sockets -> Seq(Message)]
    OBVIOUS
  <2>4. cid_tcp_socket \in [Client -> Sockets \cup {NoSocket}]
    OBVIOUS
  <2> QED
    BY <2>1, <2>2, <2>3, <2>4, Zenon DEF EntryTypes
<1>3. Connections
  <2> DEFINE A == Client \X {1}
  <2>3. Cardinality(Client) \in Nat
    BY <1>1, FS_CardinalityType
  <2>4. connecting \in [1 .. Cardinality(Client) -> A]
    BY DEF Bijection, Injection
  <2>5. A \subseteq Sockets /\ \A s \in A : Made(s)
    BY <1>1 DEF Sockets, Made
  <2> HIDE DEF A
  <2>6. connecting \in Seq(Sockets) /\ \A i \in 1 .. Len(connecting) : connecting[i] \in A
    BY <2>3, <2>4, <2>5
  <2>7. \A i \in 1 .. Len(connecting) : Made(connecting[i])
    BY <2>5, <2>6
  <2> QED
    BY <2>6, <2>7 DEF Connections
<1>4. Streams
  <2>1. \A s \in Sockets : toServer[s] = <<>> /\ Len(toServer[s]) = 0 /\ s[1] \in Client
    BY DEF Sockets
  <2> QED
    BY <2>1 DEF Streams
<1>5. Bound /\ Times
  BY DEF Bound, Times
<1>6. Numbers
  <2>1. \A c : Count(incoming, c, 0) = 0 /\ Count(Requests(pending), c, 0) = 0
    BY CountNext
  <2>2. Len(incoming) = 0 /\ Len(pending) = 0
    OBVIOUS
  <2> QED
    BY <2>1, <2>2 DEF Numbers
<1>7. RequestsInOrder
  <2>1. DOMAIN incoming = {}
    OBVIOUS
  <2> QED
    BY <2>1 DEF RequestsInOrder
<1> QED
  BY <1>2, <1>3, <1>4, <1>5, <1>6, <1>7 DEF RequestInv

\* Every step keeps it.
LEMMA RequestStep ==
  ASSUME RequestInv, [Next]_vars
  PROVE  RequestInv'
<1>1. CASE poll /\ UNCHANGED <<gateway, time>>
  BY <1>1, RequestPoll
<1>2. CASE recvCallback /\ UNCHANGED <<gateway, time>>
  BY <1>2, RequestTaken, RequestRefused
<1>3. CASE drained /\ UNCHANGED <<gateway, time>>
  BY <1>3, RequestSame DEF drained, gateway, sequencer, requestVars
<1>4. CASE finishPass(Open) /\ UNCHANGED <<gateway, time>>
  BY <1>4, RequestFinish
<1>5. CASE processClientRequest /\ UNCHANGED <<gateway, time>>
  BY <1>5, RequestSame DEF processClientRequest, gateway, sequencer, server, requestVars
<1>6. ASSUME NEW c \in Client, gatewaySend(c) PROVE RequestInv'
  BY <1>6, RequestSend
<1>7. ASSUME NEW c \in Client, gatewayRecv(c) PROVE RequestInv'
  BY <1>7, RequestSame DEF gatewayRecv, sequencer, server, requestVars
<1>8. ASSUME NEW c \in Client, restart(c) PROVE RequestInv'
  BY <1>8, RequestRestart
<1>9. CASE tick
  BY <1>9, RequestTick
<1>10. CASE UNCHANGED vars
  BY <1>10, RequestSame DEF vars, gateway, exchange, sequencer, server, requestVars
<1> QED
  BY <1>1, <1>2, <1>3, <1>4, <1>5, <1>6, <1>7, <1>8, <1>9, <1>10 DEF Next, ServerStep

-----------------------------------------------------------------------------
responseVars ==
  <<toClient, cid_next_outgoing_seq_num, next_exp_seq_num, session, cid_tcp_socket, outgoing_responses, answered, ignored>>

\* A step that leaves the responses alone keeps their invariant.
LEMMA ResponseSame ==
  ASSUME ResponseInv, UNCHANGED responseVars
  PROVE  ResponseInv'
<1>1. Deliverable(toClient, cid_next_outgoing_seq_num)'
  BY ZenonT(30) DEF ResponseInv, responseVars, Deliverable, Made, Socket, Sockets, NoSocket, Response
<1> QED
  BY <1>1 DEF ResponseInv, responseVars, Response, NoSocket

\* Binding a client to the connection of its first request keeps the numbers of its responses.
LEMMA ResponseBind ==
  ASSUME RequestInv, ResponseInv, recvCallback, UNCHANGED <<gateway, time>>
  PROVE  ResponseInv'
<1> DEFINE s == receive_sockets[scan]
           c == s[1]
<1>1. UNCHANGED <<toClient, cid_next_outgoing_seq_num, next_exp_seq_num, session, outgoing_responses, answered, ignored>>
  BY DEF recvCallback, gateway
<1>2. CASE UNCHANGED cid_tcp_socket
  BY <1>1, <1>2, ResponseSame DEF responseVars
<1>3. CASE ~UNCHANGED cid_tcp_socket
  <2>1. Bindable(s) /\ cid_tcp_socket' = [cid_tcp_socket EXCEPT ![c] = s] /\ Made(s)
    BY <1>3, RequestTaken, RequestRefused
  <2>2. s \in Sockets /\ c \in Client /\ cid_tcp_socket \in [Client -> Sockets \cup {NoSocket}]
    BY <2>1 DEF Made, Sockets, RequestInv, EntryTypes
  <2> HIDE DEF s
  <2>3. cid_tcp_socket[c] = NoSocket /\ cid_tcp_socket'[c] = s /\ s # NoSocket
        /\ \A d \in Client : d # c => cid_tcp_socket'[d] = cid_tcp_socket[d]
    BY <1>3, <2>1, <2>2, NoSocketIsNone DEF Bindable
  <2>4. ASSUME NEW d \in Client
        PROVE  /\ cid_tcp_socket'[d] = NoSocket => cid_next_outgoing_seq_num[d] = 1
               /\ cid_tcp_socket'[d] = Socket(d) => cid_next_outgoing_seq_num[d] = next_exp_seq_num[d] + Len(toClient[Socket(d)])
               /\ cid_tcp_socket'[d] # Socket(d) => toClient[Socket(d)] = <<>> /\ next_exp_seq_num[d] = 1
               /\ \A i \in 1 .. Len(toClient[Socket(d)]) :
                    /\ toClient[Socket(d)][i].response.client = d
                    /\ toClient[Socket(d)][i].seq_num + 1 = next_exp_seq_num[d] + i
    <3>1. /\ cid_tcp_socket[d] = NoSocket => cid_next_outgoing_seq_num[d] = 1
          /\ cid_tcp_socket[d] = Socket(d) => cid_next_outgoing_seq_num[d] = next_exp_seq_num[d] + Len(toClient[Socket(d)])
          /\ cid_tcp_socket[d] # Socket(d) => toClient[Socket(d)] = <<>> /\ next_exp_seq_num[d] = 1
          /\ \A i \in 1 .. Len(toClient[Socket(d)]) :
               /\ toClient[Socket(d)][i].response.client = d
               /\ toClient[Socket(d)][i].seq_num + 1 = next_exp_seq_num[d] + i
      BY DEF ResponseInv, Deliverable
    <3>2. CASE d # c
      BY <2>3, <3>1, <3>2
    <3>3. CASE d = c
      <4>1. NoSocket # Socket(d)
        BY DEF NoSocket, Socket
      <4>2. toClient[Socket(d)] = <<>> /\ next_exp_seq_num[d] = 1 /\ cid_next_outgoing_seq_num[d] = 1 /\ Len(<<>>) = 0
        BY <2>3, <3>1, <3>3, <4>1
      <4> QED
        BY <2>3, <3>3, <4>2
    <3> QED
      BY <3>2, <3>3
  <2>5. Deliverable(toClient, cid_next_outgoing_seq_num)'
    BY <1>1, <2>4, ZenonT(30) DEF ResponseInv, Deliverable, Made, Socket, Sockets, NoSocket, Response
  <2>6. \A i \in 1 .. Len(outgoing_responses) : cid_tcp_socket'[outgoing_responses[i].client] # NoSocket
    <3> TAKE i \in 1 .. Len(outgoing_responses)
    <3>1. outgoing_responses[i] \in Response /\ cid_tcp_socket[outgoing_responses[i].client] # NoSocket
      BY DEF ResponseInv
    <3>2. outgoing_responses[i].client \in Client
      BY <3>1 DEF Response
    <3> QED
      BY <2>3, <3>1, <3>2
  <2> QED
    BY <1>1, <2>5, <2>6 DEF ResponseInv, Response, NoSocket
<1> QED
  BY <1>2, <1>3

\* The sequencer hands the requests over: no response moves.
LEMMA ResponseFinish ==
  ASSUME RequestInv, ResponseInv, finishPass(Open), UNCHANGED <<gateway, time>>
  PROVE  ResponseInv'
<1> DEFINE to == Sent.to
           next == Sent.next
           M == [seq_num : Nat, response : Response]
<1>1. /\ toClient' = [s \in DOMAIN toClient |-> IF s \in Open THEN to[s] ELSE <<>>]
      /\ cid_next_outgoing_seq_num' = next /\ outgoing_responses' = <<>>
      /\ UNCHANGED <<next_exp_seq_num, session, cid_tcp_socket, answered, ignored>>
  BY DEF finishPass, gateway
<1>2. Deliverable(to, next)
  BY SentDeliverable DEF RequestInv
<1> HIDE DEF to, next
<1>3. DOMAIN toClient = Sockets /\ to \in [Sockets -> Seq(M)] /\ <<>> \in Seq(M) /\ next \in [Client -> Nat]
  <2>1. toClient \in [Sockets -> Seq(M)]
    BY Zenon DEF ResponseInv, Deliverable
  <2>2. to \in [Sockets -> Seq(M)] /\ next \in [Client -> Nat]
    BY <1>2, Zenon DEF Deliverable
  <2>3. <<>> \in Seq(M)
    OBVIOUS
  <2> HIDE DEF M
  <2> QED
    BY <2>1, <2>2, <2>3
<1>4. toClient' \in [Sockets -> Seq(M)]
  <2> HIDE DEF M
  <2> QED
    BY <1>1, <1>3
<1>5. \A s \in Sockets : ~Made(s) => toClient'[s] = <<>>
  BY <1>1, <1>2, <1>3 DEF Deliverable
<1>6. \A c \in Client : toClient'[Socket(c)] = to[Socket(c)]
  <2> TAKE c \in Client
  <2>1. Socket(c) \in Sockets /\ Socket(c) \in Open
    BY DEF Open, Socket, Sockets, RequestInv, EntryTypes
  <2> QED
    BY <1>1, <1>3, <2>1
<1> HIDE DEF M
<1>7. ASSUME NEW c \in Client
      PROVE  /\ cid_tcp_socket[c] = NoSocket => next[c] = 1
             /\ cid_tcp_socket[c] = Socket(c) => next[c] = next_exp_seq_num[c] + Len(toClient'[Socket(c)])
             /\ cid_tcp_socket[c] # Socket(c) => toClient'[Socket(c)] = <<>> /\ next_exp_seq_num[c] = 1
             /\ \A i \in 1 .. Len(toClient'[Socket(c)]) :
                  /\ toClient'[Socket(c)][i].response.client = c
                  /\ toClient'[Socket(c)][i].seq_num + 1 = next_exp_seq_num[c] + i
  BY <1>2, <1>6 DEF Deliverable
<1>8. Deliverable(toClient, cid_next_outgoing_seq_num)'
  <2>1. cid_next_outgoing_seq_num' = next /\ UNCHANGED <<session, cid_tcp_socket, next_exp_seq_num>>
    BY <1>1
  <2> QED
    BY <1>3, <1>4, <1>5, <1>7, <2>1, ZenonT(30) DEF Deliverable, Made, Socket, Sockets, NoSocket, Response, M
<1> QED
  BY <1>1, <1>8 DEF ResponseInv, Response

\* The matching engine answers the next request.
LEMMA ResponseAnswer ==
  ASSUME RequestInv, ResponseInv, processClientRequest, UNCHANGED <<gateway, time>>
  PROVE  ResponseInv'
<1>1. UNCHANGED <<toClient, cid_next_outgoing_seq_num, next_exp_seq_num, session, cid_tcp_socket, ignored>> /\ answered' = answered + 1
  BY DEF processClientRequest, server, gateway
<1>2. answered \in Nat /\ answered < Len(incoming) /\ Len(incoming) \in Nat
  BY DEF processClientRequest, ResponseInv, RequestInv, EntryTypes
<1>3. \A i \in 1 .. Len(incoming) : incoming[i].client \in Client /\ cid_tcp_socket[incoming[i].client] # NoSocket
  BY PendingTypes, NoSocketIsNone DEF RequestInv, Bound
<1> DEFINE B == {r \in Response : cid_tcp_socket[r.client] # NoSocket}
<1>4. \A i \in 1 .. Len(incoming) : [client |-> incoming[i].client] \in B
  BY <1>3 DEF Response
<1>5. PICK fills \in {<<>>} \cup {<<[client |-> c]>> : c \in {incoming[i].client : i \in 1 .. answered} \cap Filling} :
        outgoing_responses' = outgoing_responses \o <<[client |-> incoming[answered + 1].client]>> \o fills
  BY Zenon DEF processClientRequest
<1>6. outgoing_responses \in Seq(B)
  <2>1. outgoing_responses \in Seq(Response) /\ \A i \in 1 .. Len(outgoing_responses) : outgoing_responses[i] \in B
    BY DEF ResponseInv
  <2> HIDE DEF B
  <2> QED
    BY <2>1
<1>7. answered + 1 \in 1 .. Len(incoming) /\ \A i \in 1 .. answered : i \in 1 .. Len(incoming)
  BY <1>2
<1>8. fills \in Seq(B) /\ <<[client |-> incoming[answered + 1].client]>> \in Seq(B)
  <2>1. [client |-> incoming[answered + 1].client] \in B
    BY <1>4, <1>7
  <2>2. fills = <<>> \/ \E r \in B : fills = <<r>>
    BY <1>4, <1>5, <1>7
  <2> HIDE DEF B
  <2>3. ASSUME NEW r \in B PROVE <<r>> \in Seq(B)
    OBVIOUS
  <2>4. <<>> \in Seq(B)
    OBVIOUS
  <2> QED
    BY <2>1, <2>2, <2>3, <2>4, Zenon
<1>9. outgoing_responses' \in Seq(B)
  <2> HIDE DEF B
  <2> QED
    BY <1>5, <1>6, <1>8
<1>10. outgoing_responses' \in Seq(Response) /\ \A i \in 1 .. Len(outgoing_responses') : outgoing_responses'[i] \in B
  <2>1. B \subseteq Response
    OBVIOUS
  <2> HIDE DEF B
  <2> QED
    BY <1>9, <2>1
<1>11. Deliverable(toClient, cid_next_outgoing_seq_num)'
  BY <1>1, ZenonT(30) DEF ResponseInv, Deliverable, Made, Socket, Sockets, NoSocket, Response
<1> QED
  BY <1>1, <1>2, <1>10, <1>11 DEF ResponseInv, NoSocket, Response

\* The gateway takes the next response.
LEMMA ResponseRecv ==
  ASSUME RequestInv, ResponseInv, NEW c \in Client, gatewayRecv(c)
  PROVE  ResponseInv'
<1> DEFINE s == Socket(c)
           q == toClient[s]
           n == next_exp_seq_num[c]
           M == [seq_num : Nat, response : Response]
<1>1. s \in Sockets /\ \A d \in Client : d # c => Socket(d) \in Sockets /\ Socket(d) # s
  BY DEF Socket, Sockets, RequestInv, EntryTypes
<1>2. q # <<>> /\ q \in Seq(M) /\ n \in Nat /\ toClient \in [Sockets -> Seq(M)]
  BY <1>1, Zenon DEF gatewayRecv, ResponseInv, Deliverable
<1>3. \A i \in 1 .. Len(q) : q[i].response.client = c /\ q[i].seq_num + 1 = n + i
  BY DEF ResponseInv, Deliverable
<1> HIDE DEF q, n, M
<1>4. /\ Head(q) = q[1] /\ q[1] \in M /\ 1 \in 1 .. Len(q) /\ Tail(q) \in Seq(M) /\ Len(Tail(q)) = Len(q) - 1 /\ Len(q) \in Nat
      /\ \A i \in 1 .. Len(q) - 1 : Tail(q)[i] = q[i + 1] /\ i + 1 \in 1 .. Len(q)
  BY <1>2
<1>5. Head(q).response.client = c /\ Head(q).seq_num = n
  <2>1. q[1].seq_num \in Nat
    BY <1>4 DEF M
  <2>2. q[1].response.client = c /\ q[1].seq_num + 1 = n + 1
    BY <1>3, <1>4
  <2> QED
    BY <1>2, <1>4, <2>1, <2>2
<1>6. /\ next_exp_seq_num' = [next_exp_seq_num EXCEPT ![c] = n + 1]
      /\ ignored' = ignored
      /\ toClient' = [toClient EXCEPT ![s] = Tail(q)]
      /\ UNCHANGED <<session, cid_next_outgoing_seq_num, cid_tcp_socket, outgoing_responses, answered>>
  <2>1. ignored = [d \in Client |-> 0]
    BY DEF ResponseInv
  <2>2. /\ next_exp_seq_num' = [next_exp_seq_num EXCEPT ![c] = n + 1]
        /\ ignored' = [ignored EXCEPT ![c] = ignored[c]]
    BY <1>5 DEF gatewayRecv, q, n
  <2> QED
    BY <2>1, <2>2, ZenonT(30) DEF gatewayRecv, server, q
<1> HIDE DEF s
<1>7. /\ toClient' \in [Sockets -> Seq(M)] /\ toClient'[s] = Tail(q)
      /\ \A x \in Sockets : x # s => toClient'[x] = toClient[x]
  BY <1>1, <1>2, <1>4, <1>6
<1>8. /\ next_exp_seq_num' \in [Client -> Nat] /\ next_exp_seq_num'[c] = n + 1
      /\ \A d \in Client : d # c => next_exp_seq_num'[d] = next_exp_seq_num[d]
  BY <1>2, <1>6 DEF ResponseInv
<1>9. ASSUME NEW x \in Sockets, ~Made(x) PROVE toClient'[x] = <<>>
  <2>1. toClient[x] = <<>>
    BY <1>9 DEF ResponseInv, Deliverable
  <2> QED
    BY <1>2, <1>7, <2>1 DEF q
<1>10. ASSUME NEW d \in Client
       PROVE  /\ cid_tcp_socket[d] = NoSocket => cid_next_outgoing_seq_num[d] = 1
              /\ cid_tcp_socket[d] = Socket(d) => cid_next_outgoing_seq_num[d] = next_exp_seq_num'[d] + Len(toClient'[Socket(d)])
              /\ cid_tcp_socket[d] # Socket(d) => toClient'[Socket(d)] = <<>> /\ next_exp_seq_num'[d] = 1
              /\ \A i \in 1 .. Len(toClient'[Socket(d)]) :
                   /\ toClient'[Socket(d)][i].response.client = d
                   /\ toClient'[Socket(d)][i].seq_num + 1 = next_exp_seq_num'[d] + i
  <2>1. /\ cid_tcp_socket[d] = NoSocket => cid_next_outgoing_seq_num[d] = 1
        /\ cid_tcp_socket[d] = Socket(d) => cid_next_outgoing_seq_num[d] = next_exp_seq_num[d] + Len(toClient[Socket(d)])
        /\ cid_tcp_socket[d] # Socket(d) => toClient[Socket(d)] = <<>> /\ next_exp_seq_num[d] = 1
        /\ \A i \in 1 .. Len(toClient[Socket(d)]) :
             /\ toClient[Socket(d)][i].response.client = d
             /\ toClient[Socket(d)][i].seq_num + 1 = next_exp_seq_num[d] + i
    BY DEF ResponseInv, Deliverable
  <2>2. CASE d # c
    <3>1. toClient'[Socket(d)] = toClient[Socket(d)] /\ next_exp_seq_num'[d] = next_exp_seq_num[d]
      BY <1>1, <1>7, <1>8, <2>2
    <3> QED
      BY <2>1, <3>1, Zenon
  <2>3. CASE d = c
    <3>1. Socket(d) = s /\ toClient[Socket(d)] = q /\ next_exp_seq_num[d] = n /\ toClient'[Socket(d)] = Tail(q)
      BY <1>7, <2>3 DEF s, q, n
    <3>2. cid_tcp_socket[d] = Socket(d)
      BY <1>2, <2>1, <3>1
    <3>3. \A i \in 1 .. Len(Tail(q)) : Tail(q)[i].response.client = c /\ Tail(q)[i].seq_num + 1 = (n + 1) + i
      <4> TAKE i \in 1 .. Len(Tail(q))
      <4>1. Tail(q)[i] = q[i + 1] /\ i + 1 \in 1 .. Len(q) /\ i \in Nat
        BY <1>4
      <4>2. n + (i + 1) = (n + 1) + i
        BY <1>2, <4>1
      <4> QED
        BY <1>3, <4>1, <4>2
    <3>4. n + Len(q) = (n + 1) + Len(Tail(q))
      BY <1>2, <1>4
    <3>5. cid_next_outgoing_seq_num[d] = n + Len(q) /\ cid_tcp_socket[d] # NoSocket
      BY <2>1, <3>1, <3>2 DEF Socket, NoSocket
    <3> QED
      BY <1>8, <2>3, <3>1, <3>2, <3>3, <3>4, <3>5
  <2> QED
    BY <2>2, <2>3
<1>11. Deliverable(toClient, cid_next_outgoing_seq_num)'
  <2>1. cid_next_outgoing_seq_num \in [Client -> Nat]
    BY DEF ResponseInv, Deliverable
  <2>2. UNCHANGED <<session, cid_next_outgoing_seq_num, cid_tcp_socket>>
    BY <1>6
  <2> QED
    BY <1>7, <1>9, <1>10, <2>1, <2>2, ZenonT(30) DEF Deliverable, Made, Socket, Sockets, NoSocket, Response, M
<1> QED
  BY <1>6, <1>8, <1>11 DEF ResponseInv, Response, NoSocket

\* A client that restarts has a new connection, on which nothing is on its way.
LEMMA ResponseRestart ==
  ASSUME RequestInv, ResponseInv, NEW c \in Client, restart(c)
  PROVE  ResponseInv'
<1> DEFINE s == Socket(c)
           s1 == <<c, session[c] + 1>>
           M == [seq_num : Nat, response : Response]
<1>1. session \in [Client -> 1 .. MaxSessions] /\ session[c] \in Nat /\ MaxSessions \in Nat
  BY OrderEntryAssumption DEF RequestInv, EntryTypes
<1>2. /\ session[c] < MaxSessions /\ session' = [session EXCEPT ![c] = @ + 1]
      /\ toClient' = [toClient EXCEPT ![s] = <<>>]
      /\ next_exp_seq_num' = [next_exp_seq_num EXCEPT ![c] = 1]
      /\ ignored' = [ignored EXCEPT ![c] = 0]
      /\ UNCHANGED <<cid_next_outgoing_seq_num, cid_tcp_socket, outgoing_responses, answered>>
  BY DEF restart, server
<1>3. s \in Sockets /\ s1 \in Sockets /\ s1 # s /\ ~Made(s1)
  BY <1>1, <1>2 DEF Socket, Sockets, Made
<1>4. /\ \A d \in Client : d # c => session'[d] = session[d] /\ Socket(d) # s /\ Socket(d) \in Sockets
      /\ session'[c] = session[c] + 1
  BY <1>1, <1>2 DEF Socket, Sockets
<1>5. toClient \in [Sockets -> Seq(M)] /\ <<>> \in Seq(M) /\ next_exp_seq_num \in [Client -> Nat]
  <2>1. <<>> \in Seq(M)
    OBVIOUS
  <2> QED
    BY <2>1, ZenonT(30) DEF ResponseInv, Deliverable
<1> HIDE DEF s, s1, M
<1>6. /\ toClient' \in [Sockets -> Seq(M)] /\ toClient'[s] = <<>>
      /\ \A x \in Sockets : x # s => toClient'[x] = toClient[x]
  BY <1>2, <1>3, <1>5
<1>7. /\ next_exp_seq_num' \in [Client -> Nat] /\ next_exp_seq_num'[c] = 1
      /\ \A d \in Client : d # c => next_exp_seq_num'[d] = next_exp_seq_num[d]
  BY <1>2, <1>5
<1>8. ASSUME NEW x \in Sockets, ~(x[2] <= session'[x[1]]) PROVE toClient'[x] = <<>>
  <2>1. x[1] \in Client /\ x[2] \in Nat
    BY DEF Sockets
  <2>2. session[x[1]] \in Nat /\ session'[x[1]] \in Nat /\ session[x[1]] <= session'[x[1]]
    BY <1>1, <1>4, <2>1
  <2>3. ~(x[2] <= session[x[1]])
    BY <1>8, <2>1, <2>2
  <2>4. toClient[x] = <<>>
    BY <2>3 DEF ResponseInv, Deliverable, Made
  <2> QED
    BY <1>6, <2>4
<1>9. ASSUME NEW d \in Client
      PROVE  LET u == <<d, session'[d]>> IN
             /\ cid_tcp_socket[d] = NoSocket => cid_next_outgoing_seq_num[d] = 1
             /\ cid_tcp_socket[d] = u => cid_next_outgoing_seq_num[d] = next_exp_seq_num'[d] + Len(toClient'[u])
             /\ cid_tcp_socket[d] # u => toClient'[u] = <<>> /\ next_exp_seq_num'[d] = 1
             /\ \A i \in 1 .. Len(toClient'[u]) :
                  /\ toClient'[u][i].response.client = d
                  /\ toClient'[u][i].seq_num + 1 = next_exp_seq_num'[d] + i
  <2>1. /\ cid_tcp_socket[d] = NoSocket => cid_next_outgoing_seq_num[d] = 1
        /\ cid_tcp_socket[d] = Socket(d) => cid_next_outgoing_seq_num[d] = next_exp_seq_num[d] + Len(toClient[Socket(d)])
        /\ cid_tcp_socket[d] # Socket(d) => toClient[Socket(d)] = <<>> /\ next_exp_seq_num[d] = 1
        /\ \A i \in 1 .. Len(toClient[Socket(d)]) :
             /\ toClient[Socket(d)][i].response.client = d
             /\ toClient[Socket(d)][i].seq_num + 1 = next_exp_seq_num[d] + i
    BY DEF ResponseInv, Deliverable
  <2>2. CASE d # c
    <3>1. <<d, session'[d]>> = Socket(d) /\ toClient'[Socket(d)] = toClient[Socket(d)] /\ next_exp_seq_num'[d] = next_exp_seq_num[d]
      BY <1>4, <1>6, <1>7, <2>2 DEF Socket
    <3> QED
      BY <2>1, <3>1
  <2>3. CASE d = c
    <3>1. <<d, session'[d]>> = s1
      BY <1>4, <2>3 DEF s1
    <3>2. toClient'[s1] = <<>> /\ Len(<<>>) = 0
      BY <1>3, <1>6 DEF ResponseInv, Deliverable
    <3>3. cid_tcp_socket[d] # s1
      <4>1. cid_tcp_socket[d] = NoSocket \/ Made(cid_tcp_socket[d])
        BY DEF RequestInv, Connections
      <4> QED
        BY <1>3, <4>1, NoSocketIsNone
    <3> QED
      BY <1>7, <2>1, <2>3, <3>1, <3>2, <3>3
  <2> QED
    BY <2>2, <2>3, Zenon
<1>10. Deliverable(toClient, cid_next_outgoing_seq_num)'
  BY <1>2, <1>6, <1>8, <1>9, ZenonT(30) DEF ResponseInv, Deliverable, Made, Socket, Sockets, NoSocket, Response, M
<1>11. ignored' = [d \in Client |-> 0]
  BY <1>2 DEF ResponseInv
<1> QED
  BY <1>2, <1>7, <1>10, <1>11, Zenon DEF ResponseInv, Response, NoSocket

\* The invariant of the responses holds before the first step.
LEMMA ResponseInit ==
  ASSUME Init
  PROVE  ResponseInv
<1> USE DEF Init, SInit
<1>1. session = [c \in Client |-> 1] /\ \A c \in Client : Socket(c) \in Sockets
  BY OrderEntryAssumption DEF Socket, Sockets
<1>2. \A s \in Sockets : toClient[s] = <<>> /\ Len(toClient[s]) = 0
  OBVIOUS
<1>3. \A c \in Client : cid_tcp_socket[c] # Socket(c)
  BY DEF NoSocket, Socket
<1>4. Deliverable(toClient, cid_next_outgoing_seq_num)
  BY <1>1, <1>2, <1>3 DEF Deliverable
<1> QED
  BY <1>4 DEF ResponseInv

\* Every step keeps it.
LEMMA ResponseStep ==
  ASSUME RequestInv, ResponseInv, [Next]_vars
  PROVE  ResponseInv'
<1>1. CASE (poll \/ drained) /\ UNCHANGED <<gateway, time>>
  BY <1>1, ResponseSame DEF poll, drained, gateway, responseVars
<1>2. CASE recvCallback /\ UNCHANGED <<gateway, time>>
  BY <1>2, ResponseBind
<1>3. CASE finishPass(Open) /\ UNCHANGED <<gateway, time>>
  BY <1>3, ResponseFinish
<1>4. CASE processClientRequest /\ UNCHANGED <<gateway, time>>
  BY <1>4, ResponseAnswer
<1>5. ASSUME NEW c \in Client, gatewaySend(c) PROVE ResponseInv'
  BY <1>5, ResponseSame DEF gatewaySend, server, responseVars
<1>6. ASSUME NEW c \in Client, gatewayRecv(c) PROVE ResponseInv'
  BY <1>6, ResponseRecv
<1>7. ASSUME NEW c \in Client, restart(c) PROVE ResponseInv'
  BY <1>7, ResponseRestart
<1>8. CASE tick \/ UNCHANGED vars
  BY <1>8, ResponseSame DEF tick, vars, gateway, exchange, server, responseVars
<1> QED
  BY <1>1, <1>2, <1>3, <1>4, <1>5, <1>6, <1>7, <1>8 DEF Next, ServerStep

\* The invariant holds in every reachable state; in particular every response waiting in the
\* queue has the socket the order server asserts it has.
THEOREM EntryInvariant == Spec => [](RequestInv /\ ResponseInv)
<1>1. Init => RequestInv /\ ResponseInv
  BY RequestInit, ResponseInit
<1>2. (RequestInv /\ ResponseInv) /\ [Next]_vars => (RequestInv /\ ResponseInv)'
  BY RequestStep, ResponseStep
<1> QED
  BY <1>1, <1>2, PTL DEF Spec

\* The matching engine gets the requests of one run of a client, in the order of their numbers
\* and without gap or repetition, while no pass sorts more than StableSize of them.
THEOREM EntryRequestsInOrder == Spec => []RequestsInOrder
<1>1. RequestInv => RequestsInOrder
  BY DEF RequestInv
<1> QED
  BY <1>1, EntryInvariant, PTL

\* No gateway ever meets a response of another client or with a number it does not expect,
\* however often clients start again.
THEOREM EntryResponsesFit == Spec => []ResponsesFit
<1>1. ResponseInv => ResponsesFit
  BY DEF ResponseInv, ResponsesFit
<1> QED
  BY <1>1, EntryInvariant, PTL

\* Until the sequencer ends the process, every request of a client's first run is in exactly
\* one place: on the connection, in the sequencer or in the queue to the matching engine.
THEOREM EntryRequestsConserved == Spec => []RequestsConserved
<1>1. ASSUME RequestInv, NEW c \in Client, session[c] = 1, ~fatal
      PROVE  next_outgoing_seq_num[c] - 1 =
               Len(toServer[Socket(c)]) + Count(incoming, c, Len(incoming)) + Count(Requests(pending), c, Len(pending))
  <2> DEFINE s == Socket(c)
             I == Count(incoming, c, Len(incoming))
             P == Count(Requests(pending), c, Len(pending))
  <2>1. s = <<c, 1>> /\ s \in Sockets /\ s[1] = c
    BY <1>1, OrderEntryAssumption DEF Socket, Sockets
  <2>2. cid_tcp_socket[c] \in {NoSocket, s}
    <3>1. CASE cid_tcp_socket[c] # NoSocket
      <4>1. cid_tcp_socket[c] \in Sockets /\ cid_tcp_socket[c][1] = c /\ cid_tcp_socket[c][2] <= 1
        BY <1>1, <3>1 DEF RequestInv, Connections, Made
      <4> QED
        BY <2>1, <4>1 DEF Sockets
    <3> QED
      BY <3>1
  <2>3. next_outgoing_seq_num[c] = cid_next_exp_seq_num[c] + Len(toServer[s])
    BY <1>1, <2>1, <2>2 DEF RequestInv, Streams, Bindable
  <2>4. cid_next_exp_seq_num[c] = 1 + I + P
    BY <1>1 DEF RequestInv, Numbers
  <2>5. I \in Nat /\ P \in Nat /\ Len(toServer[s]) \in Nat
    <3>1. Len(incoming) \in Nat /\ Len(pending) \in Nat /\ Len(toServer[s]) \in Nat
      BY <1>1, <2>1 DEF RequestInv, EntryTypes
    <3> QED
      BY <3>1, CountNext
  <2> HIDE DEF I, P, s
  <2>6. next_outgoing_seq_num[c] - 1 = Len(toServer[s]) + I + P
    <3>1. ASSUME NEW x \in Nat, NEW y \in Nat, NEW z \in Nat PROVE ((1 + y + z) + x) - 1 = x + y + z
      OBVIOUS
    <3>2. next_outgoing_seq_num[c] = (1 + I + P) + Len(toServer[s])
      BY <2>3, <2>4, Zenon
    <3>3. ((1 + I + P) + Len(toServer[s])) - 1 = Len(toServer[s]) + I + P
      BY <2>5, <3>1, ZenonT(30)
    <3> QED
      BY <3>2, <3>3, Zenon
  <2> QED
    BY <2>6 DEF I, P, s
<1>2. RequestInv => RequestsConserved
  BY <1>1 DEF RequestsConserved
<1> QED
  BY <1>2, EntryInvariant, PTL
=============================================================================
