------------------------ MODULE OrderEntryInvariant ------------------------
(***************************************************************************)
(* The invariant of the way of an order into the exchange and of the       *)
(* responses back, for any number of clients, connections and requests:    *)
(* the operators of the order server and the sequencer, and the steps of   *)
(* the gateways, the clock and the matching engine.  OrderEntryProofs has  *)
(* the callback of the order server, the initial states and the theorems.  *)
(*                                                                         *)
(* Requests: every connection carries consecutive numbers, starting at the *)
(* one the server expects of its client if the server would take them;     *)
(* what the server took and has not handed over are the numbers just       *)
(* before that.  Times along a connection never decrease, and a callback   *)
(* stamps all it reads with the time of the last, so the sort by time      *)
(* cannot put a client's later request before an earlier one while at most *)
(* StableSize requests are sorted at once.                                 *)
(*                                                                         *)
(* Responses: the numbers on the way to a client that is bound are         *)
(* consecutive and end just before the next one the server will give.      *)
(*                                                                         *)
(* The operators are iterations: of the requests of one callback, of the   *)
(* responses of one pass.  What they compute is proved by induction on the *)
(* number of iterations, over sets of numbers (SetInduction).              *)
(***************************************************************************)
EXTENDS OrderEntry, FiniteSetTheorems, TLAPS

\* A set of naturals that is not empty has a least element.
LEMMA LeastNatural ==
  ASSUME NEW T \in SUBSET Nat, T # {}
  PROVE  \E m \in T : \A x \in T : m <= x
<1>1. PICK m \in T : \A x \in T : ~(<<x, m>> \in OpToRel(<, Nat))
  BY NatLessThanWellFounded, WFMin, Zenon
<1>2. \A x \in T : ~(x < m)
  BY <1>1, Zenon DEF OpToRel
<1> QED
  BY <1>2

\* Induction over a set: one that has 0 and the successor of each of its naturals has all of them.
LEMMA SetInduction ==
  ASSUME NEW T, 0 \in T, \A n \in Nat : n \in T => n + 1 \in T
  PROVE  \A n \in Nat : n \in T
<1> DEFINE D == {n \in Nat : n \notin T}
<1> SUFFICES ASSUME D # {} PROVE FALSE
  OBVIOUS
<1>1. PICK m \in D : \A x \in D : m <= x
  BY LeastNatural, Zenon
<1>2. m # 0
  BY <1>1
<1>3. m - 1 \in Nat /\ ~(m <= m - 1)
  BY <1>1, <1>2
<1>4. m - 1 \in T
  BY <1>1, <1>3
<1>5. (m - 1) + 1 \in T
  BY <1>3, <1>4
<1> QED
  BY <1>1, <1>3, <1>5

\* f is the iteration of the steps F from b.
Iterates(f, S, b, n, F) ==
  f \in [0 .. n -> S] /\ f[0] = b /\ \A i \in 1 .. n : f[i] = F[i][f[i - 1]]

\* An iteration of n steps exists: what the CHOOSE behind a recursive function chooses from.
LEMMA RecursionExists ==
  ASSUME NEW S, NEW b \in S, NEW n \in Nat, NEW F \in [1 .. n -> [S -> S]]
  PROVE  \E f : Iterates(f, S, b, n, F)
<1> DEFINE T == {k \in Nat : k <= n =>
                   \E f \in [0 .. n -> S] : f[0] = b /\ \A i \in 1 .. k : f[i] = F[i][f[i - 1]]}
<1>1. 0 \in T
  <2> DEFINE g == [i \in 0 .. n |-> b]
  <2>1. g \in [0 .. n -> S] /\ g[0] = b /\ \A i \in 1 .. 0 : g[i] = F[i][g[i - 1]]
    OBVIOUS
  <2> HIDE DEF g
  <2>2. \E f \in [0 .. n -> S] : f[0] = b /\ \A i \in 1 .. 0 : f[i] = F[i][f[i - 1]]
    BY <2>1
  <2> QED
    BY <2>2
<1>2. ASSUME NEW k \in Nat, k \in T PROVE k + 1 \in T
  <2> SUFFICES ASSUME k + 1 <= n
               PROVE  \E f \in [0 .. n -> S] : f[0] = b /\ \A i \in 1 .. k + 1 : f[i] = F[i][f[i - 1]]
    OBVIOUS
  <2>1. PICK f \in [0 .. n -> S] : f[0] = b /\ \A i \in 1 .. k : f[i] = F[i][f[i - 1]]
    BY <1>2
  <2>2. k \in 0 .. n /\ k + 1 \in 1 .. n /\ k + 1 \in 0 .. n
    OBVIOUS
  <2>3. F[k + 1][f[k]] \in S
    BY <2>1, <2>2
  <2> DEFINE g == [f EXCEPT ![k + 1] = F[k + 1][f[k]]]
  <2>4. g \in [0 .. n -> S] /\ g[0] = b
    BY <2>1, <2>2, <2>3
  <2>5. ASSUME NEW i \in 1 .. k + 1 PROVE g[i] = F[i][g[i - 1]]
    <3>1. CASE i = k + 1
      BY <2>2, <3>1
    <3>2. CASE i # k + 1
      BY <2>1, <2>2, <3>2
    <3> QED
      BY <3>1, <3>2
  <2> QED
    BY <2>4, <2>5, Zenon
<1>3. n \in T
  BY <1>1, <1>2, SetInduction, Zenon
<1>4. \E f \in [0 .. n -> S] : f[0] = b /\ \A i \in 1 .. n : f[i] = F[i][f[i - 1]]
  BY <1>3
<1> QED
  BY <1>4 DEF Iterates

\* What a gateway sends, and what comes back.
Message == [client : Client, socket : Sockets, seq_num : Nat, time : Nat]
Response == [client : Client]

EntryTypes ==
  /\ session \in [Client -> 1 .. MaxSessions] /\ time \in Nat
  /\ next_outgoing_seq_num \in [Client -> Nat]
  /\ pending \in Seq([recv_time : Nat, request : Message]) /\ incoming \in Seq(Message)
  /\ fatal \in BOOLEAN /\ overfull \in BOOLEAN
  /\ toServer \in [Sockets -> Seq(Message)]
  /\ cid_tcp_socket \in [Client -> Sockets \cup {NoSocket}]
  /\ cid_next_exp_seq_num \in [Client -> Nat]

\* Connections exist once their client has made them.
Made(s) == s \in Sockets /\ s[2] <= session[s[1]]

Connections ==
  /\ connecting \in Seq(Sockets) /\ \A i \in 1 .. Len(connecting) : Made(connecting[i])
  /\ receive_sockets \in Seq(Sockets) /\ \A i \in 1 .. Len(receive_sockets) : Made(receive_sockets[i])
  /\ \A c \in Client :
       IF cid_tcp_socket[c] = NoSocket THEN cid_next_exp_seq_num[c] = 1
       ELSE cid_tcp_socket[c][1] = c /\ Made(cid_tcp_socket[c])

\* The server takes requests of its client from connection s.
Bindable(s) == cid_tcp_socket[s[1]] \in {NoSocket, s}

Streams ==
  \A s \in Sockets :
    /\ ~Made(s) => toServer[s] = <<>>
    /\ \A i \in 1 .. Len(toServer[s]) :
         /\ toServer[s][i].client = s[1] /\ toServer[s][i].socket = s
         /\ toServer[s][i].time <= time
         /\ Bindable(s) => toServer[s][i].seq_num + 1 = cid_next_exp_seq_num[s[1]] + i
    /\ \A i, j \in 1 .. Len(toServer[s]) : i <= j => toServer[s][i].time <= toServer[s][j].time
    /\ Bindable(s) /\ s = Socket(s[1]) =>
         next_outgoing_seq_num[s[1]] = cid_next_exp_seq_num[s[1]] + Len(toServer[s])

\* Requests come from the connection their client is bound to.
Bound ==
  /\ \A i \in 1 .. Len(incoming) : incoming[i].socket = cid_tcp_socket[incoming[i].client]
  /\ \A i \in 1 .. Len(pending) : pending[i].request.socket = cid_tcp_socket[pending[i].request.client]

\* Numbers of the requests before the sequencer.
Numbers ==
  ~fatal =>
    /\ \A c \in Client :
         cid_next_exp_seq_num[c] = 1 + Count(incoming, c, Len(incoming))
                                     + Count(Requests(pending), c, Len(pending))
    /\ \A i \in 1 .. Len(pending) :
         LET r == pending[i].request
         IN  r.seq_num = Count(incoming, r.client, Len(incoming)) + Count(Requests(pending), r.client, i)

\* Receive times do not decrease along the requests of a client.
Times ==
  \A i \in 1 .. Len(pending) :
    LET r == pending[i].request
    IN  /\ pending[i].recv_time <= time
        /\ \A j \in i .. Len(pending) :
             pending[j].request.client = r.client => pending[i].recv_time <= pending[j].recv_time
        /\ \A k \in 1 .. Len(toServer[r.socket]) : pending[i].recv_time <= toServer[r.socket][k].time

RequestInv == EntryTypes /\ Connections /\ Streams /\ Bound /\ Numbers /\ Times /\ RequestsInOrder

\* The way back: to are the responses on the connections, next the server's next numbers.
Deliverable(to, next) ==
  /\ to \in [Sockets -> Seq([seq_num : Nat, response : Response])] /\ next \in [Client -> Nat]
  /\ \A s \in Sockets : ~Made(s) => to[s] = <<>>
  /\ \A c \in Client :
       /\ cid_tcp_socket[c] = NoSocket => next[c] = 1
       /\ cid_tcp_socket[c] = Socket(c) => next[c] = next_exp_seq_num[c] + Len(to[Socket(c)])
       /\ cid_tcp_socket[c] # Socket(c) => to[Socket(c)] = <<>> /\ next_exp_seq_num[c] = 1
       /\ \A i \in 1 .. Len(to[Socket(c)]) :
            /\ to[Socket(c)][i].response.client = c
            /\ to[Socket(c)][i].seq_num + 1 = next_exp_seq_num[c] + i

ResponseInv ==
  /\ next_exp_seq_num \in [Client -> Nat] /\ answered \in Nat
  /\ Deliverable(toClient, cid_next_outgoing_seq_num)
  /\ outgoing_responses \in Seq(Response)
  /\ \A i \in 1 .. Len(outgoing_responses) : cid_tcp_socket[outgoing_responses[i].client] # NoSocket
  /\ ignored = [c \in Client |-> 0]

-----------------------------------------------------------------------------
\* The null pointer of cid_tcp_socket_ is no connection.
LEMMA NoSocketIsNone == NoSocket \notin Sockets
BY DEF NoSocket, Sockets

\* One more request raises the count of its own client only.
LEMMA CountNext ==
  ASSUME NEW s, NEW c, NEW n \in Nat
  PROVE  /\ Count(s, c, n) \in Nat
         /\ Count(s, c, 0) = 0
         /\ s[n + 1].client = c => Count(s, c, n + 1) = Count(s, c, n) + 1
         /\ s[n + 1].client # c => Count(s, c, n + 1) = Count(s, c, n)
<1> DEFINE D(k) == {i \in 1 .. k : s[i].client = c}
<1>1. IsFiniteSet(1 .. n) /\ D(n) \in SUBSET (1 .. n)
  BY FS_Interval
<1>2. IsFiniteSet(D(n))
  BY <1>1, FS_Subset
<1>3. D(0) = {} /\ Cardinality({}) = 0
  BY FS_EmptySet
<1>4. Cardinality(D(n)) \in Nat
  BY <1>2, FS_CardinalityType
<1>5. Count(s, c, 0) = Cardinality(D(0)) /\ Count(s, c, n) = Cardinality(D(n)) /\ Count(s, c, n + 1) = Cardinality(D(n + 1))
  BY DEF Count
<1>6. CASE s[n + 1].client = c
  <2>1. D(n + 1) = D(n) \cup {n + 1} /\ n + 1 \notin D(n)
    BY <1>6
  <2>2. Cardinality(D(n) \cup {n + 1}) = Cardinality(D(n)) + 1
    BY <1>2, <2>1, FS_AddElement, Zenon
  <2> HIDE DEF D
  <2> QED
    BY <1>3, <1>4, <1>5, <1>6, <2>1, <2>2, Zenon
<1>7. CASE s[n + 1].client # c
  <2>1. D(n + 1) = D(n)
    BY <1>7
  <2> HIDE DEF D
  <2> QED
    BY <1>3, <1>4, <1>5, <1>7, <2>1
<1> QED
  BY <1>6, <1>7

\* The count depends on the clients of the places counted only.
LEMMA CountSame ==
  ASSUME NEW s, NEW t, NEW c, NEW n \in Nat, \A i \in 1 .. n : s[i].client = t[i].client
  PROVE  Count(s, c, n) = Count(t, c, n)
<1>1. {i \in 1 .. n : s[i].client = c} = {i \in 1 .. n : t[i].client = c}
  OBVIOUS
<1> QED
  BY <1>1, Zenon DEF Count

\* Requests that are all of one client count fully for it and not at all for another.
LEMMA CountOne ==
  ASSUME NEW s, NEW c, NEW n \in Nat
  PROVE  /\ (\A i \in 1 .. n : s[i].client = c) => Count(s, c, n) = n
         /\ (\A i \in 1 .. n : s[i].client # c) => Count(s, c, n) = 0
<1>1. ASSUME \A i \in 1 .. n : s[i].client = c PROVE Count(s, c, n) = n
  <2>1. {i \in 1 .. n : s[i].client = c} = 1 .. n
    BY <1>1
  <2>2. Cardinality(1 .. n) = n
    BY FS_Interval
  <2> QED
    BY <2>1, <2>2, Zenon DEF Count
<1>2. ASSUME \A i \in 1 .. n : s[i].client # c PROVE Count(s, c, n) = 0
  <2>1. {i \in 1 .. n : s[i].client = c} = {}
    BY <1>2
  <2> QED
    BY <2>1, FS_EmptySet DEF Count
<1> QED
  BY <1>1, <1>2

\* The counts of two parts add up.
LEMMA CountConcat ==
  ASSUME NEW S, NEW s \in Seq(S), NEW t \in Seq(S), NEW c
  PROVE  /\ \A k \in 0 .. Len(s) : Count(s \o t, c, k) = Count(s, c, k)
         /\ \A k \in 0 .. Len(t) : Count(s \o t, c, Len(s) + k) = Count(s, c, Len(s)) + Count(t, c, k)
<1>1. \A i \in 1 .. Len(s) : (s \o t)[i] = s[i]
  OBVIOUS
<1>2. \A i \in 1 .. Len(t) : (s \o t)[Len(s) + i] = t[i]
  OBVIOUS
<1>3. \A k \in 0 .. Len(s) : Count(s \o t, c, k) = Count(s, c, k)
  <2> TAKE k \in 0 .. Len(s)
  <2>1. k \in Nat /\ \A i \in 1 .. k : (s \o t)[i].client = s[i].client
    BY <1>1
  <2> QED
    BY <2>1, CountSame, ZenonT(30)
<1> DEFINE T == {k \in Nat : k <= Len(t) => Count(s \o t, c, Len(s) + k) = Count(s, c, Len(s)) + Count(t, c, k)}
<1>4. 0 \in T
  <2>1. Count(t, c, 0) = 0 /\ Count(s, c, Len(s)) \in Nat
    BY CountNext
  <2>2. Count(s \o t, c, Len(s)) = Count(s, c, Len(s))
    BY <1>3
  <2>3. Len(s) + 0 = Len(s)
    OBVIOUS
  <2> QED
    BY <2>1, <2>2, <2>3
<1>5. ASSUME NEW k \in Nat, k \in T PROVE k + 1 \in T
  <2> SUFFICES ASSUME k + 1 <= Len(t)
               PROVE  Count(s \o t, c, Len(s) + (k + 1)) = Count(s, c, Len(s)) + Count(t, c, k + 1)
    OBVIOUS
  <2>1. Count(s \o t, c, Len(s) + k) = Count(s, c, Len(s)) + Count(t, c, k)
    BY <1>5
  <2>2. (s \o t)[Len(s) + (k + 1)] = t[k + 1]
    BY <1>2
  <2>3. Len(s) + k \in Nat /\ (Len(s) + k) + 1 = Len(s) + (k + 1)
    OBVIOUS
  <2>4. /\ (s \o t)[(Len(s) + k) + 1].client = c => Count(s \o t, c, (Len(s) + k) + 1) = Count(s \o t, c, Len(s) + k) + 1
        /\ (s \o t)[(Len(s) + k) + 1].client # c => Count(s \o t, c, (Len(s) + k) + 1) = Count(s \o t, c, Len(s) + k)
    BY <2>3, CountNext, Zenon
  <2>5. /\ t[k + 1].client = c => Count(t, c, k + 1) = Count(t, c, k) + 1
        /\ t[k + 1].client # c => Count(t, c, k + 1) = Count(t, c, k)
    BY CountNext
  <2>6. Count(s, c, Len(s)) \in Nat /\ Count(t, c, k) \in Nat
    BY CountNext
  <2> QED
    BY <2>1, <2>2, <2>3, <2>4, <2>5, <2>6
<1>6. \A k \in Nat : k \in T
  BY <1>4, <1>5, SetInduction, Zenon
<1> QED
  BY <1>3, <1>6

\* The receive loop on a connection whose numbers fit takes all it reads or refuses all of it.
LEMMA AcceptedIs ==
  ASSUME EntryTypes, NEW s \in Sockets, toServer[s] # <<>>,
         \A i \in 1 .. Len(toServer[s]) :
           /\ toServer[s][i].socket = s
           /\ Bindable(s) => toServer[s][i].seq_num + 1 = cid_next_exp_seq_num[s[1]] + i
  PROVE  /\ Bindable(s) =>
              Accepted(s) = [socket |-> s, exp |-> cid_next_exp_seq_num[s[1]] + Len(toServer[s]),
                             accepted |-> toServer[s]]
         /\ ~Bindable(s) =>
              Accepted(s) = [socket |-> cid_tcp_socket[s[1]], exp |-> cid_next_exp_seq_num[s[1]],
                             accepted |-> <<>>]
<1> DEFINE ms == toServer[s]
           n == Len(ms)
           b == cid_tcp_socket[s[1]]
           e == cid_next_exp_seq_num[s[1]]
           base == [socket |-> b, exp |-> e, accepted |-> <<>>]
           S == [socket : Sockets \cup {NoSocket}, exp : Nat, accepted : Seq(Message)]
           F == [i \in 1 .. n |-> [x \in S |-> accept(x, ms[i])]]
           st == CHOOSE st : st = [i \in 0 .. n |-> IF i = 0 THEN base ELSE accept(st[i - 1], ms[i])]
<1>1. s[1] \in Client /\ b \in Sockets \cup {NoSocket} /\ e \in Nat /\ ms \in Seq(Message) /\ n \in Nat /\ n # 0
  BY DEF EntryTypes, Sockets
<1>2. base \in S
  BY <1>1
<1>3. \A i \in 1 .. n : ms[i] \in Message /\ ms[i].socket = s
  BY <1>1
<1>4. ASSUME NEW i \in 1 .. n, NEW x \in S PROVE accept(x, ms[i]) \in S
  <2>1. CASE accept(x, ms[i]) = [x EXCEPT !.socket = IF x.socket = NoSocket THEN s ELSE x.socket]
    BY <2>1
  <2>2. CASE accept(x, ms[i]) = [socket |-> IF x.socket = NoSocket THEN s ELSE x.socket, exp |-> x.exp + 1,
                                 accepted |-> Append(x.accepted, ms[i])]
    <3>1. Append(x.accepted, ms[i]) \in Seq(Message)
      BY <1>3
    <3> QED
      BY <2>2, <3>1
  <2> QED
    BY <1>3, <2>1, <2>2 DEF accept
<1>5. F \in [1 .. n -> [S -> S]]
  BY <1>4, Zenon
<1> HIDE DEF S
<1>6. PICK f : f \in [0 .. n -> S] /\ f[0] = base /\ \A i \in 1 .. n : f[i] = F[i][f[i - 1]]
  <2> HIDE DEF F, base, n
  <2>1. \E f : Iterates(f, S, base, n, F)
    BY <1>1, <1>2, <1>5, RecursionExists
  <2> QED
    BY <2>1, Zenon DEF Iterates
<1>7. ASSUME NEW i \in 1 .. n PROVE f[i] = accept(f[i - 1], ms[i])
  <2>1. f[i - 1] \in S
    BY <1>1, <1>6
  <2> QED
    BY <1>6, <2>1, Zenon
<1>8. f = [i \in 0 .. n |-> IF i = 0 THEN base ELSE accept(f[i - 1], ms[i])]
  BY <1>6, <1>7
<1>9. st = [i \in 0 .. n |-> IF i = 0 THEN base ELSE accept(st[i - 1], ms[i])]
  BY <1>8, Zenon
<1>10. Accepted(s) = st[n]
  BY DEF Accepted
<1> HIDE DEF st
<1>11. st[0] = base /\ \A i \in 1 .. n : st[i] = accept(st[i - 1], ms[i])
  <2> HIDE DEF base, ms
  <2> QED
    BY <1>1, <1>9
<1>12. ASSUME Bindable(s) PROVE st[n] = [socket |-> s, exp |-> e + n, accepted |-> ms]
  <2> DEFINE At(k) == [socket |-> IF k = 0 THEN b ELSE s, exp |-> e + k, accepted |-> SubSeq(ms, 1, k)]
             T == {k \in Nat : k <= n => st[k] = At(k)}
  <2>1. st[0] = At(0)
    BY <1>1, <1>11
  <2>2. ASSUME NEW k \in Nat, k + 1 <= n, st[k] = At(k) PROVE st[k + 1] = At(k + 1)
    <3>1. k + 1 \in 1 .. n /\ (k + 1) - 1 = k /\ k \in Nat /\ k + 1 # 0
      BY <1>1, <2>2
    <3>2. ms[k + 1].socket = s /\ ms[k + 1].seq_num + 1 = e + (k + 1) /\ ms[k + 1].seq_num \in Nat
      BY <1>3, <1>12, <3>1 DEF Message
    <3>3. st[k + 1] = accept(st[k], ms[k + 1])
      BY <1>11, <3>1
    <3>4. ms[k + 1].seq_num = e + k /\ (e + k) + 1 = e + (k + 1)
      <4>1. e \in Nat
        BY <1>1
      <4>2. ASSUME NEW x \in Nat, NEW y \in Nat, x + 1 = y + (k + 1) PROVE x = y + k /\ (y + k) + 1 = y + (k + 1)
        BY <4>2
      <4> QED
        BY <3>2, <4>1, <4>2
    <3>5. b \in {NoSocket, s}
      BY <1>12 DEF Bindable
    <3>6. SubSeq(ms, 1, k + 1) = Append(SubSeq(ms, 1, k), ms[k + 1])
      BY <1>1, <2>2
    <3>7. st[k].exp = e + k /\ st[k].accepted = SubSeq(ms, 1, k) /\ st[k].socket = IF k = 0 THEN b ELSE s
      BY <2>2
    <3>8. (IF st[k].socket = NoSocket THEN s ELSE st[k].socket) = s
      BY <3>5, <3>7
    <3>9. st[k + 1] = [socket |-> s, exp |-> (e + k) + 1, accepted |-> Append(SubSeq(ms, 1, k), ms[k + 1])]
      BY <3>2, <3>3, <3>4, <3>7, <3>8, Zenon DEF accept
    <3> QED
      BY <3>1, <3>4, <3>6, <3>9, Zenon
  <2>3. st[n] = At(n)
    <3> HIDE DEF At
    <3>1. 0 \in T
      BY <2>1
    <3>2. ASSUME NEW k \in Nat, k \in T PROVE k + 1 \in T
      BY <2>2, <3>2
    <3>3. n \in T
      BY <1>1, <3>1, <3>2, SetInduction, Zenon
    <3> QED
      BY <1>1, <3>3
  <2>4. SubSeq(ms, 1, n) = ms
    BY <1>1
  <2> QED
    BY <1>1, <2>3, <2>4, Zenon
<1>13. ASSUME ~Bindable(s) PROVE st[n] = base
  <2> DEFINE T == {k \in Nat : k <= n => st[k] = base}
  <2>1. 0 \in T
    BY <1>11
  <2>2. ASSUME NEW k \in Nat, k \in T PROVE k + 1 \in T
    <3> SUFFICES ASSUME k + 1 <= n PROVE st[k + 1] = base
      OBVIOUS
    <3>1. st[k + 1] = accept(base, ms[k + 1]) /\ ms[k + 1].socket = s
      BY <1>1, <1>3, <1>11, <2>2
    <3>2. b # NoSocket /\ b # s
      BY <1>13 DEF Bindable
    <3> QED
      BY <3>1, <3>2 DEF accept
  <2>3. n \in T
    BY <1>1, <2>1, <2>2, SetInduction, Zenon
  <2> QED
    BY <1>1, <2>3
<1> QED
  BY <1>10, <1>12, <1>13

\* One turn of the response loop keeps what the gateways will meet.
LEMMA SendDeliverable ==
  ASSUME EntryTypes, Connections, next_exp_seq_num \in [Client -> Nat],
         NEW x, Deliverable(x.to, x.next),
         NEW r \in Response, cid_tcp_socket[r.client] # NoSocket
  PROVE  /\ Deliverable(send(x, r).to, send(x, r).next)
         /\ DOMAIN send(x, r) = {"to", "next"}
<1> DEFINE b == cid_tcp_socket[r.client]
           m == [seq_num |-> x.next[r.client], response |-> r]
           to == [x.to EXCEPT ![b] = Append(@, m)]
           next == [x.next EXCEPT ![r.client] = @ + 1]
           M == [seq_num : Nat, response : Response]
<1>1. send(x, r).to = to /\ send(x, r).next = next /\ DOMAIN send(x, r) = {"to", "next"}
  BY DEF send
<1>2. r.client \in Client /\ b \in Sockets /\ b[1] = r.client /\ Made(b)
  BY DEF EntryTypes, Connections, Response
<1>3. x.to \in [Sockets -> Seq(M)] /\ x.next \in [Client -> Nat]
  BY Zenon DEF Deliverable
<1>4. m \in M
  BY <1>2, <1>3
<1> HIDE DEF M
<1>5. x.to[b] \in Seq(M) /\ Append(x.to[b], m) \in Seq(M)
  <2> HIDE DEF m, b
  <2> QED
    BY <1>2, <1>3, <1>4
<1>6. to \in [Sockets -> Seq(M)] /\ next \in [Client -> Nat]
  <2> HIDE DEF m, b
  <2> QED
    BY <1>2, <1>3, <1>5
<1>7. to[b] = Append(x.to[b], m) /\ \A s \in Sockets : s # b => to[s] = x.to[s]
  BY <1>2, <1>3
<1>8. next[r.client] = x.next[r.client] + 1 /\ \A c \in Client : c # r.client => next[c] = x.next[c]
  BY <1>2, <1>3
<1>9. ASSUME NEW s \in Sockets, ~Made(s) PROVE to[s] = <<>>
  BY <1>2, <1>7, <1>9, Zenon DEF Deliverable
<1>10. ASSUME NEW c \in Client
       PROVE  /\ cid_tcp_socket[c] = NoSocket => next[c] = 1
              /\ cid_tcp_socket[c] = Socket(c) => next[c] = next_exp_seq_num[c] + Len(to[Socket(c)])
              /\ cid_tcp_socket[c] # Socket(c) => to[Socket(c)] = <<>> /\ next_exp_seq_num[c] = 1
              /\ \A i \in 1 .. Len(to[Socket(c)]) :
                   /\ to[Socket(c)][i].response.client = c
                   /\ to[Socket(c)][i].seq_num + 1 = next_exp_seq_num[c] + i
  <2>1. Socket(c) \in Sockets /\ Socket(c)[1] = c
    BY DEF EntryTypes, Socket, Sockets
  <2>2. /\ cid_tcp_socket[c] = NoSocket => x.next[c] = 1
        /\ cid_tcp_socket[c] = Socket(c) => x.next[c] = next_exp_seq_num[c] + Len(x.to[Socket(c)])
        /\ cid_tcp_socket[c] # Socket(c) => x.to[Socket(c)] = <<>> /\ next_exp_seq_num[c] = 1
        /\ \A i \in 1 .. Len(x.to[Socket(c)]) :
             /\ x.to[Socket(c)][i].response.client = c
             /\ x.to[Socket(c)][i].seq_num + 1 = next_exp_seq_num[c] + i
    BY DEF Deliverable
  <2> HIDE DEF to, next
  <2>3. CASE Socket(c) # b
    <3>1. to[Socket(c)] = x.to[Socket(c)]
      BY <1>7, <2>1, <2>3
    <3>2. CASE c = r.client
      BY <2>2, <2>3, <3>1, <3>2
    <3>3. CASE c # r.client
      <4>1. next[c] = x.next[c]
        BY <1>8, <3>3
      <4> QED
        BY <2>2, <3>1, <4>1
    <3> QED
      BY <3>2, <3>3
  <2>4. CASE Socket(c) = b
    <3>1. c = r.client /\ cid_tcp_socket[c] = Socket(c) /\ cid_tcp_socket[c] # NoSocket
      BY <1>2, <2>1, <2>4
    <3> DEFINE q == x.to[Socket(c)]
               n == next_exp_seq_num[c]
    <3>2. q \in Seq(M) /\ Len(q) \in Nat /\ n \in Nat /\ to[Socket(c)] = Append(q, m)
      <4>1. q \in Seq(M)
        BY <1>3, <2>1
      <4>2. to[Socket(c)] = Append(q, m)
        BY <1>7, <2>4
      <4> HIDE DEF q
      <4> QED
        BY <4>1, <4>2
    <3>3. next[c] = (n + Len(q)) + 1 /\ m.seq_num = n + Len(q) /\ m.response.client = c
      BY <1>8, <2>2, <3>1
    <3>4. \A i \in 1 .. Len(q) : q[i].response.client = c /\ q[i].seq_num + 1 = n + i
      BY <2>2
    <3> HIDE DEF q, n, m
    <3>5. Len(Append(q, m)) = Len(q) + 1 /\ \A i \in 1 .. Len(q) + 1 : Append(q, m)[i] = IF i = Len(q) + 1 THEN m ELSE q[i]
      BY <3>2
    <3>6. \A i \in 1 .. Len(q) + 1 : Append(q, m)[i].response.client = c /\ Append(q, m)[i].seq_num + 1 = n + i
      BY <3>2, <3>3, <3>4, <3>5
    <3>7. next[c] = n + Len(Append(q, m))
      BY <3>2, <3>3, <3>5
    <3> QED
      BY <3>1, <3>2, <3>5, <3>6, <3>7 DEF n
  <2> QED
    BY <2>3, <2>4
<1> HIDE DEF to, next
<1>11. Deliverable(to, next)
  BY <1>6, <1>9, <1>10, Zenon DEF Deliverable, M
<1> QED
  BY <1>1, <1>11

\* The whole loop keeps it too.
LEMMA SentDeliverable ==
  ASSUME EntryTypes, Connections, ResponseInv
  PROVE  Deliverable(Sent.to, Sent.next)
<1> DEFINE rs == outgoing_responses
           n == Len(rs)
           base == [to |-> toClient, next |-> cid_next_outgoing_seq_num]
           W == {x \in [to : [Sockets -> Seq([seq_num : Nat, response : Response])], next : [Client -> Nat]] :
                   Deliverable(x.to, x.next)}
           F == [i \in 1 .. n |-> [x \in W |-> send(x, rs[i])]]
           st == CHOOSE st : st = [i \in 0 .. n |-> IF i = 0 THEN base ELSE send(st[i - 1], rs[i])]
<1>1. n \in Nat /\ \A i \in 1 .. n : rs[i] \in Response /\ cid_tcp_socket[rs[i].client] # NoSocket
  BY DEF ResponseInv
<1>2. base.to = toClient /\ base.next = cid_next_outgoing_seq_num /\ base \in W
  BY ZenonT(30) DEF ResponseInv, Deliverable
<1>3. ASSUME NEW i \in 1 .. n, NEW x \in W PROVE send(x, rs[i]) \in W
  <2>1. Deliverable(send(x, rs[i]).to, send(x, rs[i]).next)
    BY <1>1, SendDeliverable, Zenon DEF ResponseInv
  <2>2. send(x, rs[i]) = [to |-> send(x, rs[i]).to, next |-> send(x, rs[i]).next]
    BY DEF send
  <2>3. /\ send(x, rs[i]).to \in [Sockets -> Seq([seq_num : Nat, response : Response])]
        /\ send(x, rs[i]).next \in [Client -> Nat]
    BY <2>1, Zenon DEF Deliverable
  <2> QED
    BY <2>1, <2>2, <2>3, Zenon
<1>4. F \in [1 .. n -> [W -> W]]
  BY <1>3, Zenon
<1> HIDE DEF W
<1>5. PICK f : f \in [0 .. n -> W] /\ f[0] = base /\ \A i \in 1 .. n : f[i] = F[i][f[i - 1]]
  <2> HIDE DEF F, base, n
  <2>1. \E f : Iterates(f, W, base, n, F)
    BY <1>1, <1>2, <1>4, RecursionExists
  <2> QED
    BY <2>1, Zenon DEF Iterates
<1>6. ASSUME NEW i \in 1 .. n PROVE f[i] = send(f[i - 1], rs[i])
  <2>1. f[i - 1] \in W
    BY <1>1, <1>5
  <2> QED
    BY <1>5, <2>1, Zenon
<1>7. f = [i \in 0 .. n |-> IF i = 0 THEN base ELSE send(f[i - 1], rs[i])]
  BY <1>5, <1>6
<1>8. st = [i \in 0 .. n |-> IF i = 0 THEN base ELSE send(st[i - 1], rs[i])]
  BY <1>7, Zenon
<1>9. Sent = st[n]
  BY DEF Sent
<1> HIDE DEF st
<1>10. st[0] = base /\ \A i \in 1 .. n : st[i] = send(st[i - 1], rs[i])
  <2> HIDE DEF base, rs
  <2> QED
    BY <1>1, <1>8
<1> DEFINE T == {k \in Nat : k <= n => st[k] \in W}
<1>11. 0 \in T
  BY <1>2, <1>10
<1>12. ASSUME NEW k \in Nat, k \in T PROVE k + 1 \in T
  <2> SUFFICES ASSUME k + 1 <= n PROVE st[k + 1] \in W
    OBVIOUS
  <2>1. k + 1 \in 1 .. n /\ (k + 1) - 1 = k /\ st[k] \in W
    BY <1>1, <1>12
  <2>2. st[k + 1] = send(st[k], rs[k + 1])
    BY <1>10, <2>1
  <2> QED
    BY <1>3, <2>1, <2>2
<1>13. n \in T
  BY <1>1, <1>11, <1>12, SetInduction, Zenon
<1>14. st[n] \in W
  BY <1>1, <1>13
<1> QED
  BY <1>9, <1>14 DEF W

-----------------------------------------------------------------------------
\* Counts along a permutation: when f moves the first a places of s to the first b of t.
LEMMA CountImage ==
  ASSUME NEW n \in Nat, NEW f \in Bijection(1 .. n, 1 .. n), NEW s, NEW t, NEW c,
         \A i \in 1 .. n : s[i].client = t[f[i]].client,
         NEW a \in 0 .. n, NEW b \in 0 .. n,
         \A j \in 1 .. n : s[j].client = c => (j <= a <=> f[j] <= b)
  PROVE  Count(s, c, a) = Count(t, c, b)
<1> DEFINE A == {j \in 1 .. a : s[j].client = c}
           B == {k \in 1 .. b : t[k].client = c}
           g == [j \in A |-> f[j]]
<1>1. f \in [1 .. n -> 1 .. n] /\ (\A i, j \in 1 .. n : f[i] = f[j] => i = j) /\ \A k \in 1 .. n : \E j \in 1 .. n : f[j] = k
  BY Zenon DEF Bijection, Injection, Surjection, IsInjective
<1>2. \A j \in A : j \in 1 .. n /\ f[j] \in B
  <2> TAKE j \in A
  <2>1. j \in 1 .. n /\ s[j].client = c /\ j <= a
    OBVIOUS
  <2>2. f[j] \in 1 .. n /\ f[j] <= b /\ t[f[j]].client = c
    BY <1>1, <2>1, Zenon
  <2> QED
    BY <2>1, <2>2
<1>3. \A k \in B : \E j \in A : f[j] = k
  <2> TAKE k \in B
  <2>1. k \in 1 .. n /\ t[k].client = c /\ k <= b
    OBVIOUS
  <2>2. PICK j \in 1 .. n : f[j] = k
    BY <1>1, <2>1
  <2>3. s[j].client = c /\ j <= a
    BY <2>1, <2>2
  <2>4. j \in A
    BY <2>3
  <2> QED
    BY <2>2, <2>4
<1>4. g \in Bijection(A, B)
  <2> HIDE DEF A, B
  <2>1. g \in [A -> B] /\ \A j \in A : g[j] = f[j]
    BY <1>2
  <2> HIDE DEF g
  <2>2. \A i, j \in A : g[i] = g[j] => i = j
    BY <1>1, <1>2, <2>1
  <2>3. \A k \in B : \E j \in A : g[j] = k
    BY <1>3, <2>1
  <2> QED
    BY <2>1, <2>2, <2>3 DEF Bijection, Injection, Surjection, IsInjective
<1>5. IsFiniteSet(1 .. a) /\ A \in SUBSET (1 .. a)
  BY FS_Interval
<1>6. IsFiniteSet(A)
  BY <1>5, FS_Subset
<1>7. ExistsBijection(A, B)
  BY <1>4 DEF ExistsBijection
<1> HIDE DEF A, B
<1>8. Cardinality(B) = Cardinality(A)
  BY <1>6, <1>7, FS_Bijection
<1> QED
  BY <1>8 DEF Count, A, B

\* What the sort does: it loses nothing, and a sort of few requests whose times do not decrease
\* along a client's requests keeps them in order.
LEMMA SortedCounts ==
  ASSUME NEW p \in Seq([recv_time : Nat, request : Message]), NEW f \in SortedOrders(p)
  PROVE  /\ \A c : Count([i \in DOMAIN p |-> p[f[i]].request], c, Len(p)) = Count(Requests(p), c, Len(p))
         /\ (/\ Len(p) <= StableSize
             /\ \A i \in 1 .. Len(p), j \in 1 .. Len(p) :
                  i <= j /\ p[i].request.client = p[j].request.client => p[i].recv_time <= p[j].recv_time)
              => \A i \in 1 .. Len(p) :
                   LET c == p[f[i]].request.client
                   IN  Count([k \in DOMAIN p |-> p[f[k]].request], c, i) = Count(Requests(p), c, f[i])
<1> DEFINE n == Len(p)
           q == [i \in DOMAIN p |-> p[f[i]].request]
           t == Requests(p)
<1>1. n \in Nat /\ DOMAIN p = 1 .. n
  OBVIOUS
<1>2. f \in Bijection(1 .. n, 1 .. n)
  BY <1>1 DEF SortedOrders
<1>3. f \in [1 .. n -> 1 .. n] /\ (\A i, j \in 1 .. n : f[i] = f[j] => i = j)
  BY <1>2 DEF Bijection, Injection, IsInjective
<1>4. \A i, j \in 1 .. n : i < j =>
       /\ p[f[i]].recv_time <= p[f[j]].recv_time
       /\ n <= StableSize /\ p[f[i]].recv_time = p[f[j]].recv_time => f[i] < f[j]
  BY <1>1 DEF SortedOrders
<1>5. \A i \in 1 .. n : q[i].client = t[f[i]].client /\ q[i].client = p[f[i]].request.client
  BY <1>1, <1>3 DEF Requests
<1>6. \A i \in 1 .. n : p[f[i]].recv_time \in Nat /\ f[i] \in 1 .. n
  <2> DEFINE P == [recv_time : Nat, request : Message]
  <2>1. \A x \in P : x.recv_time \in Nat
    OBVIOUS
  <2>2. \A k \in 1 .. n : p[k] \in P
    <3> HIDE DEF P
    <3>1. p \in Seq(P)
      BY DEF P
    <3> QED
      BY <3>1
  <2> HIDE DEF P
  <2>3. \A k \in 1 .. n : p[k].recv_time \in Nat
    BY <2>1, <2>2
  <2> QED
    BY <1>3, <2>3
<1> HIDE DEF n, q, t
<1>7. ASSUME NEW c, NEW a \in 0 .. n, NEW b \in 0 .. n,
             \A j \in 1 .. n : q[j].client = c => (j <= a <=> f[j] <= b)
      PROVE  Count(q, c, a) = Count(t, c, b)
  <2>1. \A i \in 1 .. n : q[i].client = t[f[i]].client
    BY <1>5
  <2> QED
    BY <1>1, <1>2, <1>7, <2>1, CountImage
<1>8. ASSUME NEW c PROVE Count(q, c, n) = Count(t, c, n)
  <2>1. n \in 0 .. n /\ \A j \in 1 .. n : q[j].client = c => (j <= n <=> f[j] <= n)
    BY <1>1, <1>3
  <2> QED
    BY <1>7, <2>1
<1>9. ASSUME n <= StableSize,
             \A i \in 1 .. n, j \in 1 .. n :
               i <= j /\ p[i].request.client = p[j].request.client => p[i].recv_time <= p[j].recv_time,
             NEW i \in 1 .. n
      PROVE  Count(q, p[f[i]].request.client, i) = Count(t, p[f[i]].request.client, f[i])
  <2> DEFINE c == p[f[i]].request.client
  <2>1. ASSUME NEW j \in 1 .. n, q[j].client = c PROVE j <= i <=> f[j] <= f[i]
    <3>1. p[f[j]].request.client = p[f[i]].request.client
      BY <1>5, <2>1
    <3>2. CASE j < i
      <4>1. p[f[j]].recv_time <= p[f[i]].recv_time /\ (p[f[j]].recv_time = p[f[i]].recv_time => f[j] < f[i])
        BY <1>4, <1>9, <3>2
      <4>2. f[i] <= f[j] => p[f[i]].recv_time <= p[f[j]].recv_time
        BY <1>6, <1>9, <3>1, Zenon
      <4> QED
        BY <1>1, <1>6, <3>2, <4>1, <4>2
    <3>3. CASE i < j
      <4>1. p[f[i]].recv_time <= p[f[j]].recv_time /\ (p[f[i]].recv_time = p[f[j]].recv_time => f[i] < f[j])
        BY <1>4, <1>9, <3>3
      <4>2. f[j] <= f[i] => p[f[j]].recv_time <= p[f[i]].recv_time
        BY <1>6, <1>9, <3>1, Zenon
      <4> QED
        BY <1>1, <1>6, <3>3, <4>1, <4>2
    <3>4. CASE i = j
      BY <1>1, <1>6, <3>4
    <3> QED
      BY <1>1, <3>2, <3>3, <3>4
  <2>2. i \in 0 .. n /\ f[i] \in 0 .. n
    BY <1>1, <1>6
  <2> HIDE DEF c
  <2>3. Count(q, c, i) = Count(t, c, f[i])
    BY <1>7, <2>1, <2>2
  <2> QED
    BY <2>3 DEF c
<1> QED
  BY <1>8, <1>9 DEF n, q, t

requestVars ==
  <<pending, incoming, fatal, overfull, session, time, next_outgoing_seq_num, toServer, cid_tcp_socket,
    cid_next_exp_seq_num, connecting, receive_sockets>>

\* What the requests waiting in the sequencer and those handed over are made of.
LEMMA PendingTypes ==
  ASSUME EntryTypes
  PROVE  /\ \A i \in 1 .. Len(pending) :
              /\ pending[i].recv_time \in Nat /\ pending[i].request \in Message
              /\ pending[i].request.client \in Client /\ pending[i].request.socket \in Sockets
              /\ pending[i].request.seq_num \in Nat
         /\ \A i \in 1 .. Len(incoming) :
              incoming[i].client \in Client /\ incoming[i].socket \in Sockets /\ incoming[i].seq_num \in Nat
<1> DEFINE P == [recv_time : Nat, request : Message]
<1>1. pending \in Seq(P) /\ incoming \in Seq(Message)
  BY DEF EntryTypes
<1>2. \A x \in P : x.recv_time \in Nat /\ x.request \in Message
  OBVIOUS
<1>3. \A x \in Message : x.client \in Client /\ x.socket \in Sockets /\ x.seq_num \in Nat
  BY DEF Message
<1> HIDE DEF P
<1>4. (\A i \in 1 .. Len(pending) : pending[i] \in P) /\ \A i \in 1 .. Len(incoming) : incoming[i] \in Message
  BY <1>1
<1> QED
  BY <1>2, <1>3, <1>4

\* A step that leaves the way of the requests alone keeps their invariant.
LEMMA RequestSame ==
  ASSUME RequestInv, UNCHANGED requestVars
  PROVE  RequestInv'
<1>1. EntryTypes' /\ Connections'
  BY DEF RequestInv, requestVars, EntryTypes, Connections, Made, NoSocket, Sockets
<1>2. Streams'
  BY DEF RequestInv, requestVars, Streams, Made, Bindable, Socket, NoSocket, Sockets
<1>3. Bound' /\ Times'
  BY Zenon DEF RequestInv, requestVars, Bound, Times
<1>4. Numbers'
  BY DEF RequestInv, requestVars, Numbers
<1>5. RequestsInOrder'
  BY DEF RequestInv, requestVars, RequestsInOrder
<1> QED
  BY <1>1, <1>2, <1>3, <1>4, <1>5 DEF RequestInv

\* poll() accepts the new connections; requests do not move.
LEMMA RequestPoll ==
  ASSUME RequestInv, poll, UNCHANGED <<gateway, time>>
  PROVE  RequestInv'
<1> USE DEF poll, sequencer, gateway
<1>1. EntryTypes'
  BY DEF RequestInv, EntryTypes, NoSocket, Sockets
<1>2. Connections'
  <2>1. \A s : Made(s)' <=> Made(s)
    BY DEF Made, Sockets
  <2>2. connecting \in Seq(Sockets) /\ receive_sockets \in Seq(Sockets)
    BY DEF RequestInv, Connections
  <2>3. connecting' = <<>> /\ connecting' \in Seq(Sockets)
    OBVIOUS
  <2>4. receive_sockets' \in Seq(Sockets) /\ Len(receive_sockets') = Len(receive_sockets) + Len(connecting)
    BY <2>2
  <2>5. ASSUME NEW i \in 1 .. Len(receive_sockets') PROVE Made(receive_sockets'[i])
    <3>1. CASE i <= Len(receive_sockets)
      <4>1. receive_sockets'[i] = receive_sockets[i] /\ i \in 1 .. Len(receive_sockets)
        BY <2>2, <2>4, <3>1
      <4> QED
        BY <4>1 DEF RequestInv, Connections
    <3>2. CASE i > Len(receive_sockets)
      <4>1. receive_sockets'[i] = connecting[i - Len(receive_sockets)] /\ i - Len(receive_sockets) \in 1 .. Len(connecting)
        BY <2>2, <2>4, <3>2
      <4> QED
        BY <4>1 DEF RequestInv, Connections
    <3> QED
      BY <2>2, <2>4, <3>1, <3>2
  <2>6. \A c \in Client :
       IF cid_tcp_socket[c] = NoSocket THEN cid_next_exp_seq_num[c] = 1
       ELSE cid_tcp_socket[c][1] = c /\ Made(cid_tcp_socket[c])
    BY DEF RequestInv, Connections
  <2>7. UNCHANGED <<cid_tcp_socket, cid_next_exp_seq_num, session>>
    OBVIOUS
  <2> QED
    BY <2>1, <2>3, <2>4, <2>5, <2>6, <2>7 DEF Connections, NoSocket, Sockets
<1>3. Streams'
  BY DEF RequestInv, Streams, Made, Bindable, Socket, NoSocket, Sockets
<1>4. Bound' /\ Times'
  BY Zenon DEF RequestInv, Bound, Times
<1>5. Numbers'
  BY DEF RequestInv, Numbers
<1>6. RequestsInOrder'
  BY DEF RequestInv, RequestsInOrder
<1> QED
  BY <1>1, <1>2, <1>3, <1>4, <1>5, <1>6 DEF RequestInv

\* What is on the connections stays in order when only the clock moves.
LEMMA StreamsLater ==
  ASSUME RequestInv, time' = time + 1,
         UNCHANGED <<toServer, cid_tcp_socket, cid_next_exp_seq_num, session, next_outgoing_seq_num>>
  PROVE  Streams'
<1>1. ASSUME NEW s \in Sockets, NEW i \in 1 .. Len(toServer[s]) PROVE toServer[s][i].time <= time'
  <2>1. toServer[s] \in Seq(Message)
    BY DEF RequestInv, EntryTypes
  <2>2. toServer[s][i] \in Message
    BY <2>1
  <2>3. toServer[s][i].time <= time /\ toServer[s][i].time \in Nat /\ time \in Nat
    BY <2>2, Zenon DEF RequestInv, EntryTypes, Streams, Message
  <2> QED
    BY <2>3
<1>2. Streams
  BY DEF RequestInv
<1>3. \A s \in Sockets : /\ Made(s)' <=> Made(s)
                         /\ Bindable(s)' <=> Bindable(s)
                         /\ Socket(s[1])' = Socket(s[1])
  BY DEF Made, Bindable, Socket
<1> QED
  BY <1>1, <1>2, <1>3 DEF Streams

\* The clock advances.
LEMMA RequestTick ==
  ASSUME RequestInv, tick
  PROVE  RequestInv'
<1> USE DEF tick, exchange, sequencer, server, gateway
<1>0. time' = time + 1 /\ time \in Nat /\ time' \in Nat
  BY DEF RequestInv, EntryTypes
<1>1. EntryTypes' /\ Connections'
  BY <1>0 DEF RequestInv, EntryTypes, Connections, Made, NoSocket, Sockets
<1>2. Streams'
  <2>1. UNCHANGED <<toServer, cid_tcp_socket, cid_next_exp_seq_num, session, next_outgoing_seq_num>>
    OBVIOUS
  <2> QED
    BY <1>0, <2>1, StreamsLater
<1>3. Times'
  <2>1. ASSUME NEW i \in 1 .. Len(pending) PROVE pending[i].recv_time <= time'
    <3>1. pending[i].recv_time <= time /\ pending[i].recv_time \in Nat
      BY PendingTypes DEF RequestInv, Times
    <3> QED
      BY <1>0, <3>1
  <2>2. UNCHANGED <<pending, toServer>>
    OBVIOUS
  <2> QED
    BY <2>1, <2>2 DEF RequestInv, Times
<1>4. Bound'
  BY DEF RequestInv, Bound
<1>5. Numbers'
  BY DEF RequestInv, Numbers
<1>6. RequestsInOrder'
  BY DEF RequestInv, RequestsInOrder
<1> QED
  BY <1>1, <1>2, <1>3, <1>4, <1>5, <1>6 DEF RequestInv

\* The gateway gives the next number to the trade engine's request and sends it.
LEMMA RequestSend ==
  ASSUME RequestInv, NEW c \in Client, gatewaySend(c)
  PROVE  RequestInv'
<1> DEFINE s == Socket(c)
           m == [client |-> c, socket |-> s, seq_num |-> next_outgoing_seq_num[c], time |-> time]
<1>1. /\ toServer' = [toServer EXCEPT ![s] = Append(@, m)]
      /\ next_outgoing_seq_num' = [next_outgoing_seq_num EXCEPT ![c] = @ + 1]
      /\ UNCHANGED <<session, sequencer, server, connecting, time>>
  BY DEF gatewaySend
<1>2. s \in Sockets /\ s[1] = c /\ Made(s)
  BY DEF RequestInv, EntryTypes, Socket, Sockets, Made
<1>3. next_outgoing_seq_num[c] \in Nat /\ time \in Nat /\ m \in Message
  BY <1>2 DEF RequestInv, EntryTypes, Message
<1>4. toServer \in [Sockets -> Seq(Message)] /\ toServer[s] \in Seq(Message)
  BY <1>2 DEF RequestInv, EntryTypes
<1> HIDE DEF s, m
<1>5. toServer' \in [Sockets -> Seq(Message)] /\ toServer'[s] = Append(toServer[s], m)
      /\ \A x \in Sockets : x # s => toServer'[x] = toServer[x]
  BY <1>1, <1>2, <1>3, <1>4
<1>6. Len(toServer'[s]) = Len(toServer[s]) + 1 /\ Len(toServer[s]) \in Nat
      /\ \A i \in 1 .. Len(toServer[s]) + 1 : toServer'[s][i] = IF i = Len(toServer[s]) + 1 THEN m ELSE toServer[s][i]
  BY <1>3, <1>4, <1>5
<1>7. m.client = c /\ m.socket = s /\ m.seq_num = next_outgoing_seq_num[c] /\ m.time = time
  BY DEF m
<1>8. next_outgoing_seq_num' \in [Client -> Nat] /\ next_outgoing_seq_num'[c] = next_outgoing_seq_num[c] + 1
      /\ \A d \in Client : d # c => next_outgoing_seq_num'[d] = next_outgoing_seq_num[d]
  BY <1>1, <1>3 DEF RequestInv, EntryTypes
<1>9. UNCHANGED <<pending, incoming, fatal, overfull, session, time, cid_tcp_socket, cid_next_exp_seq_num, connecting, receive_sockets>>
  BY <1>1 DEF sequencer, server
<1>10. EntryTypes'
  BY <1>5, <1>8, <1>9 DEF RequestInv, EntryTypes, Sockets, NoSocket
<1>11. Connections'
  BY <1>9 DEF RequestInv, Connections, Made, Sockets, NoSocket
<1>12. Streams'
  <2> SUFFICES ASSUME NEW x \in Sockets
               PROVE  /\ ~Made(x) => toServer'[x] = <<>>
                      /\ \A i \in 1 .. Len(toServer'[x]) :
                           /\ toServer'[x][i].client = x[1] /\ toServer'[x][i].socket = x
                           /\ toServer'[x][i].time <= time
                           /\ Bindable(x) => toServer'[x][i].seq_num + 1 = cid_next_exp_seq_num[x[1]] + i
                      /\ \A i, j \in 1 .. Len(toServer'[x]) : i <= j => toServer'[x][i].time <= toServer'[x][j].time
                      /\ Bindable(x) /\ x = Socket(x[1]) =>
                           next_outgoing_seq_num'[x[1]] = cid_next_exp_seq_num[x[1]] + Len(toServer'[x])
    BY <1>9, Zenon DEF Streams, Made, Bindable, Socket, Sockets, NoSocket
  <2>1. /\ ~Made(x) => toServer[x] = <<>>
        /\ \A i \in 1 .. Len(toServer[x]) :
             /\ toServer[x][i].client = x[1] /\ toServer[x][i].socket = x
             /\ toServer[x][i].time <= time
             /\ Bindable(x) => toServer[x][i].seq_num + 1 = cid_next_exp_seq_num[x[1]] + i
        /\ \A i, j \in 1 .. Len(toServer[x]) : i <= j => toServer[x][i].time <= toServer[x][j].time
        /\ Bindable(x) /\ x = Socket(x[1]) =>
             next_outgoing_seq_num[x[1]] = cid_next_exp_seq_num[x[1]] + Len(toServer[x])
    BY Zenon DEF RequestInv, Streams
  <2>2. CASE x # s
    <3>1. toServer'[x] = toServer[x]
      BY <1>5, <2>2
    <3>2. x = Socket(x[1]) => next_outgoing_seq_num'[x[1]] = next_outgoing_seq_num[x[1]]
      <4>1. x[1] \in Client /\ (x = Socket(x[1]) => x[1] # c)
        BY <2>2 DEF s, Sockets, Socket
      <4> QED
        BY <1>8, <4>1
    <3> QED
      BY <2>1, <3>1, <3>2, Zenon
  <2>3. CASE x = s
    <3> DEFINE L == Len(toServer[s])
               e == cid_next_exp_seq_num[c]
    <3>1. L \in Nat /\ e \in Nat
      BY <1>6 DEF RequestInv, EntryTypes
    <3>2. x[1] = c /\ x = Socket(x[1])
      BY <1>2, <2>3 DEF s
    <3>3. Bindable(x) => next_outgoing_seq_num[c] = e + L
      BY <2>1, <2>3, <3>2
    <3>4. Bindable(x) => next_outgoing_seq_num'[c] = e + (L + 1)
      BY <1>8, <3>1, <3>3
    <3> HIDE DEF L, e
    <3>5. ASSUME NEW i \in 1 .. L + 1
          PROVE  /\ toServer'[s][i].client = c /\ toServer'[s][i].socket = s
                 /\ toServer'[s][i].time <= time
                 /\ Bindable(x) => toServer'[s][i].seq_num + 1 = e + i
      <4>1. CASE i = L + 1
        <5>1. toServer'[s][i] = m
          BY <1>6, <4>1 DEF L
        <5> QED
          BY <1>3, <1>7, <3>1, <3>3, <4>1, <5>1
      <4>2. CASE i # L + 1
        <5>1. i \in 1 .. L /\ toServer'[s][i] = toServer[s][i]
          BY <1>6, <3>1, <4>2 DEF L
        <5> QED
          BY <2>1, <2>3, <3>2, <5>1 DEF L, e
      <4> QED
        BY <4>1, <4>2
    <3>6. ASSUME NEW i \in 1 .. L + 1, NEW j \in 1 .. L + 1, i <= j PROVE toServer'[s][i].time <= toServer'[s][j].time
      <4>1. CASE j = L + 1
        <5>1. toServer'[s][j].time = time
          BY <1>6, <1>7, <4>1 DEF L
        <5> QED
          BY <3>5, <5>1
      <4>2. CASE j # L + 1
        <5>1. i \in 1 .. L /\ j \in 1 .. L /\ toServer'[s][i] = toServer[s][i] /\ toServer'[s][j] = toServer[s][j]
          BY <1>6, <3>1, <3>6, <4>2 DEF L
        <5> QED
          BY <2>1, <2>3, <3>6, <5>1 DEF L
      <4> QED
        BY <4>1, <4>2
    <3>7. Len(toServer'[s]) = L + 1
      BY <1>6 DEF L
    <3> QED
      BY <1>2, <2>3, <3>2, <3>4, <3>5, <3>6, <3>7 DEF e
  <2> QED
    BY <2>2, <2>3
<1>13. Times'
  <2>1. ASSUME NEW i \in 1 .. Len(pending), NEW k \in 1 .. Len(toServer'[pending[i].request.socket])
        PROVE  pending[i].recv_time <= toServer'[pending[i].request.socket][k].time
    <3>1. pending[i].recv_time <= time /\ pending[i].request.socket \in Sockets
      BY PendingTypes DEF RequestInv, Times
    <3>2. \A j \in 1 .. Len(toServer[pending[i].request.socket]) :
            pending[i].recv_time <= toServer[pending[i].request.socket][j].time
      BY DEF RequestInv, Times
    <3>3. CASE pending[i].request.socket # s
      BY <1>5, <3>1, <3>2, <3>3
    <3>4. CASE pending[i].request.socket = s
      <4>1. k \in 1 .. Len(toServer[s]) + 1
        BY <1>6, <3>4
      <4>2. CASE k = Len(toServer[s]) + 1
        <5>1. toServer'[s][k].time = time
          BY <1>6, <1>7, <4>1, <4>2
        <5> QED
          BY <3>1, <3>4, <5>1
      <4>3. CASE k # Len(toServer[s]) + 1
        <5>1. k \in 1 .. Len(toServer[s]) /\ toServer'[s][k] = toServer[s][k]
          BY <1>6, <4>1, <4>3
        <5> QED
          BY <3>2, <3>4, <5>1
      <4> QED
        BY <4>2, <4>3
    <3> QED
      BY <3>3, <3>4
  <2> QED
    BY <1>9, <2>1 DEF RequestInv, Times
<1>14. Bound'
  BY <1>9 DEF RequestInv, Bound
<1>15. Numbers'
  BY <1>9 DEF RequestInv, Numbers
<1>16. RequestsInOrder'
  BY <1>9 DEF RequestInv, RequestsInOrder
<1> QED
  BY <1>10, <1>11, <1>12, <1>13, <1>14, <1>15, <1>16 DEF RequestInv

\* A client that restarts sends from number 1 on a new connection.
LEMMA RequestRestart ==
  ASSUME RequestInv, NEW c \in Client, restart(c)
  PROVE  RequestInv'
<1> DEFINE s == <<c, session[c] + 1>>
           MadeNow(x) == x \in Sockets /\ x[2] <= session'[x[1]]
<1>0. session \in [Client -> 1 .. MaxSessions] /\ session[c] \in 1 .. MaxSessions /\ MaxSessions \in Nat
  BY OrderEntryAssumption DEF RequestInv, EntryTypes
<1>1. /\ session[c] < MaxSessions
      /\ session' = [session EXCEPT ![c] = @ + 1] /\ connecting' = Append(connecting, s)
      /\ next_outgoing_seq_num' = [next_outgoing_seq_num EXCEPT ![c] = 1]
      /\ UNCHANGED <<pending, incoming, fatal, overfull, time, cid_tcp_socket, cid_next_exp_seq_num, receive_sockets, toServer>>
  BY DEF restart, sequencer, server
<1>2. session' \in [Client -> 1 .. MaxSessions] /\ session'[c] = session[c] + 1
      /\ \A d \in Client : d # c => session'[d] = session[d]
  BY <1>0, <1>1
<1>3. s \in Sockets /\ s[1] = c /\ s[2] = session[c] + 1 /\ ~Made(s)
  BY <1>0, <1>1 DEF Made, Sockets
<1>4. ASSUME NEW x, Made(x) PROVE MadeNow(x)
  <2>1. x \in Sockets /\ x[1] \in Client /\ x[2] \in Nat /\ x[2] <= session[x[1]]
    BY <1>4 DEF Made, Sockets
  <2>2. session[x[1]] \in Nat /\ session[x[1]] <= session'[x[1]] /\ session'[x[1]] \in Nat
    BY <1>0, <1>2, <2>1
  <2>3. x[2] <= session'[x[1]]
    BY <2>1, <2>2
  <2> QED
    BY <2>1, <2>3
<1>5. MadeNow(s)
  BY <1>0, <1>2, <1>3
<1>6. next_outgoing_seq_num' \in [Client -> Nat] /\ next_outgoing_seq_num'[c] = 1
      /\ \A d \in Client : d # c => next_outgoing_seq_num'[d] = next_outgoing_seq_num[d]
  BY <1>1 DEF RequestInv, EntryTypes
<1>7. EntryTypes'
  BY <1>1, <1>2, <1>6 DEF RequestInv, EntryTypes, Sockets, NoSocket
<1>8. Connections'
  <2>1. connecting \in Seq(Sockets) /\ \A i \in 1 .. Len(connecting) : Made(connecting[i])
    BY DEF RequestInv, Connections
  <2> HIDE DEF s, MadeNow
  <2>2. connecting' \in Seq(Sockets) /\ Len(connecting') = Len(connecting) + 1
        /\ \A i \in 1 .. Len(connecting) + 1 : connecting'[i] = IF i = Len(connecting) + 1 THEN s ELSE connecting[i]
    BY <1>1, <1>3, <2>1
  <2>3. ASSUME NEW i \in 1 .. Len(connecting') PROVE MadeNow(connecting'[i])
    <3>1. CASE i = Len(connecting) + 1
      <4>1. connecting'[i] = s
        BY <2>1, <2>2, <3>1
      <4> QED
        BY <1>5, <4>1
    <3>2. CASE i # Len(connecting) + 1
      <4>1. connecting'[i] = connecting[i] /\ Made(connecting[i])
        BY <2>1, <2>2, <3>2
      <4> QED
        BY <1>4, <4>1
    <3> QED
      BY <3>1, <3>2
  <2>4. receive_sockets' \in Seq(Sockets) /\ \A i \in 1 .. Len(receive_sockets') : MadeNow(receive_sockets'[i])
    BY <1>1, <1>4 DEF RequestInv, Connections
  <2>5. ASSUME NEW d \in Client
        PROVE  IF cid_tcp_socket'[d] = NoSocket THEN cid_next_exp_seq_num'[d] = 1
               ELSE cid_tcp_socket'[d][1] = d /\ MadeNow(cid_tcp_socket'[d])
    <3>1. IF cid_tcp_socket[d] = NoSocket THEN cid_next_exp_seq_num[d] = 1
          ELSE cid_tcp_socket[d][1] = d /\ Made(cid_tcp_socket[d])
      BY DEF RequestInv, Connections
    <3>2. UNCHANGED <<cid_tcp_socket, cid_next_exp_seq_num>>
      BY <1>1
    <3> QED
      BY <1>4, <3>1, <3>2
  <2> QED
    BY <2>2, <2>3, <2>4, <2>5 DEF Connections, Made, Sockets, NoSocket, MadeNow
<1>9. Streams'
  <2>0. UNCHANGED <<toServer, time, cid_tcp_socket, cid_next_exp_seq_num>>
    BY <1>1
  <2> SUFFICES ASSUME NEW x \in Sockets
               PROVE  /\ ~MadeNow(x) => toServer[x] = <<>>
                      /\ \A i \in 1 .. Len(toServer[x]) :
                           /\ toServer[x][i].client = x[1] /\ toServer[x][i].socket = x
                           /\ toServer[x][i].time <= time
                           /\ Bindable(x) => toServer[x][i].seq_num + 1 = cid_next_exp_seq_num[x[1]] + i
                      /\ \A i, j \in 1 .. Len(toServer[x]) : i <= j => toServer[x][i].time <= toServer[x][j].time
                      /\ Bindable(x) /\ x = <<x[1], session'[x[1]]>> =>
                           next_outgoing_seq_num'[x[1]] = cid_next_exp_seq_num[x[1]] + Len(toServer[x])
    BY <2>0 DEF Streams, Made, Bindable, Socket, Sockets, NoSocket
  <2>1. /\ ~Made(x) => toServer[x] = <<>>
        /\ \A i \in 1 .. Len(toServer[x]) :
             /\ toServer[x][i].client = x[1] /\ toServer[x][i].socket = x
             /\ toServer[x][i].time <= time
             /\ Bindable(x) => toServer[x][i].seq_num + 1 = cid_next_exp_seq_num[x[1]] + i
        /\ \A i, j \in 1 .. Len(toServer[x]) : i <= j => toServer[x][i].time <= toServer[x][j].time
        /\ Bindable(x) /\ x = Socket(x[1]) =>
             next_outgoing_seq_num[x[1]] = cid_next_exp_seq_num[x[1]] + Len(toServer[x])
    BY Zenon DEF RequestInv, Streams
  <2>2. ASSUME Bindable(x), x = <<x[1], session'[x[1]]>>
        PROVE  next_outgoing_seq_num'[x[1]] = cid_next_exp_seq_num[x[1]] + Len(toServer[x])
    <3>1. x[1] \in Client
      BY DEF Sockets
    <3>2. CASE x[1] = c
      <4>1. x = s /\ toServer[x] = <<>>
        BY <1>2, <1>3, <2>1, <2>2, <3>2
      <4>2. cid_tcp_socket[c] = NoSocket
        <5>1. cid_tcp_socket[c] = NoSocket \/ Made(cid_tcp_socket[c])
          BY DEF RequestInv, Connections
        <5> QED
          BY <1>3, <2>2, <3>2, <4>1, <5>1 DEF Bindable
      <4>3. cid_next_exp_seq_num[c] = 1
        BY <4>2 DEF RequestInv, Connections
      <4> QED
        BY <1>6, <3>2, <4>1, <4>3
    <3>3. CASE x[1] # c
      <4>1. x = Socket(x[1])
        BY <1>2, <2>2, <3>1, <3>3 DEF Socket
      <4> QED
        BY <1>6, <2>1, <2>2, <3>1, <3>3, <4>1
    <3> QED
      BY <3>2, <3>3
  <2> QED
    BY <1>4, <2>1, <2>2
<1>10. Bound' /\ Times'
  BY <1>1 DEF RequestInv, Bound, Times
<1>11. Numbers'
  BY <1>1 DEF RequestInv, Numbers
<1>12. RequestsInOrder'
  BY <1>1 DEF RequestInv, RequestsInOrder
<1> QED
  BY <1>7, <1>8, <1>9, <1>10, <1>11, <1>12 DEF RequestInv

\* A place in a concatenation is in the first or in the second part.
LEMMA SplitIndex ==
  ASSUME NEW a \in Nat, NEW b \in Nat, NEW i \in 1 .. a + b
  PROVE  i \in 1 .. a \/ \E k \in 1 .. b : i = a + k
<1>1. CASE i <= a
  BY <1>1
<1>2. CASE i > a
  <2>1. i - a \in 1 .. b /\ i = a + (i - a)
    BY <1>2
  <2> QED
    BY <2>1
<1> QED
  BY <1>1, <1>2

\* The end of a pass: the requests are sorted by time and handed to the matching engine.
LEMMA RequestFinish ==
  ASSUME RequestInv, finishPass(Open), UNCHANGED <<gateway, time>>
  PROVE  RequestInv'
<1> DEFINE n == Len(pending)
           L == Len(incoming)
           t == Requests(pending)
<1>1. PICK f \in SortedOrders(pending) :
        /\ incoming' = incoming \o [i \in DOMAIN pending |-> pending[f[i]].request]
        /\ pending' = <<>>
        /\ overfull' = (overfull \/ Len(pending) > StableSize)
        /\ UNCHANGED fatal
  BY Zenon DEF finishPass, sequenceAndPublish
<1> DEFINE q == [i \in DOMAIN pending |-> pending[f[i]].request]
<1>2. ~fatal /\ UNCHANGED <<fatal, session, time, next_outgoing_seq_num, toServer, cid_tcp_socket, cid_next_exp_seq_num,
                            connecting, receive_sockets>>
  BY <1>1, Zenon DEF finishPass, gateway
<1>3. pending \in Seq([recv_time : Nat, request : Message]) /\ incoming \in Seq(Message) /\ n \in Nat /\ L \in Nat
      /\ DOMAIN pending = 1 .. n
  BY DEF RequestInv, EntryTypes
<1>4. \A i \in 1 .. n : f[i] \in 1 .. n
  BY <1>3 DEF SortedOrders, Bijection, Injection
<1>5. \A i \in 1 .. n : q[i] = pending[f[i]].request /\ q[i] \in Message
  BY <1>3, <1>4, PendingTypes DEF RequestInv
<1>6. q \in Seq(Message) /\ Len(q) = n
  BY <1>3, <1>5
<1>7. /\ \A c : Count(q, c, n) = Count(t, c, n)
      /\ (/\ n <= StableSize
          /\ \A i \in 1 .. n, j \in 1 .. n :
               i <= j /\ pending[i].request.client = pending[j].request.client => pending[i].recv_time <= pending[j].recv_time)
           => \A i \in 1 .. n : Count(q, pending[f[i]].request.client, i) = Count(t, pending[f[i]].request.client, f[i])
  BY <1>3, SortedCounts, Zenon
<1>8. \A i \in 1 .. n, j \in 1 .. n :
        i <= j /\ pending[i].request.client = pending[j].request.client => pending[i].recv_time <= pending[j].recv_time
  BY <1>3 DEF RequestInv, Times
<1>9. incoming' = incoming \o q
  BY <1>1
<1> HIDE DEF q, t
<1>10. /\ incoming' \in Seq(Message) /\ Len(incoming') = L + n
       /\ \A i \in 1 .. L : incoming'[i] = incoming[i]
       /\ \A i \in 1 .. n : incoming'[L + i] = q[i]
  <2>1. incoming \in Seq(Message) /\ q \in Seq(Message)
    BY <1>3, <1>6
  <2>2. /\ incoming \o q \in Seq(Message) /\ Len(incoming \o q) = Len(incoming) + Len(q)
        /\ \A i \in 1 .. Len(incoming) : (incoming \o q)[i] = incoming[i]
        /\ \A i \in 1 .. Len(q) : (incoming \o q)[Len(incoming) + i] = q[i]
    BY <2>1
  <2> QED
    BY <1>6, <1>9, <2>2
<1>11. \A i \in 1 .. L + n : i \in 1 .. L \/ \E k \in 1 .. n : i = L + k
  BY <1>3, SplitIndex, Zenon
<1>12. ASSUME NEW c
       PROVE  /\ \A k \in 0 .. L : Count(incoming', c, k) = Count(incoming, c, k)
              /\ \A k \in 0 .. n : Count(incoming', c, L + k) = Count(incoming, c, L) + Count(q, c, k)
  BY <1>3, <1>6, <1>9, CountConcat
<1>13. EntryTypes'
  <2>1. pending' \in Seq([recv_time : Nat, request : Message]) /\ overfull' \in BOOLEAN
    BY <1>1
  <2> QED
    BY <1>2, <1>10, <2>1, Zenon DEF RequestInv, EntryTypes, Sockets, NoSocket, Message
<1>14. Connections'
  BY <1>2 DEF RequestInv, Connections, Made, Sockets, NoSocket
<1>15. Streams'
  BY <1>2 DEF RequestInv, Streams, Made, Bindable, Socket, Sockets, NoSocket
<1>16. pending' = <<>> /\ Len(pending') = 0
  BY <1>1
<1>17. Bound'
  <2>1. ASSUME NEW i \in 1 .. Len(incoming') PROVE incoming'[i].socket = cid_tcp_socket[incoming'[i].client]
    <3>1. CASE i \in 1 .. L
      BY <1>10, <3>1 DEF RequestInv, Bound
    <3>2. ASSUME NEW k \in 1 .. n, i = L + k PROVE incoming'[i].socket = cid_tcp_socket[incoming'[i].client]
      <4>1. incoming'[i] = pending[f[k]].request /\ f[k] \in 1 .. n
        BY <1>4, <1>5, <1>10, <3>2
      <4> QED
        BY <4>1 DEF RequestInv, Bound
    <3> QED
      BY <1>10, <1>11, <3>1, <3>2
  <2> QED
    BY <1>2, <1>16, <2>1 DEF Bound
<1>18. Numbers'
  <2>1. ASSUME NEW c \in Client
        PROVE  cid_next_exp_seq_num[c] = 1 + Count(incoming', c, L + n) + Count(Requests(pending'), c, 0)
    <3>1. cid_next_exp_seq_num[c] = 1 + Count(incoming, c, L) + Count(t, c, n)
      BY <1>2 DEF RequestInv, Numbers, t
    <3>2. Count(incoming', c, L + n) = Count(incoming, c, L) + Count(t, c, n)
      BY <1>3, <1>7, <1>12
    <3>3. Count(incoming, c, L) \in Nat /\ Count(t, c, n) \in Nat /\ Count(Requests(pending'), c, 0) = 0
      BY <1>3, CountNext
    <3> QED
      BY <3>1, <3>2, <3>3
  <2> QED
    BY <1>2, <1>10, <1>16, <2>1 DEF Numbers
<1>19. Times'
  BY <1>16 DEF Times
<1>20. RequestsInOrder'
  <2>1. ASSUME NEW i \in 1 .. Len(incoming'), ~overfull'
        PROVE  incoming'[i].seq_num = Count(incoming', incoming'[i].client, i)
    <3>0. ~overfull /\ n <= StableSize
      <4>1. StableSize \in Nat /\ ~(n > StableSize) /\ ~overfull
        BY <1>1, <2>1, OrderEntryAssumption, Zenon
      <4> HIDE DEF n
      <4> QED
        BY <1>3, <4>1
    <3>1. CASE i \in 1 .. L
      <4>1. incoming[i].seq_num = Count(incoming, incoming[i].client, i)
        BY <1>3, <3>0, <3>1 DEF RequestInv, RequestsInOrder
      <4>2. i \in 0 .. L
        BY <1>3, <3>1
      <4> QED
        BY <1>10, <1>12, <3>1, <4>1, <4>2, Zenon
    <3>2. ASSUME NEW k \in 1 .. n, i = L + k PROVE incoming'[i].seq_num = Count(incoming', incoming'[i].client, i)
      <4> DEFINE c == pending[f[k]].request.client
      <4>1. incoming'[i] = pending[f[k]].request /\ f[k] \in 1 .. n /\ k \in 0 .. n
        <5>1. k \in 0 .. n
          BY <1>3
        <5> QED
          BY <1>4, <1>5, <1>10, <3>2, <5>1, Zenon
      <4>2. pending[f[k]].request.seq_num = Count(incoming, c, L) + Count(t, c, f[k])
        BY <1>2, <4>1 DEF RequestInv, Numbers, t
      <4>3. Count(q, c, k) = Count(t, c, f[k])
        BY <1>7, <1>8, <3>0
      <4>4. Count(incoming', c, L + k) = Count(incoming, c, L) + Count(q, c, k)
        BY <1>12, <4>1
      <4> QED
        BY <3>2, <4>1, <4>2, <4>3, <4>4
    <3> QED
      BY <1>10, <1>11, <3>1, <3>2
  <2>2. \A i, j \in 1 .. Len(incoming') : incoming'[j].client = incoming'[i].client => incoming'[j].socket = incoming'[i].socket
    BY <1>2, <1>17 DEF Bound
  <2>3. DOMAIN incoming' = 1 .. Len(incoming')
    BY <1>10
  <2> QED
    BY <2>1, <2>2, <2>3 DEF RequestsInOrder
<1> QED
  BY <1>13, <1>14, <1>15, <1>17, <1>18, <1>19, <1>20 DEF RequestInv
=============================================================================
