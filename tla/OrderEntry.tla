------------------------------ MODULE OrderEntry ------------------------------
(***************************************************************************)
(* Order gateways and order server together.  A gateway numbers the        *)
(* requests of its trade engine and checks the numbers of the responses.   *)
(* A client process may end and start again: its gateway connects anew and *)
(* counts from one.                                                        *)
(***************************************************************************)
EXTENDS OrderServer, FiniteSets

CONSTANTS
  MaxRequests,  \* bound: requests of one run of a client
  MaxSessions,  \* bound: runs of one client
  Restarting,   \* bound: clients whose process may start again
  MaxTime       \* bound: kernel time, in microseconds

ASSUME OrderEntryAssumption ==
  /\ MaxPending \in Nat \ {0} /\ StableSize \in Nat \ {0}
  /\ IsFiniteSet(Client) /\ Restarting \subseteq Client
  /\ MaxRequests \in Nat /\ MaxSessions \in Nat \ {0} /\ MaxTime \in Nat

VARIABLES
  session,                 \* Client -> which run of the process this is
  next_outgoing_seq_num,   \* of the gateway
  next_exp_seq_num,        \* of the gateway
  ignored,                 \* Client -> responses its gateway refused
  time                     \* clock of the exchange's kernel

gateway == <<session, next_outgoing_seq_num, next_exp_seq_num, ignored>>
exchange == <<sequencer, server, connecting, toServer, toClient, outgoing_responses, answered>>
vars == <<gateway, exchange, time>>

Socket(c) == <<c, session[c]>>
Sockets == Client \X (1 .. MaxSessions)
Open == {Socket(c) : c \in Client}

Init ==
  /\ SInit
  /\ session = [c \in Client |-> 1]
  /\ connecting \in Bijection(1 .. Cardinality(Client), Client \X {1})
  /\ toServer = [s \in Sockets |-> <<>>] /\ toClient = [s \in Sockets |-> <<>>]
  /\ next_outgoing_seq_num = [c \in Client |-> 1]
  /\ next_exp_seq_num = [c \in Client |-> 1]
  /\ ignored = [c \in Client |-> 0]
  /\ time = 0

\* Mutant: the number is not moved on.
gatewaySendMutant(c) ==
  /\ next_outgoing_seq_num[c] <= MaxRequests
  /\ toServer' = [toServer EXCEPT ![Socket(c)] =
       Append(@, [client |-> c, socket |-> Socket(c), seq_num |-> 1, time |-> time])]
  /\ next_outgoing_seq_num' = [next_outgoing_seq_num EXCEPT ![c] = @ + 1]
  /\ UNCHANGED <<session, next_exp_seq_num, ignored, sequencer, server, connecting, toClient,
                 outgoing_responses, answered, time>>

\* OrderGateway::run sends the next request, and it arrives at the exchange's kernel.
gatewaySend(c) ==
  /\ next_outgoing_seq_num[c] <= MaxRequests
  /\ toServer' = [toServer EXCEPT ![Socket(c)] =
       Append(@, [client |-> c, socket |-> Socket(c), seq_num |-> next_outgoing_seq_num[c], time |-> time])]
  /\ next_outgoing_seq_num' = [next_outgoing_seq_num EXCEPT ![c] = @ + 1]
  /\ UNCHANGED <<session, next_exp_seq_num, ignored, sequencer, server, connecting, toClient,
                 outgoing_responses, answered, time>>

\* OrderGateway::recvCallback on the next response.
gatewayRecv(c) ==
  /\ toClient[Socket(c)] # <<>>
  /\ LET m == Head(toClient[Socket(c)])
         fits == m.response.client = c /\ m.seq_num = next_exp_seq_num[c]
     IN  /\ next_exp_seq_num' = [next_exp_seq_num EXCEPT ![c] = IF fits THEN @ + 1 ELSE @]
         /\ ignored' = [ignored EXCEPT ![c] = IF fits THEN @ ELSE @ + 1]
  /\ toClient' = [toClient EXCEPT ![Socket(c)] = Tail(@)]
  /\ UNCHANGED <<session, next_outgoing_seq_num, sequencer, server, connecting, toServer,
                 outgoing_responses, answered, time>>

\* The client process ends and starts again.
restart(c) ==
  /\ c \in Restarting /\ session[c] < MaxSessions
  /\ session' = [session EXCEPT ![c] = @ + 1]
  /\ connecting' = Append(connecting, <<c, session[c] + 1>>)
  /\ toClient' = [toClient EXCEPT ![Socket(c)] = <<>>]
  /\ next_outgoing_seq_num' = [next_outgoing_seq_num EXCEPT ![c] = 1]
  /\ next_exp_seq_num' = [next_exp_seq_num EXCEPT ![c] = 1]
  /\ ignored' = [ignored EXCEPT ![c] = 0]
  /\ UNCHANGED <<sequencer, server, toServer, outgoing_responses, answered, time>>

tick == time < MaxTime /\ time' = time + 1 /\ UNCHANGED <<gateway, exchange>>

ServerStep == poll \/ recvCallback \/ drained \/ finishPass(Open)

Next ==
  \/ (ServerStep \/ processClientRequest) /\ UNCHANGED <<gateway, time>>
  \/ \E c \in Client : gatewaySend(c) \/ gatewayRecv(c) \/ restart(c)
  \/ tick

Spec == Init /\ [][Next]_vars

-----------------------------------------------------------------------------
(* Properties. *)

\* How many of the first n requests of s are of client c.
Count(s, c, n) == Cardinality({i \in 1 .. n : s[i].client = c})

Requests(p) == [i \in DOMAIN p |-> p[i].request]

(***************************************************************************)
(* The matching engine gets a client's requests as one run of the client   *)
(* sent them: from the first on, without gap, repetition or change of      *)
(* order, and never mixed with those of another run.  Only a pass that     *)
(* sorts more than StableSize requests may change the order.               *)
(***************************************************************************)
RequestsInOrder ==
  \A i \in DOMAIN incoming :
    LET c == incoming[i].client
    IN  /\ ~overfull => incoming[i].seq_num = Count(incoming, c, i)
        /\ \A j \in DOMAIN incoming : incoming[j].client = c => incoming[j].socket = incoming[i].socket

\* "this should never happen": a gateway never meets a response of another client or with a
\* number other than the one it expects, restarts included.
ResponsesFit == \A c \in Client : ignored[c] = 0

(***************************************************************************)
(* No request of a client's first run is lost or taken twice on its way    *)
(* through the connection, the sequencer and the queue: each is in exactly *)
(* one of them, unless the sequencer ended the process.                    *)
(***************************************************************************)
RequestsConserved ==
  \A c \in Client : session[c] = 1 /\ ~fatal =>
    next_outgoing_seq_num[c] - 1 =
      Len(toServer[Socket(c)]) + Count(incoming, c, Len(incoming)) + Count(Requests(pending), c, Len(pending))

=============================================================================
