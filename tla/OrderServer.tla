----------------------------- MODULE OrderServer -----------------------------
(***************************************************************************)
(* The order server thread: it accepts connections, reads each of them in  *)
(* turn, checks the client's socket and sequence number, hands what it     *)
(* read to the sequencer at the end of the pass and sends the responses of *)
(* the matching engine.  One element of a stream is one whole message (the *)
(* framing is module TCPSocket).                                           *)
(***************************************************************************)
EXTENDS FIFOSequencer

CONSTANTS
  Client,
  Filling  \* bound: clients whose orders trade after they were answered

VARIABLES
  connecting,        \* connections not yet accepted, in order
  receive_sockets,   \* accepted connections
  scan,              \* place in the pass: 0 poll, i reading connection i, then publishing
  cid_tcp_socket,    \* Client -> connection or NoSocket
  cid_next_exp_seq_num,
  cid_next_outgoing_seq_num,
  toServer,          \* connection -> messages in the kernel with their arrival time
  toClient,          \* connection -> messages on the way back
  outgoing_responses,
  answered           \* requests the matching engine took from incoming

server == <<receive_sockets, scan, cid_tcp_socket, cid_next_exp_seq_num, cid_next_outgoing_seq_num>>
NoSocket == <<>>

SInit ==
  /\ QInit
  /\ receive_sockets = <<>> /\ scan = 0
  /\ cid_tcp_socket = [c \in Client |-> NoSocket]
  /\ cid_next_exp_seq_num = [c \in Client |-> 1]
  /\ cid_next_outgoing_seq_num = [c \in Client |-> 1]
  /\ outgoing_responses = <<>> /\ answered = 0

\* TCPServer::poll
poll ==
  /\ ~fatal /\ scan = 0
  /\ receive_sockets' = receive_sockets \o connecting
  /\ connecting' = <<>>
  /\ scan' = 1
  /\ UNCHANGED <<sequencer, cid_tcp_socket, cid_next_exp_seq_num, cid_next_outgoing_seq_num,
                 toServer, toClient, outgoing_responses, answered>>

\* Mutant: the client is bound to the connection it used last.
acceptRebinds(st, msg) ==
  IF msg.seq_num # st.exp THEN [st EXCEPT !.socket = msg.socket]
  ELSE [socket |-> msg.socket, exp |-> st.exp + 1, accepted |-> Append(st.accepted, msg)]

\* One turn of the framing loop on st = [socket, exp, accepted].
accept(st, msg) ==
  LET sock == IF st.socket = NoSocket THEN msg.socket ELSE st.socket
  IN  IF sock # msg.socket \/ msg.seq_num # st.exp THEN [st EXCEPT !.socket = sock]
      ELSE [socket |-> sock, exp |-> st.exp + 1, accepted |-> Append(st.accepted, msg)]

\* The loop over the messages read from connection s.
Accepted(s) ==
  LET c == s[1]
      st[i \in 0 .. Len(toServer[s])] ==
        IF i = 0 THEN [socket |-> cid_tcp_socket[c], exp |-> cid_next_exp_seq_num[c], accepted |-> <<>>]
                 ELSE accept(st[i - 1], toServer[s][i])
  IN  st[Len(toServer[s])]

\* recvmsg takes all that arrived, stamped with the time of the last of it; the callback runs.
recvCallback ==
  /\ ~fatal /\ scan \in DOMAIN receive_sockets
  /\ LET s == receive_sockets[scan]
         c == s[1]
         msgs == toServer[s]
         st == Accepted(s)
     IN  /\ msgs # <<>>
         /\ cid_tcp_socket' = [cid_tcp_socket EXCEPT ![c] = st.socket]
         /\ cid_next_exp_seq_num' = [cid_next_exp_seq_num EXCEPT ![c] = st.exp]
         /\ addClientRequest(msgs[Len(msgs)].time, st.accepted)
         /\ toServer' = [toServer EXCEPT ![s] = <<>>]
  /\ UNCHANGED <<connecting, receive_sockets, scan, cid_next_outgoing_seq_num, toClient,
                 outgoing_responses, answered>>

\* recvmsg would block: on to the next connection.
drained ==
  /\ ~fatal /\ scan \in DOMAIN receive_sockets
  /\ toServer[receive_sockets[scan]] = <<>>
  /\ scan' = scan + 1
  /\ UNCHANGED <<sequencer, connecting, receive_sockets, cid_tcp_socket, cid_next_exp_seq_num,
                 cid_next_outgoing_seq_num, toServer, toClient, outgoing_responses, answered>>

\* Mutant: the response is sent with the number the pass began with.
sendMutant(st, r) ==
  [to |-> [st.to EXCEPT ![cid_tcp_socket[r.client]] =
             Append(@, [seq_num |-> cid_next_outgoing_seq_num[r.client], response |-> r])],
   next |-> [st.next EXCEPT ![r.client] = @ + 1]]

\* One turn of the response loop on st = [to, next].
send(st, r) ==
  [to |-> [st.to EXCEPT ![cid_tcp_socket[r.client]] =
             Append(@, [seq_num |-> st.next[r.client], response |-> r])],
   next |-> [st.next EXCEPT ![r.client] = @ + 1]]

\* The response loop of run.
Sent ==
  LET st[i \in 0 .. Len(outgoing_responses)] ==
        IF i = 0 THEN [to |-> toClient, next |-> cid_next_outgoing_seq_num]
                 ELSE send(st[i - 1], outgoing_responses[i])
  IN  st[Len(outgoing_responses)]

\* recvFinishedCallback, then the response loop of run.  open: connections whose peer still reads.
finishPass(open) ==
  /\ ~fatal /\ scan = Len(receive_sockets) + 1
  /\ sequenceAndPublish
  /\ LET st == Sent
     IN  /\ toClient' = [s \in DOMAIN toClient |-> IF s \in open THEN st.to[s] ELSE <<>>]
         /\ cid_next_outgoing_seq_num' = st.next
  /\ outgoing_responses' = <<>>
  /\ scan' = 0
  /\ UNCHANGED <<connecting, receive_sockets, cid_tcp_socket, cid_next_exp_seq_num, toServer, answered>>

\* The matching engine thread answers the next request, and may fill an order it took before.
processClientRequest ==
  /\ ~fatal /\ answered < Len(incoming)
  /\ answered' = answered + 1
  /\ \E fills \in {<<>>} \cup {<<[client |-> c]>> : c \in {incoming[i].client : i \in 1 .. answered} \cap Filling} :
       outgoing_responses' = outgoing_responses \o <<[client |-> incoming[answered + 1].client]>> \o fills
  /\ UNCHANGED <<sequencer, connecting, server, toServer, toClient>>

=============================================================================
