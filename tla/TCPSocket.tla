------------------------------ MODULE TCPSocket ------------------------------
(***************************************************************************)
(* One direction of a TCP connection between an order gateway and the      *)
(* order server: the send buffer of common/tcp_socket.cpp, the kernel's    *)
(* byte stream, which takes and gives any number of bytes at a time, the   *)
(* receive buffer, and the framing loop of the two recvCallback.           *)
(*                                                                         *)
(* A message is a frame of FrameLen bytes: sequence number first, body     *)
(* second, handed over by two calls of send.  Byte k of message m is the   *)
(* pair <<m, k>>, so that a shifted frame is seen as one.                  *)
(***************************************************************************)
EXTENDS Integers, Sequences

CONSTANTS
  FrameLen,    \* sizeof(OMClientRequest) or sizeof(OMClientResponse)
  BufferSize,  \* TCPBufferSize
  KernelSize,  \* bytes the kernel holds
  MaxMessages  \* bound: messages sent

ASSUME TCPAssumption ==
  /\ FrameLen \in Nat /\ FrameLen > 1
  /\ BufferSize \in Nat /\ BufferSize >= FrameLen
  /\ KernelSize \in Nat \ {0} /\ MaxMessages \in Nat

VARIABLES
  out,       \* [data, index, asserted]: outbound_data_ up to next_send_valid_index_,
             \* next_send_index_, and whether the capacity ASSERT ended the process
  sent,      \* history: messages passed to send
  wclosed,   \* closed_ of the sending socket
  stream,    \* bytes in the kernel
  inbound,   \* inbound_data_ up to next_rcv_valid_index_
  rclosed,   \* closed_ of the receiving socket
  received   \* history: frames the callback took

tcpVars == <<out, sent, wclosed, stream, inbound, rclosed, received>>
writer == <<out, sent, wclosed>>
reader == <<inbound, rclosed, received>>

Frame(m) == [k \in 1 .. FrameLen |-> <<m, k>>]
Pending(b) == SubSeq(b.data, b.index + 1, Len(b.data))

TCPInit ==
  /\ out = [data |-> <<>>, index |-> 0, asserted |-> FALSE]
  /\ sent = 0 /\ stream = <<>> /\ inbound = <<>> /\ received = <<>>
  /\ wclosed = FALSE /\ rclosed = FALSE

-----------------------------------------------------------------------------
(* The sending process. *)

\* Mutant: the buffer is moved down and the index stays.
sendKeepsIndex(b, bytes) ==
  LET c == IF Len(b.data) + Len(bytes) > BufferSize /\ b.index > 0
           THEN [b EXCEPT !.data = Pending(b)] ELSE b
  IN  IF Len(c.data) + Len(bytes) > BufferSize THEN [c EXCEPT !.asserted = TRUE]
      ELSE [c EXCEPT !.data = c.data \o bytes]

send(b, bytes) ==
  LET c == IF Len(b.data) + Len(bytes) > BufferSize /\ b.index > 0
           THEN [b EXCEPT !.data = Pending(b), !.index = 0] ELSE b
  IN  IF b.asserted THEN b
      ELSE IF Len(c.data) + Len(bytes) > BufferSize THEN [c EXCEPT !.asserted = TRUE]
      ELSE [c EXCEPT !.data = c.data \o bytes]

\* The run loop passes on one message; a closed socket drops it.
sendMessage ==
  /\ ~out.asserted
  /\ sent < MaxMessages
  /\ sent' = sent + 1
  /\ out' = IF wclosed THEN out
            ELSE send(send(out, SubSeq(Frame(sent + 1), 1, 1)), SubSeq(Frame(sent + 1), 2, FrameLen))
  /\ UNCHANGED <<wclosed, stream, reader>>

\* The send loop of sendAndRecv: the kernel takes n bytes before it would block.
transmit ==
  /\ ~out.asserted /\ ~wclosed
  /\ \E n \in 1 .. Len(Pending(out)) :
       /\ Len(stream) + n <= KernelSize
       /\ stream' = stream \o SubSeq(Pending(out), 1, n)
       /\ out' = IF n = Len(Pending(out)) THEN [out EXCEPT !.data = <<>>, !.index = 0]
                                          ELSE [out EXCEPT !.index = @ + n]
  /\ UNCHANGED <<sent, wclosed, reader>>

\* The send loop when the kernel reports an error: closeSocket.
transmitFails ==
  /\ ~out.asserted /\ ~wclosed
  /\ Pending(out) # <<>>
  /\ wclosed' = TRUE
  /\ UNCHANGED <<out, sent, stream, reader>>

-----------------------------------------------------------------------------
(* The receiving process. *)

\* Mutant: one frame at most is taken from the buffer.
WholeFramesMutant(bytes) == IF Len(bytes) >= FrameLen THEN 1 ELSE 0

\* Frames the callback's loop takes from the buffer.
WholeFrames(bytes) == Len(bytes) \div FrameLen

\* Mutant: what is left of the last frame is not moved to the front.
recvCallbackMutant(bytes) ==
  LET n == WholeFrames(bytes)
  IN  /\ received' = received \o [i \in 1 .. n |-> SubSeq(bytes, (i - 1) * FrameLen + 1, i * FrameLen)]
      /\ inbound' = IF n = 0 THEN bytes ELSE <<>>

recvCallback(bytes) ==
  LET n == WholeFrames(bytes)
  IN  /\ received' = received \o [i \in 1 .. n |-> SubSeq(bytes, (i - 1) * FrameLen + 1, i * FrameLen)]
      /\ inbound' = SubSeq(bytes, n * FrameLen + 1, Len(bytes))

\* One turn of the receive loop: recvmsg and the callback.
receive ==
  /\ ~rclosed
  /\ \E n \in 1 .. Len(stream) :
       /\ Len(inbound) + n <= BufferSize
       /\ stream' = SubSeq(stream, n + 1, Len(stream))
       /\ recvCallback(inbound \o SubSeq(stream, 1, n))
  /\ UNCHANGED <<rclosed, writer>>

\* recvmsg returns zero, all bytes of a closed peer being read: closeSocket.
receiveEnds ==
  /\ ~rclosed
  /\ (wclosed \/ out.asserted) /\ stream = <<>>
  /\ rclosed' = TRUE
  /\ UNCHANGED <<stream, inbound, received, writer>>

\* recvmsg fails: closeSocket.
receiveFails ==
  /\ ~rclosed
  /\ rclosed' = TRUE
  /\ UNCHANGED <<stream, inbound, received, writer>>

TCPNext == sendMessage \/ transmit \/ transmitFails \/ receive \/ receiveEnds \/ receiveFails

TCPSpec == TCPInit /\ [][TCPNext]_tcpVars

\* Both run loops spin; the kernel moves bytes when it has room.
TCPFairSpec == TCPSpec /\ WF_tcpVars(transmit) /\ WF_tcpVars(receive)

-----------------------------------------------------------------------------
(* Properties. *)

\* The bytes of frames of FrameLen bytes, put together.
Joined(frames) ==
  [p \in 1 .. Len(frames) * FrameLen |->
     frames[(p - 1) \div FrameLen + 1][((p - 1) % FrameLen) + 1]]

Bytes(n) == Joined([m \in 1 .. n |-> Frame(m)])

(***************************************************************************)
(* However the kernel splits the bytes and however often the buffer is     *)
(* moved down, frames, partial frame, stream and send buffer put together  *)
(* are the bytes of the messages sent: nothing is lost, repeated or        *)
(* shifted while the sending socket is open.                               *)
(***************************************************************************)
BytesConserved ==
  ~wclosed /\ ~out.asserted =>
    Joined(received) \o inbound \o stream \o Pending(out) = Bytes(sent)

\* Frames are read where they begin, after an error and a close too: the callback gets the
\* first messages sent, whole and in order.
FramesAligned == \A i \in DOMAIN received : i <= sent /\ received[i] = Frame(i)

\* A message passed to send arrives, unless the connection or the process ends.
Arrives ==
  \A m \in 1 .. MaxMessages :
    sent >= m ~> Len(received) >= m \/ wclosed \/ rclosed \/ out.asserted

=============================================================================
