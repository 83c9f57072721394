---------------------------- MODULE FIFOSequencer ----------------------------
(***************************************************************************)
(* The sequencer of the order server: requests read from all connections   *)
(* in one pass, sorted by kernel receive time and handed to the matching   *)
(* engine.  std::sort keeps no order among equal times; the library's sort *)
(* happens to keep it for arrays of at most StableSize elements (16), and  *)
(* gives some order beyond that.                                           *)
(***************************************************************************)
EXTENDS Integers, Sequences, Functions

CONSTANTS
  MaxPending,  \* ME_MAX_PENDING_REQUESTS
  StableSize   \* longest array std::sort is stable on

VARIABLES
  pending,   \* pending_client_requests_ up to pending_size_
  incoming,  \* every request written to incoming_requests_, in order
  fatal,     \* the process ended in FATAL
  overfull   \* history: more than StableSize requests were sorted at once

sequencer == <<pending, incoming, fatal, overfull>>

QInit == pending = <<>> /\ incoming = <<>> /\ fatal = FALSE /\ overfull = FALSE

\* addClientRequest for each of requests.
addClientRequest(rx_time, requests) ==
  LET added == pending \o [i \in DOMAIN requests |-> [recv_time |-> rx_time, request |-> requests[i]]]
  IN  /\ pending' = SubSeq(added, 1, IF Len(added) > MaxPending THEN MaxPending ELSE Len(added))
      /\ fatal' = (Len(added) > MaxPending)
      /\ UNCHANGED <<incoming, overfull>>

\* The orders std::sort may leave the elements of p in.
SortedOrders(p) ==
  {f \in Bijection(DOMAIN p, DOMAIN p) :
     \A i, j \in DOMAIN p : i < j =>
       /\ p[f[i]].recv_time <= p[f[j]].recv_time
       /\ Len(p) <= StableSize /\ p[f[i]].recv_time = p[f[j]].recv_time => f[i] < f[j]}

sequenceAndPublish ==
  \E f \in SortedOrders(pending) :
    /\ incoming' = incoming \o [i \in DOMAIN pending |-> pending[f[i]].request]
    /\ pending' = <<>>
    /\ overfull' = (overfull \/ Len(pending) > StableSize)
    /\ UNCHANGED fatal

=============================================================================
