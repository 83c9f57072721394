------------------------------ MODULE FifoQueue ------------------------------
(***************************************************************************)
(* What a queue between two threads promises that has room for N elements  *)
(* and does not tell its producer when it is full: elements are taken in   *)
(* the order they were put, each exactly once, until the producer is N     *)
(* elements ahead.  From there on it spoils old elements, never one of the *)
(* N - 1 newest.                                                           *)
(***************************************************************************)
EXTENDS Integers, Sequences

CONSTANTS
  Value,
  N       \* elements there is room for

VARIABLES
  q,    \* elements put and not yet taken
  item  \* the element taken last

vars == <<q, item>>

Init == q = <<>> /\ item \in Value

Put(v) == q' = Append(q, v) /\ UNCHANGED item

\* The element taken is the oldest, or anything if it is being overwritten.
Get == /\ q # <<>>
       /\ item' = Head(q) \/ (Len(q) >= N /\ item' \in Value)
       /\ q' = Tail(q)

\* The producer, with N elements not given back, starts on one more: the element its reader has
\* in use, or elements that have N - 1 newer ones behind them, become something else.
Overrun == /\ Len(q) >= N - 1
           /\ q' \in [1 .. Len(q) -> Value]
           /\ \A j \in 1 .. Len(q) : Len(q) - j < N - 1 => q'[j] = q[j]
           /\ item' \in Value

Next == Get \/ Overrun \/ \E v \in Value : Put(v)

Spec == Init /\ [][Next]_vars
=============================================================================
