------------------------- MODULE MarketDataPublisher -------------------------
(***************************************************************************)
(* The loop of MarketDataPublisher::run over the queue of market updates   *)
(* from the matching engine.  It sends the update to the incremental       *)
(* stream, gives the slot back with updateReadIndex, and only then copies  *)
(* the update, through the same pointer, to the snapshot synthesizer.      *)
(***************************************************************************)
EXTENDS LFQueue

VARIABLES
  market_update,  \* the pointer into outgoing_md_updates_ (a slot), or NoSlot
  forwarded,      \* the update last copied to snapshot_md_updates_
  crowded         \* history: since the last send, the matching engine was at an update started with
                  \* N - 1 or more in the ring

pvars == <<store, next_write_index, next_read_index, num_elements, wpc, rpc, item,
           market_update, forwarded, crowded>>

NoSlot == -1

PInit == QueueInit /\ market_update = NoSlot /\ forwarded = item /\ crowded = FALSE

\* getNextToRead and the two sends to the incremental socket.
sendIncremental ==
  /\ market_update = NoSlot
  /\ getNextToRead
  /\ market_update' = next_read_index
  /\ crowded' = (wpc = "written" /\ num_elements >= N - 1)
  /\ UNCHANGED forwarded

\* outgoing_md_updates_->updateReadIndex()
release ==
  /\ advanceReadIndex \/ countRead
  /\ UNCHANGED <<market_update, forwarded, crowded>>

\* Mutant: the copy comes from the slot that is now next to read.
forwardMutant ==
  /\ market_update # NoSlot
  /\ rpc = "idle"
  /\ forwarded' \in ReadOf(next_read_index)
  /\ market_update' = NoSlot
  /\ UNCHANGED <<queueVars, crowded>>

\* next_write->me_market_update_ = *market_update, and the next sequence number.
forward ==
  /\ market_update # NoSlot
  /\ rpc = "idle"
  /\ forwarded' \in ReadOf(market_update)
  /\ market_update' = NoSlot
  /\ UNCHANGED <<queueVars, crowded>>

\* MatchingEngine::sendMarketUpdate.
sendMarketUpdate ==
  /\ Write
  /\ crowded' = (crowded \/ (wpc = "idle" /\ num_elements >= N - 1))
  /\ UNCHANGED <<market_update, forwarded>>

PNext == sendMarketUpdate \/ sendIncremental \/ release \/ forward

PSpec == PInit /\ [][PNext]_pvars

\* Both threads spin and are never blocked; that the matching engine has an update is not
\* assumed.
PFairSpec ==
  /\ PSpec
  /\ WF_pvars(sendMarketUpdate /\ wpc # "idle")
  /\ WF_pvars(sendIncremental \/ release \/ forward)

-----------------------------------------------------------------------------
(* Properties. *)

\* The pointer is null or points into the ring.
PTypeOK == market_update \in 0 .. N - 1 \cup {NoSlot} /\ forwarded \in Value

(***************************************************************************)
(* "Forward this incremental market data update the snapshot synthesizer": *)
(* the update the synthesizer gets is the one that went out on the         *)
(* incremental stream under the same sequence number, although it is read  *)
(* from a slot already given back, unless the matching engine started an   *)
(* update in between with N - 1 elements in the ring.                      *)
(***************************************************************************)
ForwardsWhatItSent == market_update = NoSlot => forwarded = item \/ crowded

(***************************************************************************)
(* The slot of the update stays as it is from the send to the copy, with   *)
(* the producer at work in between.                                        *)
(***************************************************************************)
SlotStable == market_update # NoSlot /\ ~crowded =>
                store[market_update] = item /\ ~(wpc = "written" /\ next_write_index = market_update)

=============================================================================
