--------------------------- MODULE MCMEOrderBook ---------------------------
(* MEOrderBook for TLC, with prices that share no slot of the level table. *)
EXTENDS MEOrderBook

ASSUME NoCollision
=============================================================================
