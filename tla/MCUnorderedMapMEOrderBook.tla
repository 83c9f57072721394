--------------------- MODULE MCUnorderedMapMEOrderBook ---------------------
(* UnorderedMapMEOrderBook for TLC. *)
EXTENDS UnorderedMapMEOrderBook, TLC

ASSUME Book!NoCollision

\* The ids a client gives its orders are only compared.
Symmetry == Permutations(OrderId)

\* Nothing the book does depends on what it has sent.
View == <<poolVars, next_market_order_id, book, aggressor>>
=============================================================================
