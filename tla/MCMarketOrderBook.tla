------------------------- MODULE MCMarketOrderBook -------------------------
(* MarketOrderBook for TLC: order ids are interchangeable. *)
EXTENDS MarketOrderBook, TLC

Symmetry == Permutations(Id)

\* The numbers of a feature are read only in the step that computes them.
View == <<algo, orders, freed, bbo, stale, feature.of, quote>>
=============================================================================
