--------------------------- MODULE PriceLevelRing ---------------------------
(***************************************************************************)
(* The circular doubly linked list of the price levels of one side of an   *)
(* order book (me_order_book.h, addOrdersAtPrice and removeOrdersAtPrice;  *)
(* market_order_book.h and unordered_map_me_order_book.h have the same     *)
(* code).  A level is named by its price.  The search of addOrdersAtPrice  *)
(* for the place of a new level takes one step per loop iteration; no      *)
(* other operation can come between, the book has one thread.              *)
(***************************************************************************)
EXTENDS Integers

CONSTANT LevelPrice  \* the prices of the levels

ASSUME PriceAssumption == LevelPrice \subseteq Nat

Nil == -1

VARIABLES
  side,        \* the side this list belongs to
  best,        \* bids_by_price_ or asks_by_price_
  next_entry,  \* MEOrdersAtPrice::next_entry_ of the levels in the list
  prev_entry,  \* MEOrdersAtPrice::prev_entry_
  adding       \* locals of addOrdersAtPrice; <<>> outside of it

ringVars == <<side, best, next_entry, prev_entry, adding>>

Quiet == adding = <<>>

Level == DOMAIN next_entry

BetterLevel(p, q) == IF side = "BUY" THEN p > q ELSE p < q

\* The condition of add_after: level p belongs after level q.
After(p, q) == (side = "SELL" /\ p > q) \/ (side = "BUY" /\ p < q)

\* Pointers f with the new object p set to v.
With(f, p, v) == [q \in DOMAIN f \cup {p} |-> IF q = p THEN v ELSE f[q]]

Without(f, p) == [q \in DOMAIN f \ {p} |-> f[q]]

Locals == [new : LevelPrice, target : LevelPrice, add_after : BOOLEAN]

RingInit ==
  /\ side \in {"BUY", "SELL"}
  /\ best = Nil
  /\ next_entry = <<>>
  /\ prev_entry = <<>>
  /\ adding = <<>>

\* addOrdersAtPrice on an empty side.
addFirst(p) ==
  /\ Quiet
  /\ best = Nil
  /\ best' = p
  /\ next_entry' = With(next_entry, p, p)
  /\ prev_entry' = With(prev_entry, p, p)
  /\ UNCHANGED <<side, adding>>

\* Mutant: the search does not move past the best level first.
addOrdersAtPriceMutant(p) ==
  /\ Quiet
  /\ best # Nil
  /\ p \notin Level
  /\ adding' = [new |-> p, target |-> best, add_after |-> After(p, best)]
  /\ UNCHANGED <<side, best, next_entry, prev_entry>>

\* addOrdersAtPrice up to its loop.  addOrder calls it only for a new price.
addOrdersAtPrice(p) ==
  /\ Quiet
  /\ best # Nil
  /\ p \notin Level
  /\ adding' = IF After(p, best)
               THEN [new |-> p, target |-> next_entry[best],
                     add_after |-> After(p, next_entry[best])]
               ELSE [new |-> p, target |-> best, add_after |-> FALSE]
  /\ UNCHANGED <<side, best, next_entry, prev_entry>>

\* Mutant: the loop does not stop when it is back at the best level.
SearchingMutant == adding.add_after

\* The condition of the loop.
Searching == adding.add_after /\ adding.target # best

\* One iteration of the loop.
search ==
  /\ ~Quiet
  /\ Searching
  /\ LET add_after == After(adding.new, adding.target)
     IN  adding' = [adding EXCEPT !.add_after = add_after,
                                  !.target = IF add_after THEN next_entry[@] ELSE @]
  /\ UNCHANGED <<side, best, next_entry, prev_entry>>

\* The end of addOrdersAtPrice when the new level goes after target.
insertAfter ==
  /\ ~Quiet
  /\ ~Searching
  /\ adding.add_after
  /\ LET new    == adding.new
         target == IF adding.target = best THEN prev_entry[best] ELSE adding.target
     IN  /\ prev_entry' = With([prev_entry EXCEPT ![next_entry[target]] = new], new, target)
         /\ next_entry' = With([next_entry EXCEPT ![target] = new], new, next_entry[target])
  /\ adding' = <<>>
  /\ UNCHANGED <<side, best>>

\* Mutant: a new best level does not become the head of the list.
insertBeforeMutant ==
  /\ ~Quiet
  /\ ~Searching
  /\ ~adding.add_after
  /\ LET new    == adding.new
         target == adding.target
     IN  /\ prev_entry' = With([prev_entry EXCEPT ![target] = new], new, prev_entry[target])
         /\ next_entry' = With([next_entry EXCEPT ![prev_entry[target]] = new], new, target)
  /\ adding' = <<>>
  /\ UNCHANGED <<side, best>>

\* The end of addOrdersAtPrice when the new level goes before target.
insertBefore ==
  /\ ~Quiet
  /\ ~Searching
  /\ ~adding.add_after
  /\ LET new    == adding.new
         target == adding.target
         linked == With([next_entry EXCEPT ![prev_entry[target]] = new], new, target)
     IN  /\ prev_entry' = With([prev_entry EXCEPT ![target] = new], new, prev_entry[target])
         /\ \/ /\ BetterLevel(new, best)
               /\ next_entry' = [linked EXCEPT ![target] = IF @ = best THEN new ELSE @]
               /\ best' = new
            \/ /\ ~BetterLevel(new, best)
               /\ next_entry' = linked
               /\ UNCHANGED best
  /\ adding' = <<>>
  /\ UNCHANGED side

removeOrdersAtPrice(p) ==
  /\ Quiet
  /\ p \in Level
  /\ \/ /\ next_entry[p] = p
        /\ best' = Nil
        /\ next_entry' = Without(next_entry, p)
        /\ prev_entry' = Without(prev_entry, p)
     \/ /\ next_entry[p] # p
        /\ next_entry' = Without([next_entry EXCEPT ![prev_entry[p]] = next_entry[p]], p)
        /\ prev_entry' = Without([prev_entry EXCEPT ![next_entry[p]] = prev_entry[p]], p)
        /\ best' = IF p = best THEN next_entry[p] ELSE best
  /\ UNCHANGED <<side, adding>>

RingNext ==
  \/ \E p \in LevelPrice : addFirst(p) \/ addOrdersAtPrice(p) \/ removeOrdersAtPrice(p)
  \/ search \/ insertAfter \/ insertBefore

RingSpec == RingInit /\ [][RingNext]_ringVars

\* The matching engine thread is not blocked inside addOrdersAtPrice.
RingFairSpec == RingSpec /\ WF_ringVars(search) /\ WF_ringVars(insertAfter \/ insertBefore)

-----------------------------------------------------------------------------
(* Properties. *)

\* The pointers of listed levels point to listed levels.
RingTypeOK ==
  /\ side \in {"BUY", "SELL"}
  /\ Level \subseteq LevelPrice
  /\ next_entry \in [Level -> Level]
  /\ prev_entry \in [Level -> Level]
  /\ IF Level = {} THEN best = Nil ELSE best \in Level
  /\ Quiet \/ adding \in Locals

(***************************************************************************)
(* The list is one sorted ring: next_entry_ and prev_entry_ are inverse to *)
(* each other, the best pointer is at the best price, every level is       *)
(* followed by the next worse one, with none skipped, and only the worst   *)
(* is followed by the best.  toString's sanity check on the sorting of     *)
(* bids and asks can never be fatal.                                       *)
(***************************************************************************)
RingSorted ==
  /\ \A p \in Level : prev_entry[next_entry[p]] = p /\ next_entry[prev_entry[p]] = p
  /\ \A p \in Level : p = best \/ BetterLevel(best, p)
  /\ \A p \in Level : next_entry[p] = best \/ BetterLevel(p, next_entry[p])
  /\ \A p, q \in Level : BetterLevel(p, q) =>
       /\ next_entry[p] # best
       /\ q = next_entry[p] \/ BetterLevel(next_entry[p], q)

(***************************************************************************)
(* Where the search for the place of a new level stands: everything before *)
(* target is better than the new level, and the search has passed no level *)
(* the new one should have gone before.                                    *)
(***************************************************************************)
SearchOnCourse ==
  ~Quiet =>
    /\ adding.target \in Level
    /\ adding.new \in LevelPrice \ Level
    /\ adding.target # best \/ adding.add_after => BetterLevel(prev_entry[adding.target], adding.new)
    /\ ~adding.add_after => BetterLevel(adding.new, adding.target)

\* The abstract levels, with the level being added listed once it is linked.
Levels == INSTANCE PriceLevels WITH levels <- Level, Price <- LevelPrice

\* The ring implements a set of levels with the best one at hand.
ImplementsLevels == Levels!Spec

\* The loop that looks for the place of a new level ends.
AddCompletes == ~Quiet ~> Quiet

=============================================================================
