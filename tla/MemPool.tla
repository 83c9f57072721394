------------------------------- MODULE MemPool -------------------------------
(***************************************************************************)
(* The object pool of common/mem_pool.h, which every order, price level    *)
(* and snapshot entry comes from.  The free block for the next allocation  *)
(* is looked for at the end of each allocation, starting from the block    *)
(* just taken; finding none ends the process, with one object still given  *)
(* out.  So a pool of N blocks serves at most N - 1 objects at a time.     *)
(***************************************************************************)
EXTENDS Integers, FiniteSets

CONSTANT N  \* num_elems

ASSUME PoolAssumption == N \in Nat \ {0}

VARIABLES
  is_free,          \* block -> BOOLEAN
  next_free_index,
  held,             \* blocks whose objects the users have
  aborted           \* an ASSERT failed

poolVars == <<is_free, next_free_index, held, aborted>>

Block == 0 .. N - 1

PoolInit ==
  /\ is_free = [i \in Block |-> TRUE]
  /\ next_free_index = 0
  /\ held = {} /\ aborted = FALSE

\* Blocks the search visits before i when it starts at from.
Before(from, i) == IF from <= i THEN from .. i - 1 ELSE (from .. N - 1) \cup (0 .. i - 1)

\* Mutant: the next block is taken without a look at its flag.
FoundMutant(free, from, i) == i = (from + 1) % N

\* updateNextFreeIndex started at from stops at i.
Found(free, from, i) == free[i] /\ \A j \in Before(from, i) : ~free[j]

\* Mutant: the block is given out without being marked.
MarkedMutant(i) == is_free
Marked(i) == [is_free EXCEPT ![i] = FALSE]

allocate ==
  /\ ~aborted
  /\ IF ~is_free[next_free_index]
     THEN aborted' = TRUE /\ UNCHANGED <<is_free, next_free_index, held>>
     ELSE /\ is_free' = Marked(next_free_index)
          /\ held' = held \cup {next_free_index}
          /\ IF \E i \in Block : is_free'[i]
             THEN /\ \E i \in Block : Found(is_free', next_free_index, i) /\ next_free_index' = i
                  /\ UNCHANGED aborted
             ELSE aborted' = TRUE /\ UNCHANGED next_free_index

deallocate(i) ==
  /\ ~aborted
  /\ i \in held
  /\ IF is_free[i] THEN aborted' = TRUE /\ UNCHANGED is_free
                   ELSE is_free' = [is_free EXCEPT ![i] = TRUE] /\ UNCHANGED aborted
  /\ held' = held \ {i}
  /\ UNCHANGED next_free_index

PoolNext == allocate \/ \E i \in Block : deallocate(i)

PoolSpec == PoolInit /\ [][PoolNext]_poolVars

-----------------------------------------------------------------------------
(* Properties. *)

\* Blocks are flagged and the index is one of them.
PoolTypeOK ==
  /\ is_free \in [Block -> BOOLEAN]
  /\ next_free_index \in Block
  /\ held \subseteq Block
  /\ aborted \in BOOLEAN

\* The block allocate gives out next is never one that somebody still has, whatever was given
\* back since the index was set.
NextNotHeld == ~aborted => next_free_index \notin held

\* The process ends in an ASSERT of the pool only when every block is in use: neither "Expected
\* free ObjectBlock" nor "Expected in-use ObjectBlock" ever fails before that.
AbortMeansFull == aborted => held = Block

=============================================================================
