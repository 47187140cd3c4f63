------------------------------- MODULE BlockPool -------------------------------
(***************************************************************************)
(* The contract of the KV block pool, BlockAllocator of cache/blocks.py:   *)
(* fixed-size blocks with reference counts.  The free list is a set here,  *)
(* so which free block an allocation takes is left open; BlockAllocator,   *)
(* with the code's own list and dictionary, implements this module.  The   *)
(* paged engines EXTEND it and touch the pool by these operators only.     *)
(***************************************************************************)
EXTENDS Integers, Sequences, FiniteSets, Functions

CONSTANTS
    Blocks,     \* the physical blocks, range(n_blocks)
    BlockSize   \* token slots per block

\* The constructor raises ValueError otherwise.
ASSUME PoolAssumption ==
    /\ IsFiniteSet(Blocks) /\ Blocks # {}
    /\ BlockSize \in Nat \ {0}

VARIABLES
    free,       \* _free: the blocks nobody holds
    refcount    \* _refcount: how many hold each block, 0 for an absent key

poolVars == <<free, refcount>>

--------------------------------------------------------------------------------

BlocksNeeded(n) == (n + BlockSize - 1) \div BlockSize

NFree == Cardinality(free)

Available(n) == n <= NFree

\* The lists of n distinct free blocks that allocate(n) may return.
Takings(n) == {t \in [1 .. n -> free] : \A i, j \in 1 .. n : t[i] = t[j] => i = j}

CountsTaken(taken) == [b \in Blocks |-> IF b \in Range(taken) THEN 1 ELSE refcount[b]]

Allocate(taken) == /\ free' = free \ Range(taken)
                   /\ refcount' = CountsTaken(taken)

\* The counts after one share of each block of S.
Shared(count, S) == [b \in Blocks |-> IF b \in S THEN count[b] + 1 ELSE count[b]]

\* free(blocks), for a list without repetition whose blocks are S: the last
\* holder of a block returns it, any other drops one reference.
Dropped(count, S) ==
    [b \in Blocks |-> IF b \notin S THEN count[b]
                      ELSE IF count[b] <= 1 THEN 0 ELSE count[b] - 1]

Returned(count, S) == {b \in S : count[b] <= 1}

Free(S) == /\ free' = free \cup Returned(refcount, S)
           /\ refcount' = Dropped(refcount, S)

--------------------------------------------------------------------------------
(***************************************************************************)
(* The pool as a specification of its own: clients allocate, share what is *)
(* held and free what is held, possibly several of these in one step.      *)
(***************************************************************************)

PoolInit == /\ free = Blocks
            /\ refcount = [b \in Blocks |-> 0]

PoolAllocate == \E n \in 1 .. NFree : \E taken \in Takings(n) : Allocate(taken)

PoolShare == \E S \in SUBSET (Blocks \ free) :
                 refcount' = Shared(refcount, S) /\ UNCHANGED free

PoolFree == \E S \in SUBSET (Blocks \ free) : Free(S)

PoolNext == PoolAllocate \/ PoolShare \/ PoolFree

PoolSpec == PoolInit /\ [][PoolNext]_poolVars

================================================================================
