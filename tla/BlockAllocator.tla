---------------------------- MODULE BlockAllocator ----------------------------
(***************************************************************************)
(* BlockAllocator of cache/blocks.py with its own data: _free is a list    *)
(* used as a stack, _refcount a dictionary whose absent keys count 0.      *)
(* Clients hold references, which the engines keep in block tables and in  *)
(* the prefix cache, and drop only references they hold.                   *)
(***************************************************************************)
EXTENDS Integers, Sequences, FiniteSets, SequencesExt, FiniteSetsExt

CONSTANTS
    Blocks, BlockSize,
    MaxHolders      \* bound on the references to one block

\* The constructor raises ValueError otherwise.
ASSUME AllocatorAssumption ==
    /\ IsFiniteSet(Blocks) /\ Blocks # {}
    /\ BlockSize \in Nat \ {0} /\ MaxHolders \in Nat

VARIABLES
    free_list,      \* _free
    count,          \* _refcount
    held            \* history: references the clients have to each block

vars == <<free_list, count, held>>

RefCount(b) == IF b \in DOMAIN count THEN count[b] ELSE 0

\* A variant that hands out the front of the list while the back is cut off.
PoppedFront(n) == SubSeq(free_list, 1, n)

\* pop() n times, from the end of the list.
Popped(n) == Reverse(SubSeq(free_list, Len(free_list) - n + 1, Len(free_list)))

\* A variant of free() that returns a block only when its count is exhausted.
DropOneLate(pool, b) ==
    LET n == IF b \in DOMAIN pool.count THEN pool.count[b] ELSE 0
    IN IF n < 1
       THEN [list |-> Append(pool.list, b), count |-> Restrict(pool.count, DOMAIN pool.count \ {b})]
       ELSE [pool EXCEPT !.count[b] = n - 1]

\* One iteration of free(): drop a reference; the last one returns the block.
DropOne(pool, b) ==
    LET n == IF b \in DOMAIN pool.count THEN pool.count[b] ELSE 0
    IN IF n <= 1
       THEN [list |-> Append(pool.list, b), count |-> Restrict(pool.count, DOMAIN pool.count \ {b})]
       ELSE [pool EXCEPT !.count[b] = n - 1]

--------------------------------------------------------------------------------

\* list(range(n_blocks)): in some order.
Init == /\ free_list \in SetToSeqs(Blocks)
        /\ count = <<>>
        /\ held = [b \in Blocks |-> 0]

\* allocate() marks what it takes; with too few free blocks it raises and
\* changes nothing.
Allocate(n) ==
    /\ n <= Len(free_list)
    /\ LET taken == Popped(n)
       IN /\ free_list' = SubSeq(free_list, 1, Len(free_list) - n)
          /\ count' = [b \in DOMAIN count \cup Range(taken) |->
                           IF b \in Range(taken) THEN 1 ELSE count[b]]
          /\ held' = [b \in Blocks |-> held[b] + IF b \in Range(taken) THEN 1 ELSE 0]

Share(b) == /\ held[b] \in 1 .. MaxHolders - 1
            /\ count' = [count EXCEPT ![b] = @ + 1]
            /\ held' = [held EXCEPT ![b] = @ + 1]
            /\ UNCHANGED free_list

\* A client drops one reference to each block of a list of its own.
Free(blocks) ==
    /\ \A b \in Range(blocks) : held[b] > 0
    /\ LET pool == FoldLeft(DropOne, [list |-> free_list, count |-> count], blocks)
       IN free_list' = pool.list /\ count' = pool.count
    /\ held' = [b \in Blocks |-> held[b] - IF b \in Range(blocks) THEN 1 ELSE 0]

Next == \/ \E n \in 1 .. Cardinality(Blocks) : Allocate(n)
        \/ \E b \in Blocks : Share(b)
        \/ \E S \in (SUBSET Blocks) \ {{}} : \E blocks \in SetToSeqs(S) : Free(blocks)

Spec == Init /\ [][Next]_vars

--------------------------------------------------------------------------------

\* The list holds each block nobody references once, and no other: no block is
\* lost to the pool or handed out to two holders, whatever the order in which
\* holders share and drop.
FreeListExact ==
    /\ \A i, j \in 1 .. Len(free_list) : free_list[i] = free_list[j] => i = j
    /\ \A b \in Blocks : /\ RefCount(b) = held[b]
                         /\ b \in Range(free_list) <=> held[b] = 0

Pool == INSTANCE BlockPool WITH
            free <- Range(free_list), refcount <- [b \in Blocks |-> RefCount(b)]

\* The list and the dictionary implement the pool the engines rely on.
ImplementsPool == Pool!PoolSpec

================================================================================
