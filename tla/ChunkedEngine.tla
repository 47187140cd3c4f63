----------------------------- MODULE ChunkedEngine -----------------------------
(***************************************************************************)
(* ChunkedPrefillEngine of engines/chunked.py: PrefixCachedEngine with a   *)
(* step() of its own, which decodes first and spends what is left of a     *)
(* token budget on pieces of prefills.                                     *)
(*                                                                         *)
(* A prefill in progress keeps its KV in a temporary, RequestState.past,   *)
(* and writes the blocks only when it is complete.  The temporary is       *)
(* abstracted to its length and whether it is the KV of that many tokens   *)
(* of its own sequence.                                                    *)
(***************************************************************************)
EXTENDS PrefixEngine

CONSTANTS
    StepTokens,     \* token_budget
    NoPast

ASSUME ChunkedAssumption == StepTokens \in Nat \ {0}

VARIABLES
    prefill_target, \* tokens to cache before a request decodes, set by _begin()
    past,           \* RequestState.past, NoPast for None
    budget,         \* step(): tokens it may still compute
    before,         \* step(): stored of the request at hand before its chunk
    torn            \* history: requests preempted with a prefill in progress

chunkVars == <<prefill_target, past, budget, before, torn>>
chunkedVars == <<prefixVars, chunkVars>>

ChunkedInit ==
    /\ PrefixInit
    /\ prefill_target = [r \in Requests |-> 0]
    /\ past = [r \in Requests |-> NoPast]
    /\ budget = 0 /\ before = 0 /\ torn = {}

--------------------------------------------------------------------------------
(* Decode first.  Retiring, growing and decoding are the inherited actions. *)

Prefilling(r) == stored[r] < prefill_target[r]

\* The budget is charged for everybody who was to decode.
StartDecode ==
    /\ pc = "retire"
    /\ \A i \in 1 .. Len(running) : ~finished[running[i]]
    /\ states' = SelectSeq(running, LAMBDA r : ~Prefilling(r)) /\ at' = 1
    /\ budget' = Max({0, StepTokens - Len(states')})
    /\ pc' = IF states' # <<>> THEN "grow" ELSE "settle"
    /\ UNCHANGED <<poolVars, cacheVars, waiting, running, requestVars, admitted, reserved,
                   history, prefill_target, past, before, torn>>

\* Nothing tells _preempt_newest() of the temporary: it is not dropped.
ChunkedGrowShort ==
    /\ PrefixShort("settle")
    /\ torn' = LET victim == Last(running)
               IN IF past[victim] # NoPast THEN torn \cup {victim} ELSE torn
    /\ UNCHANGED <<prefill_target, past, budget, before>>

DecodeDone == /\ pc = "emit_decode" /\ at > Len(states)
              /\ pc' = "settle"
              /\ UNCHANGED <<poolVars, cacheVars, waiting, running, requestVars, stepVars,
                             history, chunkVars>>

--------------------------------------------------------------------------------
(* Prefills in progress, oldest first, then new ones. *)

StartPrefill ==
    /\ pc = "settle"
    /\ \A i \in 1 .. Len(running) : ~finished[running[i]]
    /\ states' = SelectSeq(running, Prefilling) /\ at' = 1
    /\ pc' = "prefill"
    /\ UNCHANGED <<poolVars, cacheVars, waiting, running, requestVars, admitted, reserved,
                   history, chunkVars>>

\* What a chunk attends to: the temporary, or what the blocks hold.
PastOf(r) == IF past[r] # NoPast THEN past[r]
             ELSE [len |-> stored[r], own |-> HoldsContext(r, stored[r])]

\* A variant that starts every chunk without what came before it.
Detached(r, end) == [len |-> end - stored[r], own |-> stored[r] = 0]

\* The temporary of r after a forward pass over its tokens up to `end`.
Present(r, end) == [len |-> PastOf(r).len + end - stored[r],
                    own |-> PastOf(r).own /\ PastOf(r).len = stored[r]]

\* The whole temporary, written to the blocks of r from the first one on.
Committed(r, present) ==
    [b \in Blocks |->
        IF \E i \in 1 .. BlocksNeeded(present.len) : block_table[r][i] = b
        THEN LET i == CHOOSE i \in 1 .. BlocksNeeded(present.len) : block_table[r][i] = b
             IN IF present.own THEN SubSeq(AllTokens(r), 1, Min({i * BlockSize, present.len}))
                               ELSE Garbage
        ELSE kv[b]]

\* The chunk is the first n tokens to come.
Chunk(r, end) ==
    LET present == Present(r, end)
        new == New(SubSeq(AllTokens(r), 1, end), block_table[r])
    IN IF end < prefill_target[r]
       THEN /\ past' = [past EXCEPT ![r] = present]
            /\ stored' = [stored EXCEPT ![r] = end]
            /\ budget' = budget - (end - stored[r])
            /\ at' = at + 1
            /\ UNCHANGED <<poolVars, cacheVars, pc, before>>
       ELSE IF BlocksNeeded(present.len) > Len(block_table[r])
       THEN \* IndexError: write() runs past the end of the block table.
            /\ pc' = "raised"
            /\ UNCHANGED <<poolVars, cacheVars, past, stored, budget, at, before>>
       ELSE /\ past' = [past EXCEPT ![r] = NoPast]
            /\ stored' = [stored EXCEPT ![r] = end]
            /\ kv' = Committed(r, present)
            /\ entries' = entries \o new
            /\ refcount' = Shared(refcount, BlocksOf(new))
            /\ pc' = "emit_prefill" /\ before' = stored[r]
            /\ UNCHANGED <<free, budget, at>>

\* A variant that cuts chunks at block boundaries, the last one too.
AlignedEnd(r) == (Min({stored[r] + budget, prefill_target[r]}) \div BlockSize) * BlockSize

ChunkEnd(r) == Min({stored[r] + budget, prefill_target[r]})

\* _prefill_chunk(), up to the token it may produce.
PrefillChunk ==
    /\ pc = "prefill" /\ at <= Len(states) /\ budget > 0
    /\ Chunk(states[at], ChunkEnd(states[at]))
    /\ UNCHANGED <<waiting, running, block_table, output_token_ids, finished, admitted, reserved,
                   states, history, prefill_target, torn>>

\* What a completed prefill costs is read after _emit(), which resets stored
\* when the first token ends the request.
ChunkEmit ==
    /\ pc = "emit_prefill" /\ PrefixEmit
    /\ budget' = budget - (stored'[states[at]] - before)
    /\ UNCHANGED <<prefill_target, past, before, torn>>

ChunksDone ==
    /\ pc = "prefill" /\ (at > Len(states) \/ budget <= 0)
    /\ pc' = "admit"
    /\ UNCHANGED <<poolVars, cacheVars, waiting, running, requestVars, stepVars, history,
                   chunkVars>>

MayAdmit == RoomInBatch /\ budget > 0 /\ Fits(waiting[1])

\* _begin(), up to the blocks it must allocate.  Admission evicts nothing.
Begin ==
    /\ pc = "admit" /\ MayAdmit
    /\ LET r == waiting[1]
           hits == Hits(AllTokens(r))
           shared == SubSeq(hits, 1, Min({Len(hits), MaxShared(AllTokens(r))}))
       IN /\ waiting' = Tail(waiting)
          /\ admitted' = <<r>> /\ states' = <<r>> /\ at' = 1
          /\ entries' = Touched(hits)
          /\ refcount' = Shared(refcount, BlocksOf(shared))
          /\ block_table' = [block_table EXCEPT ![r] =
                                 [i \in 1 .. Len(shared) |-> shared[i].block]]
          /\ stored' = [stored EXCEPT ![r] = Len(shared) * BlockSize]
          /\ prefill_target' = [prefill_target EXCEPT ![r] = TotalLen(r)]
    /\ pc' = "fill"
    /\ UNCHANGED <<free, kv, running, output_token_ids, finished, reserved, history,
                   past, budget, before, torn>>

\* The allocation, or an iteration of _free_blocks_for() when it cannot be
\* made; then the request joins the batch.
BeginRest ==
    /\ pc = "fill"
    /\ LET r == states[at]
       IN IF Available(Lacking(r))
          THEN /\ \E taken \in Takings(Lacking(r)) : Extend(r, taken)
               /\ running' = Append(running, r) /\ admitted' = <<>>
               /\ pc' = "prefill"
               /\ UNCHANGED <<cacheVars, waiting, stored, states, outlived>>
          ELSE FreeSome /\ UNCHANGED admitted
    /\ UNCHANGED <<output_token_ids, finished, reserved, at, arrival, chunkVars>>

EndChunkedStep ==
    /\ pc = "admit" /\ ~MayAdmit
    /\ pc' = "idle" /\ states' = <<>> /\ at' = 1 /\ budget' = 0 /\ before' = 0
    /\ UNCHANGED <<poolVars, cacheVars, waiting, running, requestVars, admitted, reserved,
                   history, prefill_target, past, torn>>

--------------------------------------------------------------------------------

ChunkedStep ==
    \/ (BeginStep \/ RetireOne \/ GrowOne) /\ UNCHANGED <<cacheVars, chunkVars>>
    \/ PrefixDecode /\ UNCHANGED chunkVars
    \/ pc = "emit_decode" /\ PrefixEmit /\ UNCHANGED chunkVars
    \/ StartDecode \/ ChunkedGrowShort \/ DecodeDone
    \/ StartPrefill \/ PrefillChunk \/ ChunkEmit \/ ChunksDone
    \/ Begin \/ BeginRest \/ EndChunkedStep

ChunkedNext == ChunkedStep \/ \E r \in Requests : AddRequest(r) /\ UNCHANGED <<cacheVars, chunkVars>>

ChunkedSpec == ChunkedInit /\ [][ChunkedNext]_chunkedVars

ChunkedFairSpec == ChunkedSpec /\ WF_chunkedVars(ChunkedStep)

--------------------------------------------------------------------------------
(***************************************************************************)
(* What chunked prefill must get right.                                    *)
(***************************************************************************)

ChunkedTypeOK ==
    /\ PrefixTypeOK
    /\ prefill_target \in [Requests -> Nat]
    /\ past \in [Requests -> [len : Nat, own : BOOLEAN] \cup {NoPast}]
    /\ budget \in Int /\ before \in Nat /\ torn \in SUBSET Requests

\* Because it decodes before it prefills, this engine never preempts a request
\* that has just finished, and so every stream ends where it should.
StreamsExact == outlived = {} /\ StreamEnds

\* As long as nobody is preempted in the middle of a prefill: cached blocks
\* hold their prefix, everybody reads its own context and no step raises.
HonestUnlessTorn ==
    torn = {} =>
        /\ CacheIsHonest /\ pc # "raised"
        /\ pc = "idle" => \A r \in Range(running) :
               ~finished[r] /\ ~Prefilling(r) => HoldsContext(r, stored[r])

\* A request is decoded only when its whole context is in its blocks, and one
\* that is still prefilling has exactly the temporary its next chunk needs.
ChunksAddUp ==
    \A r \in Range(running) : torn = {} /\ ~finished[r] =>
        IF Prefilling(r)
        THEN past[r] # NoPast => past[r] = [len |-> stored[r], own |-> TRUE]
        ELSE past[r] = NoPast

\* A step never earns budget: the exception is a request whose first token ends
\* it, for which the code counts what it cost with the wrong sign.
BudgetSpent ==
    [][pc # "retire" /\ budget' > budget =>
           pc = "emit_prefill" /\ finished'[states[at]]]_chunkedVars

\* The token budget is "the per-step cap on tokens processed": no chunk of a
\* step is larger than what the whole step was given.
ChunksWithinBudget ==
    pc = "prefill" /\ at <= Len(states) /\ budget > 0 =>
        ChunkEnd(states[at]) - stored[states[at]] <= StepTokens

\* While it decodes, nothing starves: whatever the batch holds is finished, or
\* given back to the queue, in the end.
BatchDrains == running # <<>> ~> running = <<>> \/ torn # {}

\* Whatever is preempted, counts and streams are exact, and chunks add up to the
\* prompt as long as nobody is preempted in the middle of a prefill.
ChunkedExact == ChunkedTypeOK /\ CountsExact /\ StreamsExact /\ ChunksAddUp

\* Chunks overtake nobody, are charged to the step and come to an end.
ChunkedProgress == ServesInLine /\ BudgetSpent /\ BatchDrains

\* _make_room() of the prefix engine promises that a warm cache never leaves
\* the engine with a full queue and an empty batch.
WarmCacheAdmits ==
    [][pc = "admit" /\ pc' = "idle" /\ running = <<>> /\ budget = StepTokens
           => waiting = <<>>]_chunkedVars

================================================================================
