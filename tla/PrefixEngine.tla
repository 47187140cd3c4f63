----------------------------- MODULE PrefixEngine -----------------------------
(***************************************************************************)
(* PrefixCachedEngine of engines/prefix.py with the PrefixCache of         *)
(* cache/prefix.py: the paged engine, reusing the blocks of prompt         *)
(* prefixes it has already computed.                                       *)
(*                                                                         *)
(* A key, the hash of all tokens up to the end of a block, is that token   *)
(* sequence itself: no two prefixes collide.  What a block's keys and      *)
(* values depend on is also a token sequence, all tokens up to the last    *)
(* one stored in it; kv records it, or Garbage when a slot was skipped or  *)
(* computed from a past that was not the sequence's own.                   *)
(***************************************************************************)
EXTENDS PagedEngine, Positions

CONSTANT Garbage

ASSUME GarbageAssumption == Garbage \notin Seq(Vocab)

VARIABLES
    entries,    \* PrefixCache._entries, least recently used first
    kv          \* what each block holds; <<>> for a block in the free pool

cacheVars == <<entries, kv>>
prefixVars == <<vars, cacheVars>>

--------------------------------------------------------------------------------
(* The cache: an ordered dictionary from prefixes to blocks. *)

\* The key of the i-th block of a token sequence.
Key(tokens, i) == SubSeq(tokens, 1, i * BlockSize)

FullBlocks(tokens) == Len(tokens) \div BlockSize

Keys == {e.key : e \in Range(entries)}
CachedBlocks == {e.block : e \in Range(entries)}
EntryOf(key) == CHOOSE e \in Range(entries) : e.key = key

\* A lookup that goes on past a gap and collects what it finds there.
HitsPastGap(tokens) ==
    LET found == {i \in 1 .. FullBlocks(tokens) : Key(tokens, i) \in Keys}
        order == InOrder(found)
    IN [i \in 1 .. Len(order) |-> EntryOf(Key(tokens, order[i]))]

\* lookup(): the entries of the longest cached prefix, nothing after a gap.
Hits(tokens) ==
    LET n == Max({0} \cup {k \in 1 .. FullBlocks(tokens) :
                               \A i \in 1 .. k : Key(tokens, i) \in Keys})
    IN [i \in 1 .. n |-> EntryOf(Key(tokens, i))]

\* move_to_end() of every hit, in order.
Touched(hits) ==
    Picked(entries, {i \in 1 .. Len(entries) : entries[i] \notin Range(hits)}) \o hits

\* publish() that takes a partly filled last block for a full one.
NewPartial(tokens, table) ==
    LET key(i) == SubSeq(tokens, 1, Min({i * BlockSize, Len(tokens)}))
        fresh == {i \in 1 .. BlocksNeeded(Len(tokens)) : key(i) \notin Keys /\ i <= Len(table)}
        order == InOrder(fresh)
    IN [i \in 1 .. Len(order) |-> [key |-> key(order[i]), block |-> table[order[i]]]]

\* publish(): the entries that a table adds to the cache, for its full blocks
\* whose keys the cache does not have.
New(tokens, table) ==
    LET fresh == {i \in 1 .. FullBlocks(tokens) :
                      Key(tokens, i) \notin Keys /\ i <= Len(table)}
        order == InOrder(fresh)
    IN [i \in 1 .. Len(order) |-> [key |-> Key(tokens, order[i]), block |-> table[order[i]]]]

BlocksOf(list) == {e.block : e \in Range(list)}

\* A block that returns to the pool is nobody's any more.
Cleared(content, S) == [b \in Blocks |-> IF b \in S THEN <<>> ELSE content[b]]

\* A variant that forgets the entry and keeps the cache's reference.
EvictLeaking == /\ entries' = Tail(entries)
                /\ UNCHANGED <<poolVars, kv>>

\* evict_oldest() and free() of its block, the body of both eviction loops.
EvictOldest ==
    LET b == Head(entries).block
    IN /\ entries' = Tail(entries)
       /\ Free({b})
       /\ kv' = Cleared(kv, Returned(refcount, {b}))

--------------------------------------------------------------------------------
(* What the blocks of a request hold. *)

\* The KV of the first n tokens of r is in its table and is its own.
HoldsContext(r, n) ==
    \A i \in 1 .. BlocksNeeded(n) :
        kv[block_table[r][i]] = SubSeq(AllTokens(r), 1, Min({i * BlockSize, n}))

\* Tokens from + 1 .. to of tokens written through table, by a model that has
\* attended to the first `from` of them as the blocks hold them.
Written(content, tokens, table, from, to) ==
    LET past == \A i \in 1 .. BlocksNeeded(from) :
                    content[table[i]] = SubSeq(tokens, 1, Min({i * BlockSize, from}))
        touched == from \div BlockSize + 1 .. BlocksNeeded(to)
    IN [b \in Blocks |->
            IF \E i \in touched : table[i] = b
            THEN LET i == CHOOSE i \in touched : table[i] = b
                 IN IF past THEN SubSeq(tokens, 1, Min({i * BlockSize, to})) ELSE Garbage
            ELSE content[b]]

\* _release(): publish the full blocks, then drop the references of the table.
PrefixRelease(r) ==
    LET table == block_table[r]
        new == IF table # <<>> /\ stored[r] > 0
               THEN New(SubSeq(AllTokens(r), 1, stored[r]), table) ELSE <<>>
        count == Shared(refcount, BlocksOf(new))
        gone == Returned(count, Range(table))
    IN /\ entries' = entries \o new
       /\ free' = free \cup gone
       /\ refcount' = Dropped(count, Range(table))
       /\ kv' = Cleared(kv, gone)
       /\ block_table' = [block_table EXCEPT ![r] = <<>>]
       /\ stored' = [stored EXCEPT ![r] = 0]

--------------------------------------------------------------------------------

PrefixInit == Init /\ entries = <<>> /\ kv = [b \in Blocks |-> <<>>]

\* _make_room() in the admission loop: cached prefixes go, oldest first,
\* whether or not that will be enough.
EvictFor(index) ==
    /\ pc = "admit" /\ RoomInBatch
    /\ ~Fits(waiting[index])
    /\ entries # <<>> /\ EvictOldest
    /\ UNCHANGED <<waiting, running, requestVars, pc, stepVars, history>>

EvictToAdmit == EvictFor(NextWaiting)

\* A variant that gives up on a full pool without touching the cache.
GiveUpAtOnce == TRUE

NothingToEvict == entries = <<>>

StopAdmitting(index) ==
    /\ pc = "admit"
    /\ RoomInBatch => ~Fits(waiting[index]) /\ NothingToEvict
    /\ StartWork /\ UNCHANGED cacheVars

PrefixAdmitDone == StopAdmitting(NextWaiting)

\* _prefill(), one request at a time.  At least one token is always computed.
MaxShared(tokens) == (Len(tokens) - 1) \div BlockSize

ShareCached ==
    /\ pc = "prefill" /\ at <= Len(states)
    /\ LET r == states[at]
           hits == Hits(AllTokens(r))
           shared == SubSeq(hits, 1, Min({Len(hits), MaxShared(AllTokens(r))}))
       IN /\ entries' = Touched(hits)
          /\ refcount' = Shared(refcount, BlocksOf(shared))
          /\ block_table' = [block_table EXCEPT ![r] =
                                 [i \in 1 .. Len(shared) |-> shared[i].block]]
    /\ pc' = "fill"
    /\ UNCHANGED <<free, waiting, running, stored, output_token_ids, finished, stepVars,
                   history, kv>>

\* The blocks the request at hand still lacks.
Lacking(r) == BlocksNeeded(TotalLen(r)) - Len(block_table[r])

\* One iteration of _free_blocks_for(), and the error when nothing is left.
FreeSome ==
    IF entries # <<>>
    THEN EvictOldest /\ UNCHANGED <<waiting, running, block_table, stored, pc, states, outlived>>
    ELSE IF running # <<>>
         THEN PrefixRelease(Last(running)) /\ Requeue(Last(running)) /\ UNCHANGED pc
         ELSE /\ pc' = "raised"
              /\ UNCHANGED <<poolVars, cacheVars, waiting, running, block_table, stored,
                             states, outlived>>

\* Blocks for the rest, one forward pass over the suffix, and publication.
FillRest(r) ==
    \E taken \in Takings(Lacking(r)) :
        LET table == block_table[r] \o taken
            new == New(AllTokens(r), table)
        IN /\ block_table' = [block_table EXCEPT ![r] = table]
           /\ kv' = Written(kv, AllTokens(r), table, Len(block_table[r]) * BlockSize, TotalLen(r))
           /\ stored' = [stored EXCEPT ![r] = TotalLen(r)]
           /\ entries' = entries \o new
           /\ free' = free \ Range(taken)
           /\ refcount' = Shared(CountsTaken(taken), BlocksOf(new))
           /\ pc' = "emit_prefill"
           /\ UNCHANGED <<waiting, running, states, outlived>>

Fill == /\ pc = "fill"
        /\ IF Available(Lacking(states[at])) THEN FillRest(states[at]) ELSE FreeSome
        /\ UNCHANGED <<output_token_ids, finished, admitted, reserved, at, arrival>>

\* _emit(), with this engine's _release().
PrefixEmit ==
    /\ pc \in {"emit_prefill", "emit_decode"} /\ at <= Len(states)
    /\ \E token \in Vocab : Deliver(states[at], token)
    /\ LET r == states[at]
       IN IF finished'[r] THEN PrefixRelease(r)
                          ELSE UNCHANGED <<poolVars, cacheVars, block_table, stored>>
    /\ at' = at + 1
    /\ pc' = IF pc = "emit_prefill" THEN "prefill" ELSE pc
    /\ UNCHANGED <<waiting, running, admitted, reserved, states, history>>

PrefixJoin == /\ pc = "prefill" /\ at > Len(states)
              /\ JoinRunning /\ UNCHANGED cacheVars

\* _decode() is inherited: growth evicts nothing and preempts at once.  When
\* nobody is left to decode, the caller goes on at `after`.
PrefixShort(after) ==
    /\ pc = "grow" /\ at <= Len(states)
    /\ ~Available(Missing(states[at], 1))
    /\ LET victim == Last(running)
       IN PrefixRelease(victim) /\ Requeue(victim)
    /\ at' = 1
    /\ pc' = IF states' = <<>> THEN after ELSE "grow"
    /\ UNCHANGED <<output_token_ids, finished, admitted, reserved, arrival>>

PrefixGrowShort == PrefixShort("idle")

\* Where the KV of the last token of r belongs.
LastSlot(r) == block_table[r][BlocksNeeded(stored[r] + 1)]

\* Everybody's context is gathered first; then cache.write() stores everybody's
\* last token, in order.
PrefixDecode ==
    /\ Decode
    /\ kv' = [b \in Blocks |->
                  LET writers == {i \in 1 .. Len(states) : LastSlot(states[i]) = b}
                      r == states[Max(writers)]
                  IN IF writers = {} THEN kv[b]
                     ELSE Written(kv, AllTokens(r), block_table[r], stored[r], stored[r] + 1)[b]]
    /\ UNCHANGED entries

--------------------------------------------------------------------------------

PrefixAdmission ==
    \/ Admit /\ UNCHANGED cacheVars
    \/ EvictToAdmit
    \/ PrefixAdmitDone

\* What a step does besides that, except for the tokens it hands out.  The
\* engines built on this one replace or add to each of the parts.
PrefixWork ==
    \/ RetireOne /\ UNCHANGED cacheVars
    \/ Retired /\ UNCHANGED cacheVars
    \/ ShareCached
    \/ Fill
    \/ PrefixJoin
    \/ GrowOne /\ UNCHANGED cacheVars
    \/ PrefixGrowShort
    \/ PrefixDecode
    \/ EndStep /\ UNCHANGED cacheVars

PrefixStep ==
    \/ BeginStep /\ UNCHANGED cacheVars
    \/ PrefixAdmission
    \/ PrefixWork
    \/ PrefixEmit

PrefixNext == PrefixStep \/ \E r \in Requests : AddRequest(r) /\ UNCHANGED cacheVars

PrefixSpec == PrefixInit /\ [][PrefixNext]_prefixVars

--------------------------------------------------------------------------------
(***************************************************************************)
(* What prefix caching must get right.                                     *)
(***************************************************************************)

PrefixTypeOK ==
    /\ TypeOK
    /\ entries \in Seq([key : Seq(Vocab), block : Blocks])
    /\ kv \in [Blocks -> Seq(Vocab) \cup {Garbage}]

\* A block's count is the number of tables it stands in, once each, plus one
\* if the cache holds it; the pool has exactly the blocks nobody holds.  So a
\* block is never reclaimed under a reader, and none is lost.
CountsExact ==
    /\ \A b \in Blocks :
           /\ refcount[b] = Cardinality({r \in Requests : b \in Range(block_table[r])})
                            + IF b \in CachedBlocks THEN 1 ELSE 0
           /\ b \in free <=> refcount[b] = 0
    /\ \A r \in Requests : \A i, j \in 1 .. Len(block_table[r]) :
           block_table[r][i] = block_table[r][j] => i = j
    /\ \A i, j \in 1 .. Len(entries) :
           entries[i].key = entries[j].key \/ entries[i].block = entries[j].block => i = j

\* A cached block holds the prefix it is filed under, all of it and nothing
\* else, so a hit never makes a request attend to somebody else's context.
CacheIsHonest == \A e \in Range(entries) : kv[e.block] = e.key

\* Between steps every running sequence can gather its own context.
ReadsOwnContext ==
    /\ \A b \in Blocks : kv[b] # Garbage
    /\ pc = "idle" => \A r \in Range(running) : ~finished[r] => HoldsContext(r, stored[r])

\* An admitted request finds the blocks it was promised without evicting or
\* preempting anybody: sharing only ever lowers what it needs.
PromiseKept == pc = "fill" => Available(Lacking(states[at]))

\* The pool under sharing: no block is lost, reclaimed under a reader or counted
\* wrongly, and what admission promises is there.
PoolExact == PrefixTypeOK /\ CountsExact /\ PromiseKept

================================================================================
