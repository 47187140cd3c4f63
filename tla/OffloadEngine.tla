----------------------------- MODULE OffloadEngine -----------------------------
(***************************************************************************)
(* OffloadEngine of engines/offload.py with the OffloadTier of             *)
(* cache/offload.py: PrefixCachedEngine that moves evicted prefixes to a   *)
(* second tier and back.                                                   *)
(*                                                                         *)
(* _store and _order of the tier always have the same keys; together they  *)
(* are one sequence, least recently used first.                            *)
(***************************************************************************)
EXTENDS PrefixEngine

CONSTANT TierBlocks     \* capacity_blocks

\* The constructor raises ValueError otherwise.
ASSUME TierAssumption == TierBlocks \in Nat \ {0}

VARIABLES
    tier,       \* OffloadTier: copies of blocks by key, oldest first
    promoted,   \* _prefill(): how many of states have been through _promote()
    next,       \* _promote(): position of the key under way
    fetched     \* _promote(): the copy to be placed, <<>> for none

promoteVars == <<promoted, next, fetched>>
offloadVars == <<prefixVars, tier, promoteVars>>

OffloadInit == /\ PrefixInit
               /\ tier = <<>> /\ promoted = 0 /\ next = 1 /\ fetched = <<>>

--------------------------------------------------------------------------------
(* The tier. *)

TierKeys == {e.key : e \in Range(tier)}

\* _touch()
Recent(key) ==
    LET at_key == {i \in 1 .. Len(tier) : tier[i].key = key}
    IN Picked(tier, 1 .. Len(tier) \ at_key) \o Picked(tier, at_key)

\* store(): a copy, at the expense of the oldest when the tier is full.
Stored(key, held) ==
    IF key \in TierKeys THEN Recent(key)
    ELSE Append(IF Len(tier) >= TierBlocks THEN Tail(tier) ELSE tier, [key |-> key, held |-> held])

\* _demote() is evict_oldest() with its key, and this before the free().
Demoted == tier' = Stored(Head(entries).key, kv[Head(entries).block])

--------------------------------------------------------------------------------
(* _promote(), for each admitted request before the first is prefilled. *)

Promoting == pc = "prefill" /\ promoted < Len(states)

PromptKey == Key(AllTokens(states[promoted + 1]), next)

MoreKeys == next <= FullBlocks(AllTokens(states[promoted + 1]))

AlreadyResident ==
    /\ Promoting /\ fetched = <<>> /\ MoreKeys /\ PromptKey \in Keys
    /\ next' = next + 1
    /\ UNCHANGED <<prefixVars, tier, promoted, fetched>>

\* fetch()
Fetch ==
    /\ Promoting /\ fetched = <<>> /\ MoreKeys /\ PromptKey \in TierKeys \ Keys
    /\ fetched' = (CHOOSE e \in Range(tier) : e.key = PromptKey).held
    /\ tier' = Recent(PromptKey)
    /\ UNCHANGED <<prefixVars, promoted, next>>

\* A variant that takes a reference for the cache besides the allocation's.
CountTwice(block) == Shared(CountsTaken(<<block>>), {block})

\* The allocation's own reference is the cache's.
CountPromoted(block) == CountsTaken(<<block>>)

\* insert(): under the key the copy was kept by, which has no entry, as the
\* last used.
Inserted(key, block) == Append(entries, [key |-> key, block |-> block])

\* A block for the copy, which is in no other hands meanwhile.
Placed ==
    /\ \E block \in free :
           /\ free' = free \ {block} /\ refcount' = CountPromoted(block)
           /\ kv' = [kv EXCEPT ![block] = fetched]
           /\ entries' = Inserted(PromptKey, block)
    /\ next' = next + 1 /\ fetched' = <<>>
    /\ UNCHANGED <<tier, promoted>>

NextPrompt == promoted' = promoted + 1 /\ next' = 1 /\ fetched' = <<>>

\* One iteration of _make_room(1) when no block is free; with nothing left to
\* demote the promotion of this prompt ends.
Promote ==
    /\ Promoting /\ fetched # <<>>
    /\ IF free # {} THEN Placed
       ELSE IF entries # <<>> THEN EvictOldest /\ Demoted /\ UNCHANGED promoteVars
       ELSE NextPrompt /\ UNCHANGED <<poolVars, cacheVars, tier>>
    /\ UNCHANGED <<waiting, running, requestVars, pc, stepVars, history>>

\* The prompt ends, or the tier does not have the key.
PromoteEnds ==
    /\ Promoting /\ fetched = <<>>
    /\ MoreKeys => PromptKey \notin Keys \cup TierKeys
    /\ NextPrompt /\ UNCHANGED <<prefixVars, tier>>

--------------------------------------------------------------------------------

\* _free_blocks_for() demotes where it evicted.
FillDemotes == pc = "fill" /\ ~Available(Lacking(states[at])) /\ entries # <<>>

OffloadWork ==
    /\ ~Promoting /\ PrefixWork
    /\ IF FillDemotes THEN Demoted ELSE UNCHANGED tier
    /\ promoted' = IF pc' \in {"idle", "grow"} THEN 0 ELSE promoted
    /\ UNCHANGED <<next, fetched>>

\* _make_room() likewise.
DemoteToAdmit == EvictToAdmit /\ Demoted /\ UNCHANGED promoteVars

OffloadStep ==
    \/ /\ \/ BeginStep /\ UNCHANGED cacheVars
          \/ Admit /\ UNCHANGED cacheVars
          \/ PrefixAdmitDone
          \/ PrefixEmit
       /\ UNCHANGED <<tier, promoteVars>>
    \/ DemoteToAdmit
    \/ AlreadyResident \/ Fetch \/ Promote \/ PromoteEnds
    \/ OffloadWork

OffloadNext ==
    OffloadStep \/ \E r \in Requests : AddRequest(r) /\ UNCHANGED <<cacheVars, tier, promoteVars>>

OffloadSpec == OffloadInit /\ [][OffloadNext]_offloadVars

--------------------------------------------------------------------------------
(***************************************************************************)
(* What a second tier must get right.                                      *)
(***************************************************************************)

\* Types; the tier has no more than its capacity, and each key once.
OffloadTypeOK ==
    /\ PrefixTypeOK
    /\ tier \in Seq([key : Seq(Vocab), held : Seq(Vocab) \cup {Garbage}])
    /\ Len(tier) <= TierBlocks
    /\ \A i, j \in 1 .. Len(tier) : tier[i].key = tier[j].key => i = j
    /\ promoted \in Nat /\ next \in Nat \ {0} /\ fetched \in Seq(Vocab) \cup {Garbage}

\* A prefix survives the way down and up again: whatever is filed under a key,
\* in a block of the pool, in the tier or on its way between them, is the KV of
\* that prefix, although its block has had other contents meanwhile.
TiersHonest ==
    /\ CacheIsHonest
    /\ \A e \in Range(tier) : e.held = e.key
    /\ fetched # <<>> => fetched = PromptKey

\* The blocks that admission promises cover what promotion takes, so it never
\* demotes one part of a prompt to make room for the next; and by PromiseKept
\* they cover what prefill takes after it.
PromotionFits == fetched # <<>> => free # {}

\* What admission has promised covers promotion, and prefill after it.
PromisesFit == PromotionFits /\ PromiseKept

\* Two tiers and one pool under them: contents stay with their keys, and counts
\* with the blocks, wherever a prefix is.
TiersExact == OffloadTypeOK /\ CountsExact /\ TiersHonest

================================================================================
