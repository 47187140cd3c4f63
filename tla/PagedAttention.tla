----------------------------- MODULE PagedAttention -----------------------------
(***************************************************************************)
(* Attention of one query over keys and values that lie scattered in       *)
(* blocks: PagedKVCache.write and gather of cache/blocks.py, the walk of   *)
(* the block table in kernels.py and the online softmax of attention.py.   *)
(*                                                                         *)
(* A key is known by its score against the query, a value by one number.   *)
(* Scores are whole and exp() is a power of two, so that every quotient    *)
(* compares exactly: sums are kept as multiples of 2 ^ -MaxScore.          *)
(***************************************************************************)
EXTENDS Integers, Sequences, SequencesExt, FiniteSetsExt, Folds

CONSTANTS
    PhysicalBlocks, Slots,  \* n_blocks as a set, and block_size
    TableLength,            \* blocks in the table of the sequence
    MaxScore, Values,
    TileSize                \* block_size of online_softmax_attention

ASSUME AttentionAssumption ==
    /\ Slots \in Nat \ {0} /\ TileSize \in Nat \ {0} /\ MaxScore \in Nat

VARIABLES
    block_table, cells,     \* where the sequence lies, and what every slot holds
    context,                \* history: the tokens written, in logical order
    walker,                 \* "writing", or which of the two attentions runs
    tile,                   \* blocks attended to so far
    running_max, denominator, acc

attentionVars == <<block_table, cells, context, walker, tile, running_max, denominator, acc>>

--------------------------------------------------------------------------------

Infinite == -1      \* float("-inf"): no score is below 0
Entries == [score : 0 .. MaxScore, value : Values]
Stale == [score |-> MaxScore, value |-> Max(Values)]    \* of whoever had the block

AttentionInit ==
    /\ block_table \in {t \in [1 .. TableLength -> PhysicalBlocks] : IsInjective(t)}
    /\ cells = [b \in PhysicalBlocks |-> [o \in 0 .. Slots - 1 |-> Stale]]
    /\ context = <<>> /\ walker = "writing" /\ tile = 0
    /\ running_max = Infinite /\ denominator = 0 /\ acc = 0

\* One iteration of write(): the block and the offset of a logical position.
Stored(kept, position, entry) ==
    [kept EXCEPT ![block_table[position \div Slots + 1]][position % Slots] = entry]

Write(tokens) ==
    /\ walker = "writing" /\ Len(context) + Len(tokens) <= Slots * TableLength
    /\ cells' = FoldLeftDomain(
           LAMBDA kept, i : Stored(kept, Len(context) + i - 1, tokens[i]), cells, tokens)
    /\ context' = context \o tokens
    /\ UNCHANGED <<block_table, walker, tile, running_max, denominator, acc>>

BlocksFor(length) == (length + Slots - 1) \div Slots

\* gather(): the blocks of the table one after the other, cut to the length.
Gathered(length) ==
    [k \in 1 .. length |-> cells[block_table[(k - 1) \div Slots + 1]][(k - 1) % Slots]]

--------------------------------------------------------------------------------
(* The two walks: which entries each sees in its next tile. *)

\* A variant that takes the whole of the last block.
InPlaceUnmasked(i) == [o \in 0 .. Slots - 1 |-> cells[block_table[i + 1]][o]]

\* Block i of the table; what lies past the length is masked, and weighs nothing.
InPlace(i) == [o \in {o \in 0 .. Slots - 1 : i * Slots + o < Len(context)} |->
                  cells[block_table[i + 1]][o]]

\* k[start:end] of a contiguous cache.
Contiguous(i) == [k \in i * TileSize + 1 .. Min({(i + 1) * TileSize, Len(context)}) |->
                     Gathered(Len(context))[k]]

Tiles == IF walker = "paged" THEN BlocksFor(Len(context))
         ELSE (Len(context) + TileSize - 1) \div TileSize

\* exp(score - maximum), in units of 2 ^ -MaxScore.
Weight(score, maximum) == 2 ^ (MaxScore + score - maximum)

\* What was summed, rescaled by exp(running_max - new_max).
Rescaled(sum, maximum) == IF running_max = Infinite THEN 0 ELSE sum \div 2 ^ (maximum - running_max)

StartAttention(kind) ==
    /\ walker = "writing" /\ context # <<>>
    /\ walker' = kind
    /\ UNCHANGED <<block_table, cells, context, tile, running_max, denominator, acc>>

\* One iteration of either loop.
AttendTile ==
    /\ walker # "writing" /\ tile < Tiles
    /\ LET seen == IF walker = "paged" THEN InPlace(tile) ELSE Contiguous(tile)
           new_max == Max({running_max} \cup {seen[s].score : s \in DOMAIN seen})
           Sum(part(_)) == MapThenSumSet(
               LAMBDA s : Weight(seen[s].score, new_max) * part(seen[s]), DOMAIN seen)
       IN /\ denominator' = Rescaled(denominator, new_max) + Sum(LAMBDA entry : 1)
          /\ acc' = Rescaled(acc, new_max) + Sum(LAMBDA entry : entry.value)
          /\ running_max' = new_max
    /\ tile' = tile + 1
    /\ UNCHANGED <<block_table, cells, context, walker>>

AttentionNext == \/ \E tokens \in UNION {[1 .. n -> Entries] : n \in 1 .. 2} : Write(tokens)
                 \/ \E kind \in {"paged", "online"} : StartAttention(kind)
                 \/ AttendTile

--------------------------------------------------------------------------------

\* How many tokens the tiles so far have covered.
Covered == Min({Len(context), tile * (IF walker = "paged" THEN Slots ELSE TileSize)})

\* Wherever the blocks lie and whatever they held before, the sequence reads
\* back as it was written, across block boundaries; and after every tile the
\* running sums are those of a softmax that has seen all scores so far at once,
\* divided by the exponential of their maximum: in the end acc / denominator is
\* attention over the whole context and over nothing else.
AttendsToContext ==
    /\ Gathered(Len(context)) = context
    /\ running_max = Max({Infinite} \cup {context[k].score : k \in 1 .. Covered})
    /\ tile > 0 =>
           LET Sum(part(_)) == MapThenSumSet(
                   LAMBDA k : 2 ^ context[k].score * part(context[k]), 1 .. Covered)
           IN /\ denominator * 2 ^ running_max = 2 ^ MaxScore * Sum(LAMBDA entry : 1)
              /\ acc * 2 ^ running_max = 2 ^ MaxScore * Sum(LAMBDA entry : entry.value)
    /\ tile = Tiles /\ walker # "writing" => Covered = Len(context)

================================================================================
