------------------------------- MODULE BatchPass -------------------------------
(***************************************************************************)
(* forward() of model.py, and how _prefill_batch and _decode_batch of      *)
(* engines/batched.py lay sequences of different lengths out in one        *)
(* rectangle for it.  No arithmetic: a key/value entry                     *)
(* is the token it was computed from, the position it was rotated by and   *)
(* what its query attended to, so two entries are equal exactly when the   *)
(* model would compute the same numbers for them.                          *)
(*                                                                         *)
(* Columns of a row are numbered from 0, as in the code.                   *)
(***************************************************************************)
EXTENDS Integers, Sequences, FiniteSets, FiniteSetsExt

\* torch.full and torch.zeros: what a cell holds that no sequence fills.
PadToken == 0

Longest(lengths) == Max(lengths)

\* An entry the cache is padded with, of no sequence.
Padding == [token |-> PadToken, position |-> 0, reads |-> {}]

\* The causal mask, tril(diagonal = total - queries): query q of the last
\* `queries` columns sees its own column and those before it.
Causal(q, column, total, queries) == column <= q + total - queries

\* Where tokens sit that come without positions: after what is cached.
DefaultPositions(past, ids) == [q \in DOMAIN ids |-> Cardinality(DOMAIN past) + q]

\* Attention: what query q reads.  The cached columns come first and the new ones
\* behind them; the causal mask holds among several queries, the other always.
AttentionReads(past, ids, positions, valid, q) ==
    LET held == Cardinality(DOMAIN past)
        queries == Cardinality(DOMAIN ids)
        total == held + queries
        Key(c) == IF c < held THEN <<past[c].token, past[c].position>>
                  ELSE <<ids[c - held], positions[c - held]>>
        Seen == {c \in 0 .. total - 1 :
                     valid[c] /\ (queries > 1 => Causal(q, c, total, queries))}
    IN {Key(k) : k \in Seen}

\* forward() on one row: the entries of past with a new one for each of ids.
Forward(past, ids, positions, valid) ==
    LET held == Cardinality(DOMAIN past)
    IN [c \in 0 .. held + Cardinality(DOMAIN ids) - 1 |->
            IF c < held THEN past[c]
            ELSE [token |-> ids[c - held], position |-> positions[c - held],
                  reads |-> AttentionReads(past, ids, positions, valid, c - held)]]

\* Python's numbering of a sequence.
Columns(s) == [c \in 0 .. Len(s) - 1 |-> s[c + 1]]
AllValid(total) == [c \in 0 .. total - 1 |-> TRUE]

--------------------------------------------------------------------------------
(* _prefill_batch: a row of the rectangle is a sequence padded on the left. *)

\* A variant that numbers the columns of the rectangle instead of the tokens.
PrefillRowUnshifted(tokens, width) ==
    LET pad == width - Len(tokens)
    IN [ids |-> [c \in 0 .. width - 1 |-> IF c < pad THEN PadToken ELSE tokens[c - pad + 1]],
        positions |-> [c \in 0 .. width - 1 |-> c],
        valid |-> [c \in 0 .. width - 1 |-> c >= pad]]

PrefillRow(tokens, width) ==
    LET pad == width - Len(tokens)
    IN [ids |-> [c \in 0 .. width - 1 |-> IF c < pad THEN PadToken ELSE tokens[c - pad + 1]],
        positions |-> [c \in 0 .. width - 1 |-> IF c < pad THEN 0 ELSE c - pad],
        valid |-> [c \in 0 .. width - 1 |-> c >= pad]]

\* The cache of one sequence, sliced out of the pass from column pad on.  The
\* logits its next token is sampled from are those of the last column.
PrefillCache(tokens, width) ==
    LET row == PrefillRow(tokens, width)
        present == Forward(<<>>, row.ids, row.positions, row.valid)
    IN [k \in 1 .. Len(tokens) |-> present[width - Len(tokens) + k - 1]]

--------------------------------------------------------------------------------
(* _decode_batch: caches are padded on the right, the new token comes after. *)

RightPadded(cache, width) ==
    [c \in 0 .. width - 1 |-> IF c < Len(cache) THEN cache[c + 1] ELSE Padding]

DecodeMask(cache, width) == [c \in 0 .. width |-> c < Len(cache) \/ c = width]

\* The new column, width, is scattered back onto the sequence's own cache.
DecodeCache(cache, token, width) ==
    Append(cache, Forward(RightPadded(cache, width), Columns(<<token>>),
                          Columns(<<Len(cache)>>), DecodeMask(cache, width))[width])

--------------------------------------------------------------------------------

\* The cache of a sequence computed by itself, one token after the other with
\* no padding and no mask: what every layout above has to reproduce.
OwnCache(tokens) ==
    [k \in 1 .. Len(tokens) |->
        [token |-> tokens[k], position |-> k - 1,
         reads |-> {<<tokens[j], j - 1>> : j \in 1 .. k}]]

================================================================================
