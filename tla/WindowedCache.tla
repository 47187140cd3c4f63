----------------------------- MODULE WindowedCache -----------------------------
(***************************************************************************)
(* WindowPolicy of cache/window.py and bench/run_window.py, which decodes  *)
(* a text a token at a time through a cache kept under a policy: the same  *)
(* text without a policy, with a window, and with a window and sinks.      *)
(***************************************************************************)
EXTENDS Integers, Sequences, SequencesExt, FiniteSetsExt, Positions

CONSTANTS
    MaxWindow, MaxSinks,    \* the policies: 1 .. MaxWindow and 0 .. MaxSinks
    WindowBlock,            \* block_size
    TextLengths,            \* of the texts
    RotaryTable             \* max_seq_len: positions that have an embedding

ASSUME WindowAssumption ==
    /\ MaxWindow \in Nat \ {0} /\ MaxSinks \in Nat /\ WindowBlock \in Nat \ {0}
    /\ TextLengths \subseteq Nat \ {0} /\ IsFiniteSet(TextLengths) /\ RotaryTable \in Nat \ {0}

VARIABLES
    window, sinks, text_length,
    position,       \* how many tokens have passed
    kept_slots,     \* held: original positions in the cache, in cache order
    quality         \* rows: of each configuration that is done, what became of it

windowVars == <<window, sinks, text_length, position, kept_slots, quality>>

--------------------------------------------------------------------------------

\* configurations; without a policy nothing is evicted, as with a window that
\* no text fills.
Configurations == <<[window |-> Max(TextLengths), sinks |-> 0],
                    [window |-> window, sinks |-> 0],
                    [window |-> window, sinks |-> sinks]>>

Policy == Configurations[Min({Len(quality) + 1, 3})]

budget == Policy.window + Policy.sinks

Upto(a, b) == [i \in 1 .. b - a |-> a + i - 1]      \* range(a, b)

\* A variant whose recent tokens end one too early.
KeepLate(length) == IF length <= budget THEN Upto(0, length)
                    ELSE Upto(0, Policy.sinks) \o Upto(length - Policy.window - 1, length - 1)

\* WindowPolicy.keep
Keep(length) == IF length <= budget THEN Upto(0, length)
                ELSE Upto(0, Min({Policy.sinks, length})) \o Upto(length - Policy.window, length)

\* blocks_to_keep, as a set: the result is sorted.
BlocksToKeep(length) ==
    IF length <= budget THEN 0 .. ((length + WindowBlock - 1) \div WindowBlock) - 1
    ELSE {p \div WindowBlock : p \in Range(Keep(length))}

\* positions_for: places in the cache, or the original positions.
PositionsFor(kept, renumber) == IF renumber THEN Upto(0, Len(kept)) ELSE kept

\* kv_bytes_with_window, in tokens.
BoundedTokens(context_length) == Min({context_length, budget})

WindowInit == /\ window \in 1 .. MaxWindow /\ sinks \in 0 .. MaxSinks
              /\ text_length \in TextLengths
              /\ position = 0 /\ kept_slots = <<>> /\ quality = <<>>

Measuring == Len(quality) < Len(Configurations)

\* One token: attend, store, and evict once the budget is exceeded.  Only what
\* is still held can be kept.
Pass == /\ Measuring /\ position < text_length - 1 /\ position < RotaryTable
        /\ position' = position + 1
        /\ kept_slots' =
               LET stored == Append(kept_slots, position)
                   keep == Keep(position + 1)
               IN IF Len(stored) <= budget THEN stored
                  ELSE Picked(keep, {i \in DOMAIN keep : keep[i] \in Range(stored)})
        /\ UNCHANGED <<window, sinks, text_length, quality>>

\* The text is over, or its next position has no embedding and IndexError is
\* raised: a row, against the first configuration that got to the end.
Failed == position < text_length - 1 /\ position = RotaryTable

Succeeded == {i \in DOMAIN quality : ~quality[i].failed}

Record ==
    /\ Measuring /\ (position = text_length - 1 \/ Failed)
    /\ quality' = Append(quality,
           [failed |-> Failed, tokens |-> text_length, policy |-> Policy,
            held |-> Len(kept_slots),
            baseline |-> IF Failed THEN 0 ELSE Min(Succeeded \cup {Len(quality) + 1})])
    /\ position' = 0 /\ kept_slots' = <<>>
    /\ UNCHANGED <<window, sinks, text_length>>

WindowNext == Pass \/ Record

--------------------------------------------------------------------------------

Promised == {p \in 0 .. position - 1 : p < Policy.sinks \/ p >= position - Policy.window}

\* Evicting a token at a time, from a cache that has forgotten the rest, keeps
\* what the policy promises of the whole sequence, in order: the sinks and the
\* window, and what the closed form says it costs.  The blocks that survive
\* hold all of it, and each some of it.
KeepsPromised ==
    /\ Range(kept_slots) = Promised
    /\ \A i \in 2 .. Len(kept_slots) : kept_slots[i - 1] < kept_slots[i]
    /\ Len(kept_slots) = BoundedTokens(position)
    /\ \A p \in Promised : p \div WindowBlock \in BlocksToKeep(position)
    /\ \A k \in BlocksToKeep(position) : \E p \in Promised : p \div WindowBlock = k

\* A policy bounds the memory and not the positions: original positions run out
\* at the same token whatever is evicted, so that a text fails in all of the
\* configurations or in none, and a change in quality is always one against the
\* full context.  Renumbered, the positions stay under the budget.
RunsOutTogether ==
    /\ Range(PositionsFor(kept_slots, FALSE)) \subseteq 0 .. RotaryTable - 1
    /\ Range(PositionsFor(kept_slots, TRUE)) \subseteq 0 .. budget - 1
    /\ \A i \in DOMAIN quality :
           /\ quality[i].failed = (text_length - 1 > RotaryTable)
           /\ ~quality[i].failed => quality[i].baseline = 1
           /\ ~quality[i].failed /\ i > 1 => quality[i].held <= quality[1].held

WindowHeld == KeepsPromised /\ RunsOutTogether

================================================================================
