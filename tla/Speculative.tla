------------------------------ MODULE Speculative ------------------------------
(***************************************************************************)
(* speculative.py: a drafter proposes, one pass of the target verifies.    *)
(*                                                                         *)
(* The target is deterministic at temperature zero.  greedy is what it     *)
(* would say by itself, one token after the other, long enough for the     *)
(* last bonus token; after any other context it may say anything.  The     *)
(* second half checks the acceptance rule for temperature above zero,      *)
(* with probabilities as whole masses of a common total.                   *)
(***************************************************************************)
EXTENDS Integers, Sequences, SequencesExt, FiniteSetsExt

CONSTANTS
    Tokens, Stops, SpecPrompt,
    Budget,         \* max_tokens
    K,              \* k, the most a drafter proposes
    NGram,          \* n of the n-gram drafter
    Mass            \* the total of the probability masses

ASSUME SpeculativeAssumption ==
    /\ IsFiniteSet(Tokens) /\ SpecPrompt \in Seq(Tokens) /\ Mass \in Nat
    /\ Budget \in Nat \ {0} /\ K \in Nat /\ NGram \in Nat \ {0}

VARIABLES
    greedy, drafter,
    said,           \* output
    done,           \* speculative_generate has returned
    stats,          \* SpeculationStats
    target_mass, draft_mass     \* one position's distributions, for sampling

speculativeVars == <<greedy, drafter, said, done, stats, target_mass, draft_mass>>

--------------------------------------------------------------------------------

Distributions == {m \in [Tokens -> 0 .. Mass] : SumFunction(m) = Mass}

SpeculativeInit ==
    /\ greedy \in [1 .. Budget + K -> Tokens]
    /\ drafter \in {"ngram", "model"}
    /\ said = <<>> /\ done = FALSE
    /\ stats = [proposed |-> 0, accepted |-> 0, rounds |-> 0]
    /\ target_mass \in Distributions /\ draft_mass \in Distributions

Context == SpecPrompt \o said

\* NgramDrafter.propose: what followed the latest earlier occurrence of the
\* last NGram tokens.  A model proposes k tokens, any.
NgramProposal(ids) ==
    LET pattern == SubSeq(ids, Len(ids) - NGram + 1, Len(ids))
        starts == {s \in 1 .. Len(ids) - NGram : SubSeq(ids, s, s + NGram - 1) = pattern}
    IN IF starts = {} THEN <<>>
       ELSE SubSeq(ids, Max(starts) + NGram, Min({Max(starts) + NGram + K - 1, Len(ids)}))

Proposals == IF drafter = "ngram" THEN {NgramProposal(Context)} ELSE [1 .. K -> Tokens]

\* A variant that reads the row of each proposal one position late.
RowLate(i, proposed, other) ==
    LET before == said \o SubSeq(proposed, 1, Min({i + 1, Len(proposed)}))
    IN IF IsPrefix(before, greedy) THEN greedy[Min({Len(before) + 1, Len(greedy)})] ELSE other[i]

\* verify_logits[i].argmax(): what the target says after the first i proposals.
Row(i, proposed, other) ==
    LET before == said \o SubSeq(proposed, 1, i)
    IN IF IsPrefix(before, greedy) THEN greedy[Len(before) + 1] ELSE other[i]

\* How many of the proposals accept_greedy accepts.
Accepted(proposed, other) ==
    Max({n \in 0 .. Len(proposed) :
            \A i \in 1 .. n : Row(i - 1, proposed, other) = proposed[i]})

\* What of a round's tokens is appended: up to the budget or a stop token.
Cut(tokens) ==
    LET stops == {i \in 1 .. Len(tokens) : tokens[i] \in Stops}
    IN SubSeq(tokens, 1, Min({Len(tokens), Budget - Len(said)} \cup stops))

\* One iteration of speculative_generate.
Round == /\ ~done
         /\ \E proposed \in Proposals, other \in [0 .. K -> Tokens] :
                LET n == Accepted(proposed, other)
                    round == Cut(Append(SubSeq(proposed, 1, n), Row(n, proposed, other)))
                IN /\ said' = said \o round
                   /\ done' = (Last(round) \in Stops \/ Len(said') >= Budget)
                   /\ stats' = [proposed |-> stats.proposed + Len(proposed),
                                accepted |-> stats.accepted + n,
                                rounds |-> stats.rounds + 1]
         /\ UNCHANGED <<greedy, drafter, target_mass, draft_mass>>

SpeculativeNext == Round

--------------------------------------------------------------------------------
(* accept_sampled, for one position; a product of masses has total Mass ^ 2. *)

\* accepted with probability min(1, p_target / p_draft).
AcceptedMass(t) == Min({target_mass[t], draft_mass[t]})

\* (target_probs - draft_probs).clamp(min=0)
Residual(t) == Max({target_mass[t] - draft_mass[t], 0})

RejectedMass == Mass - SumFunction([t \in Tokens |-> AcceptedMass(t)])
ResidualTotal == SumFunction([t \in Tokens |-> Residual(t)])

--------------------------------------------------------------------------------

PlainGreedy == LET ends == {i \in 1 .. Budget : greedy[i] \in Stops}
               IN SubSeq(greedy, 1, Min({Budget} \cup ends))

\* Speculation says exactly what the target alone would have said, whatever
\* the drafter proposes, and stops at the same token.
SameAsGreedy == /\ IsPrefix(said, PlainGreedy)
                /\ done <=> said = PlainGreedy

\* Every round is paid for by at least one token, and the statistic
\* tokens_per_round counts exactly the tokens delivered, but for those that
\* the end cuts off the last round: at most k, however long the output.
RoundsPaidFor == /\ stats.rounds <= Len(said)
                 /\ stats.accepted + stats.rounds - Len(said) \in 0 .. (IF done THEN K ELSE 0)

\* Accepting and resampling together leave every token the mass it has under
\* the target: accepted mass, and its share of what was rejected.
SampledExactly ==
    \A t \in Tokens :
        IF ResidualTotal = 0 THEN AcceptedMass(t) = target_mass[t]
        ELSE AcceptedMass(t) * ResidualTotal + RejectedMass * Residual(t)
                 = target_mass[t] * ResidualTotal

\* Speculation changes when tokens come and what they cost, never which: not the
\* greedy output, not the distribution that is sampled from.
SpeculationIsInvisible == SameAsGreedy /\ RoundsPaidFor /\ SampledExactly

================================================================================
