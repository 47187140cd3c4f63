-------------------------------- MODULE Sampling --------------------------------
(***************************************************************************)
(* sample() of sampling.py: the repetition penalty, then temperature, then *)
(* the three filters.  Logits are whole and exp() is a power of two, so a  *)
(* token's mass is exact; a temperature is given by its inverse, and the   *)
(* shares min_p and top_p in eighths.                                      *)
(***************************************************************************)
EXTENDS Integers, Sequences, SequencesExt, FiniteSetsExt

CONSTANTS
    Vocabulary, Logits,     \* Logits are even, for the penalty of 2
    Histories,              \* values of prev_ids
    InverseTemperatures,    \* 0 stands for greedy
    TopKs, MinPs, TopPs

ASSUME SamplingAssumption ==
    /\ \A l \in Logits : l % 2 = 0
    /\ TopKs \subseteq Nat /\ MinPs \subseteq 0 .. 8 /\ TopPs \subseteq 1 .. 8
    /\ InverseTemperatures \subseteq Nat

VARIABLES
    logits, prev_ids, params,
    sampled,
    drawn           \* the tokens that sample() may return

samplingVars == <<logits, prev_ids, params, sampled, drawn>>

SamplingInit ==
    /\ logits \in [Vocabulary -> Logits] /\ prev_ids \in Histories
    /\ params \in [penalty : {1, 2}, inverse : InverseTemperatures,
                   top_k : TopKs, min_p : MinPs, top_p : TopPs]
    /\ drawn = {} /\ sampled = FALSE

--------------------------------------------------------------------------------

\* apply_repetition_penalty: gathered from the raw logits and scattered back,
\* so that a token seen twice is penalised once.
Penalised == [t \in Vocabulary |->
    IF t \notin Range(prev_ids) THEN logits[t]
    ELSE IF logits[t] > 0 THEN logits[t] \div params.penalty ELSE logits[t] * params.penalty]

Lowest == params.inverse * params.penalty * Min(Logits \cup {0})

\* exp() of the scaled logits: softmax up to its denominator.
MassOf(scaled) == [t \in Vocabulary |-> 2 ^ (scaled[t] * params.inverse - Lowest)]

Total(mass, S) == MapThenSumSet(LAMBDA t : mass[t], S)

\* apply_top_k: what is not below the k-th largest.
TopK(mass) ==
    IF params.top_k = 0 \/ params.top_k >= Cardinality(Vocabulary) THEN Vocabulary
    ELSE LET threshold == Max({m \in {mass[t] : t \in Vocabulary} :
                 Cardinality({t \in Vocabulary : mass[t] >= m}) >= params.top_k})
         IN {t \in Vocabulary : mass[t] >= threshold}

\* apply_min_p
MinP(mass, S) == {t \in S : 8 * mass[t] >= params.min_p * Max({mass[u] : u \in S})}

Orders(mass, S) == {order \in SetToSeqs(S) : \A i \in 2 .. Len(order) :
                        mass[order[i - 1]] >= mass[order[i]]}

\* A variant without the shift: the token that crosses the threshold goes too.
NucleusUnshifted(mass, order) ==
    {order[i] : i \in {i \in 1 .. Len(order) :
        8 * Total(mass, {order[j] : j \in 1 .. i})
            <= params.top_p * Total(mass, Range(order))}}

\* apply_top_p, in the order that sort() left the tokens in: a token goes when
\* those before it already exceed the share.
Nucleus(mass, order) ==
    {order[i] : i \in {i \in 1 .. Len(order) :
        8 * Total(mass, {order[j] : j \in 1 .. i - 1})
            <= params.top_p * Total(mass, Range(order))}}

Eligible(mass) == MinP(mass, TopK(mass))

\* sample(): the argmax, or a draw from what the filters leave.
Sample ==
    /\ ~sampled /\ sampled' = TRUE
    /\ IF params.inverse = 0
       THEN drawn' = {t \in Vocabulary : \A u \in Vocabulary : Penalised[u] <= Penalised[t]}
       ELSE \E mass \in {MassOf(Penalised)} :
            \E order \in Orders(mass, Eligible(mass)) :
                drawn' = IF params.top_p = 8 THEN Eligible(mass) ELSE Nucleus(mass, order)
    /\ UNCHANGED <<logits, prev_ids, params>>

SamplingNext == Sample

--------------------------------------------------------------------------------

\* The logit of a token after one penalty, which never raises it.
Wanted(t) == IF t \notin Range(prev_ids) THEN logits[t]
             ELSE Min({logits[t] * params.penalty, logits[t] \div params.penalty})

Asked(t) == 2 ^ (Wanted(t) * params.inverse - Lowest)

Heavier(t) == {u \in Vocabulary : Asked(u) > Asked(t)}

Weighing(S) == MapThenSumSet(Asked, S)

\* What k tokens do not outweigh and is not too far below the heaviest.
AfterFilters == {t \in Vocabulary :
    /\ params.top_k = 0 \/ Cardinality(Heavier(t)) < params.top_k
    /\ \A u \in Vocabulary : 8 * Asked(t) >= params.min_p * Asked(u)}

Enough(S) == 8 * Weighing(S) >= params.top_p * Weighing(AfterFilters)

\* What can be drawn, said token by token instead of filter after filter:
\* never nothing, and never a token without all that are heavier; none outside
\* AfterFilters; enough of AfterFilters to reach top_p of its mass, and no token
\* to spare: with any of its lightest left out it does not exceed top_p.  With
\* a temperature of zero it is a heaviest token.
DrawsWhatWasAsked ==
    sampled =>
        /\ drawn # {}
        /\ \A t \in drawn : Heavier(t) \subseteq drawn
        /\ IF params.inverse = 0
           THEN \A t \in drawn, u \in Vocabulary : Wanted(u) <= Wanted(t)
           ELSE /\ drawn \subseteq AfterFilters /\ Enough(drawn)
                /\ params.top_p = 8 \/ \A t \in drawn :
                       (\A u \in drawn : Asked(t) <= Asked(u)) =>
                           8 * Weighing(drawn \ {t}) <= params.top_p * Weighing(AfterFilters)

\* "keep the smallest set of tokens whose probability mass reaches p": no
\* smaller set does.  The filter drops a token when those before it exceed p,
\* and so keeps one more when they come to exactly p.
SmallestNucleus ==
    (sampled /\ params.inverse # 0 /\ params.top_p < 8) =>
        \A S \in SUBSET AfterFilters : Enough(S) => Cardinality(S) >= Cardinality(drawn)

================================================================================
