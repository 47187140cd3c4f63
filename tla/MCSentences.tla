------------------------------ MODULE MCSentences ------------------------------
(* What the repository says of parts that stand alone, and what they do.  The *)
(* parts move one after another, each for as long as something said of it     *)
(* holds, from an initial state with just the case in question.  A state in   *)
(* which nothing holds any more refutes every one of the sentences.           *)
EXTENDS ChunkedEngine, Arithmetic, Quantised, Sampling, Results, Traces, JsonGrammar, Adapters, TLC

CONSTANTS r1, r2, x

MCRequests == {r1, r2}
MCVocab == {x}
MCPrompt == r1 :> <<x, x, x>> @@ r2 :> <<x, x, x>>
MCStopTokens == [r \in MCRequests |-> {}]
MCMaxTokens == [r \in MCRequests |-> 1]
MCModels == {[vocab_size |-> 1, n_layers |-> 1, n_heads |-> 1, n_kv_heads |-> 1, head_dim |-> 1,
              ffn_mult |-> 1]}
MCLevels == [s \in Schemes |-> 7]
MCLogits == {0}
MCHistories == {<<>>}
MCMro == "agents" :> {"prefix", "paged"}
MCInner == "agents" :> {}
MCListed == "agents" :> {"prefix"}
MCCites == "ch24" :> {"agents"}
MCText == <<3>>
MCTenantPrompts == <<MCText>>
MCQuestions == {MCText}
MCRole == [system |-> MCText, user |-> MCText]
MCQuiet == <<"alice">>
MCTargets == "pair" :> {1, 2} @@ "one" :> {1, 3} @@ "high" :> {1}
MCScale == "pair" :> 1 @@ "one" :> 1 @@ "high" :> 2

\* Two equal requests, and blocks are only told apart by what is in them.
Interchangeable == Permutations(Blocks) \cup Permutations(MCRequests)

--------------------------------------------------------------------------------

Parts == <<"arithmetic", "quantised", "sampling", "results", "traces", "grammar", "chunked",
           "adapters">>

\* What is said of a part still holds, some of it.
Holds(part) ==
    CASE part = "arithmetic" -> PassesPredicted
      [] part = "quantised" -> ScalesCounted
      [] part = "sampling" -> SmallestNucleus
      [] part = "results" -> ProducedByCheckedIn \/ EveryBaseCounts
      [] part = "traces" -> NothingToReuse
      [] part = "grammar" -> InvalidIsUnreachable
      [] part = "chunked" -> ChunksWithinBudget
      [] part = "adapters" -> OneScalePerLayer \/ AnyAttachedServed \/ DetachRestores

Moves(n) == Holds(Parts[n]) /\ \A k \in 1 .. n - 1 : ~Holds(Parts[k])

SentencesInit ==
    /\ ArithmeticInit /\ figure = "passes"
    /\ QuantisedInit /\ scheme = "per_channel"
    /\ SamplingInit /\ params.penalty = 1
    /\ ResultsInit
    /\ TracesInit /\ shape = "lengths"
    /\ GrammarInit /\ ChunkedInit /\ AdapterInit

\* A caller that merges only into what is in the model, through AdapterNext.
MergesAttached == folded' # folded => handle \subseteq wrapped

Unmoved(n) ==
    /\ IF n = 1 THEN TRUE ELSE UNCHANGED arithmeticVars
    /\ IF n = 2 THEN TRUE ELSE UNCHANGED quantisedVars
    /\ IF n = 3 THEN TRUE ELSE UNCHANGED samplingVars
    /\ IF n = 4 THEN TRUE ELSE UNCHANGED resultsVars
    /\ IF n = 5 THEN TRUE ELSE UNCHANGED tracesVars
    /\ IF n = 6 THEN TRUE ELSE UNCHANGED grammarVars
    /\ IF n = 7 THEN TRUE ELSE UNCHANGED chunkedVars
    /\ IF n = 8 THEN TRUE ELSE UNCHANGED adapterVars

SentencesNext ==
    \/ Moves(1) /\ ArithmeticNext /\ Unmoved(1)
    \/ Moves(2) /\ QuantisedNext /\ Unmoved(2)
    \/ Moves(3) /\ SamplingNext /\ Unmoved(3)
    \/ Moves(4) /\ ResultsNext /\ Unmoved(4)
    \/ Moves(5) /\ TracesNext /\ Unmoved(5)
    \/ Moves(6) /\ GrammarNext /\ Unmoved(6)
    \/ Moves(7) /\ ChunkedNext /\ Unmoved(7)
    \/ Moves(8) /\ AdapterNext /\ MergesAttached /\ Unmoved(8)

SentencesSpec ==
    SentencesInit /\ [][SentencesNext]_<<arithmeticVars, quantisedVars, samplingVars, resultsVars,
        tracesVars, grammarVars, chunkedVars, adapterVars>>

\* Eleven sentences of docs, comments and tests, each quoted where it is defined:
\* what the naive engine pays, the bytes of scales, the smallest nucleus, two on
\* results and their stamps, what the default trace shares, valid JSON, the
\* budget of a step, one scale in a layer, any adapter served, and a model
\* restored.  In every state one of them at least stands: where none does, each
\* is contradicted by what its own part did on the way there.
SomeSentenceHolds == \E n \in DOMAIN Parts : Holds(Parts[n])

================================================================================
