-------------------------------- MODULE MCParts --------------------------------
(* The parts that hold no conversation with an engine, side by side: the      *)
(* first state picks one as the subject, and only that one moves.  What an    *)
(* initial state of a part chooses is fixed while it is not the subject.      *)
EXTENDS BlockAllocator, Speculative, JsonGrammar, Stream, WindowedCache, Adapters, Results,
        PagedAttention, Sampling, Quantised, Signals, TensorParallel, Traces, Arithmetic, TLC

VARIABLE subject

Subjects == {"allocator", "speculative", "grammar", "stream", "window", "adapters", "results",
             "attention", "sampling", "quantised", "signals", "parallel", "traces",
             "arithmetic"}

MCSpecPrompt == <<"a", "b", "a">>
MCArrivals == <<0, 0, 2, 4>>
MCTenantOf == <<"alice", "hog", "hog", "">>
MCLatencyEdges == <<1, 3>>
MCBatchEdges == <<0, 1>>
MCEntry == {-1, 2}
MCLogits == {-2, 0, 2}
MCHistories == {<<>>, <<1>>, <<1, 1>>, <<1, 2>>}
MCWeights == {-3, 0, 2}
MCLevels == [s \in Schemes |-> IF s = "per_tensor" THEN 127 ELSE 7]

\* "high" has another scale than the others.
MCTargets == "low" :> {1, 2} @@ "same" :> {1, 2} @@ "high" :> {1}
MCScale == "low" :> 1 @@ "same" :> 1 @@ "high" :> 2

\* The prefix-cached engine inherits from the paged one, and the router runs
\* it; run_agents.py lists files by hand.
MCMro == "prefix" :> {"prefix", "paged"} @@ "router" :> {"router"} @@ "agents" :> {"prefix", "paged"}
MCInner == "prefix" :> {} @@ "router" :> {"prefix"} @@ "agents" :> {}
MCListed == "agents" :> {"prefix"}
MCCites == "ch20" :> {"router"} @@ "ch24" :> {"agents"}

\* A few texts in place of the book's prompts.
MCSystemPrompt == <<3, 1>>
MCTenantPrompts == <<<<3, 1>>, <<3, 2>>, <<4>>>>
MCQuestions == {<<1>>, <<3, 1>>}
MCRoleOpen == [system |-> <<11>>, user |-> <<12>>]
MCRoleClose == <<13>>
MCGeneration == <<14, 15>>
MCQuiet == <<"alice", "bob">>

\* One with shared keys and values, one without.
MCModels ==
    {[vocab_size |-> 3, n_layers |-> 2, n_heads |-> 4, n_kv_heads |-> 2, head_dim |-> 2, ffn_mult |-> 2],
     [vocab_size |-> 2, n_layers |-> 1, n_heads |-> 3, n_kv_heads |-> 3, head_dim |-> 1, ffn_mult |-> 4]}

Some(S) == CHOOSE x \in S : TRUE

Settled ==
    /\ IF subject = "allocator" THEN TRUE ELSE free_list = SetToSeq(Blocks)
    /\ IF subject = "speculative" THEN TRUE
       ELSE /\ greedy = [i \in 1 .. Budget + K |-> Some(Tokens)] /\ drafter = "model"
            /\ target_mass = Some(Distributions) /\ draft_mass = Some(Distributions)
    /\ IF subject = "window" THEN TRUE ELSE window = 1 /\ sinks = 0 /\ text_length = Some(TextLengths)
    /\ IF subject = "attention" THEN TRUE
       ELSE block_table = [i \in 1 .. TableLength |-> SetToSeq(PhysicalBlocks)[i]]
    /\ IF subject = "sampling" THEN TRUE
       ELSE /\ logits = [t \in Vocabulary |-> 0] /\ prev_ids = <<>>
            /\ params = [penalty |-> 1, inverse |-> 0, top_k |-> Some(TopKs),
                         min_p |-> Some(MinPs), top_p |-> Some(TopPs)]
    /\ IF subject = "quantised" THEN TRUE
       ELSE weight = [w \in Cells |-> Some(Weights)] /\ scheme = "grouped"
    /\ IF subject = "signals" THEN TRUE ELSE generator = "open"
    /\ IF subject = "traces" THEN TRUE ELSE shape = "chat"
    /\ IF subject = "arithmetic" THEN TRUE
       ELSE figure = "passes" /\ model = Some(Models) /\ a = 1 /\ b = 1
    /\ IF subject = "parallel" THEN TRUE
       ELSE /\ first_weight = [h \in 1 .. DHidden |-> [i \in 1 .. DModel |-> Some(Entry)]]
            /\ second_weight = [o \in 1 .. DModel |-> [h \in 1 .. DHidden |-> Some(Entry)]]
            /\ input = [i \in 1 .. DModel |-> Some(Entry)] /\ n_shards = 1

PartsInit ==
    /\ subject \in Subjects /\ Settled
    /\ Init /\ SpeculativeInit /\ GrammarInit /\ StreamInit /\ WindowInit /\ AdapterInit
    /\ ResultsInit /\ AttentionInit /\ SamplingInit /\ QuantisedInit /\ SignalsInit /\ ParallelInit
    /\ TracesInit /\ ArithmeticInit

Still(part, mine) == IF subject = part THEN TRUE ELSE UNCHANGED mine

Rest ==
    /\ UNCHANGED subject
    /\ Still("allocator", vars) /\ Still("speculative", speculativeVars)
    /\ Still("grammar", grammarVars) /\ Still("stream", streamVars)
    /\ Still("window", windowVars) /\ Still("adapters", adapterVars)
    /\ Still("results", resultsVars) /\ Still("attention", attentionVars)
    /\ Still("sampling", samplingVars) /\ Still("quantised", quantisedVars)
    /\ Still("signals", signalsVars) /\ Still("parallel", parallelVars)
    /\ Still("traces", tracesVars) /\ Still("arithmetic", arithmeticVars)

PartsNext ==
    \/ subject = "allocator" /\ Next /\ Rest
    \/ subject = "speculative" /\ SpeculativeNext /\ Rest
    \/ subject = "grammar" /\ GrammarNext /\ Rest
    \/ subject = "stream" /\ StreamNext /\ Rest
    \/ subject = "window" /\ WindowNext /\ Rest
    \/ subject = "adapters" /\ AdapterNext /\ Rest
    \/ subject = "results" /\ ResultsNext /\ Rest
    \/ subject = "attention" /\ AttentionNext /\ Rest
    \/ subject = "sampling" /\ SamplingNext /\ Rest
    \/ subject = "quantised" /\ QuantisedNext /\ Rest
    \/ subject = "signals" /\ SignalsNext /\ Rest
    \/ subject = "parallel" /\ ParallelNext /\ Rest
    \/ subject = "traces" /\ TracesNext /\ Rest
    \/ subject = "arithmetic" /\ ArithmeticNext /\ Rest

PartsSpec ==
    PartsInit /\ [][PartsNext]_<<subject, vars, speculativeVars, grammarVars, streamVars,
        windowVars, adapterVars, resultsVars, attentionVars, samplingVars, quantisedVars,
        signalsVars, parallelVars, tracesVars, arithmeticVars>>

================================================================================
