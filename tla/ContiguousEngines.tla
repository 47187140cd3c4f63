--------------------------- MODULE ContiguousEngines ---------------------------
(***************************************************************************)
(* The engines that give a sequence a contiguous cache of its own:         *)
(* NaiveEngine and CachedEngine of engines/naive.py, StaticBatchEngine and *)
(* ContinuousBatchEngine of engines/batched.py, DisaggregatedEngine of     *)
(* engines/disaggregated.py.  One module holds a set of replicas of one of *)
(* them, as the factory of router.py makes them.  Here step() is one       *)
(* action: nothing it calls hands control to anybody else.                 *)
(*                                                                         *)
(* running is the list the code calls running, decoding or current.        *)
(***************************************************************************)
EXTENDS BatchPass, SequencesExt, Positions

CONSTANTS
    Requests, Vocab, Prompt, StopTokens, MaxTokens,
    MaxBatchSize,
    PrefillBatchSize,   \* prefill_batch_size of the disaggregated engine
    MaxSeqLen,          \* rows of the rotary table, config.max_seq_len
    Replicas,           \* 1 .. n_replicas
    Kinds               \* the engine classes a fleet may be made of

ASSUME ReplicaAssumption ==
    /\ Prompt \in [Requests -> Seq(Vocab \cup {PadToken}) \ {<<>>}]
    /\ MaxTokens \in [Requests -> Nat \ {0}]
    /\ \A r \in Requests : Len(Prompt[r]) + MaxTokens[r] - 1 <= MaxSeqLen
    /\ MaxBatchSize \in Nat \ {0} /\ PrefillBatchSize \in Nat \ {0} /\ MaxSeqLen \in Nat
    /\ IsFiniteSet(Replicas) /\ Replicas # {} /\ Replicas = 1 .. Cardinality(Replicas)
    /\ Kinds \subseteq {"naive", "cached", "static-batch", "continuous-batch", "disaggregated"}

VARIABLES
    kind,           \* the class of every replica
    waiting,        \* each replica's queue
    running,        \* what each replica is serving
    output,         \* output_token_ids, every one of which was also returned
    finished,       \* RequestState.finished
    past,           \* the cache; of the naive engine, what its last pass computed
    total_slot_steps, wasted_slot_steps, transfers

requestVars == <<output, finished, past>>
counters == <<total_slot_steps, wasted_slot_steps, transfers>>
replicaVars == <<kind, waiting, running, requestVars, counters>>

--------------------------------------------------------------------------------

AllTokens(r) == Prompt[r] \o output[r]

Single == kind \in {"naive", "cached"}

Unfinished(s) == Picked(s, {k \in DOMAIN s : ~finished[s[k]]})
First(s, n) == SubSeq(s, 1, Min({n, Len(s)}))

ReplicaInit ==
    /\ kind \in Kinds
    /\ waiting = [i \in Replicas |-> <<>>] /\ running = [i \in Replicas |-> <<>>]
    /\ output = [r \in Requests |-> <<>>]
    /\ finished = [r \in Requests |-> FALSE]
    /\ past = [r \in Requests |-> <<>>]
    /\ total_slot_steps = 0 /\ wasted_slot_steps = 0 /\ transfers = 0

\* A variant that looks at who is in service only.
HasWorkInService(i) == running[i] # <<>>

HasWork(i) == waiting[i] # <<>> \/ running[i] # <<>>

--------------------------------------------------------------------------------
(* Who takes part in one step of replica i. *)

\* A variant of the continuous engines that never lets go of a finished request.
KeptAll(i) == running[i]

\* The list after the engine retired what ended before; only static batching
\* and the single engines have nothing to retire.
Kept(i) == IF kind \in {"continuous-batch", "disaggregated"}
           THEN Unfinished(running[i]) ELSE running[i]

\* How many requests leave the queue.
Places(i) ==
    CASE Single -> IF running[i] = <<>> THEN 1 ELSE 0
      [] kind = "static-batch" -> IF running[i] = <<>> THEN MaxBatchSize ELSE 0
      [] kind = "continuous-batch" -> MaxBatchSize - Len(Kept(i))
      [] kind = "disaggregated" ->
             Min({PrefillBatchSize, Max({MaxBatchSize - Len(Kept(i)), 0})})

Prefilled(i) == First(waiting[i], Places(i))

\* Static batching decodes only if it formed no batch, a single engine only
\* what it had; static batching also decodes those who are finished.
Decoded(i) == IF kind \in {"naive", "cached", "static-batch"} /\ Prefilled(i) # <<>>
              THEN <<>> ELSE Kept(i)

\* A variant of static batching that returns what finished members compute.
EmittingEverybody(i) == Range(Prefilled(i)) \cup Range(Decoded(i))

\* Whose token is returned.
Emitting(i) == {r \in Range(Prefilled(i)) \cup Range(Decoded(i)) : ~finished[r]}

--------------------------------------------------------------------------------
(* The pass: what is computed, and on what. *)

\* The single engines have no rectangle.  A pass over a whole sequence leaves
\* the positions to the model.
LonePass(tokens) ==
    LET present == Forward(<<>>, Columns(tokens), DefaultPositions(<<>>, Columns(tokens)),
                           AllValid(Len(tokens)))
    IN [k \in 1 .. Len(tokens) |-> present[k - 1]]

\* CachedEngine's decode counts the position from the tokens, not the cache.
LoneDecode(r) ==
    Append(past[r], Forward(Columns(past[r]), Columns(<<Last(output[r])>>),
                            Columns(<<Len(AllTokens(r)) - 1>>),
                            AllValid(Len(past[r]) + 1))[Len(past[r])])

\* The cache of r after a step in which the sequences of pre are prefilled
\* together, or those of dec decoded together.
Computed(r, pre, dec) ==
    CASE kind = "naive" -> LonePass(AllTokens(r))
      [] kind = "cached" -> IF r \in Range(pre) THEN LonePass(AllTokens(r)) ELSE LoneDecode(r)
      [] ~Single ->
             IF r \in Range(pre)
             THEN PrefillCache(AllTokens(r), Longest({Len(AllTokens(s)) : s \in Range(pre)}))
             ELSE DecodeCache(past[r], Last(output[r]), Longest({Len(past[s]) : s \in Range(dec)}))

\* A position past the rotary table raises IndexError, out of step() and of
\* whoever called it.
Overruns(i) ==
    \/ \E r \in Range(Prefilled(i)) : Len(AllTokens(r)) > MaxSeqLen
    \/ \E r \in Range(Decoded(i)) :
           (IF Single THEN Len(AllTokens(r)) - 1 ELSE Len(past[r])) >= MaxSeqLen

EndsWith(r, tokens) == Last(tokens) \in StopTokens[r] \/ Len(tokens) >= MaxTokens[r]

\* What step() leaves in running, once the requests of Over are finished.
Remaining(kept, pre, dec, Over) ==
    CASE kind = "continuous-batch" -> kept \o pre
      [] kind = "disaggregated" -> kept \o Picked(pre, {k \in DOMAIN pre : pre[k] \notin Over})
      [] OTHER -> IF Range(pre \o dec) \subseteq Over THEN <<>> ELSE pre \o dec

\* _emit: each key of token is given its token, and may end with it.
Emitted(token) ==
    /\ output' = [r \in Requests |-> IF r \in DOMAIN token
                                     THEN Append(output[r], token[r]) ELSE output[r]]
    /\ finished' = [r \in Requests |->
           finished[r] \/ (r \in DOMAIN token /\ EndsWith(r, output'[r]))]

\* _handoff: the caches that leave the prefill pool, each counted as it is copied.
HandedOff(serving) == {r \in serving : past[r] = <<>>}

\* step() of every replica, returning one token to each key of token: pre and
\* dec are the sequences that each of them prefills and decodes, and kept the
\* list it retired from.
StepWith(token, pre, dec, kept) ==
    LET serving == UNION {Range(pre[i] \o dec[i]) : i \in Replicas}
    IN /\ Emitted(token)
       /\ past' = [r \in Requests |->
              IF r \notin serving THEN past[r]
              ELSE LET i == CHOOSE j \in Replicas : r \in Range(pre[j] \o dec[j])
                   IN Computed(r, pre[i], dec[i])]
       /\ waiting' = [i \in Replicas |-> SubSeq(waiting[i], Len(pre[i]) + 1, Len(waiting[i]))]
       /\ running' = [i \in Replicas |->
              Remaining(kept[i], pre[i], dec[i], {r \in Requests : finished'[r]})]
       /\ IF kind \in {"static-batch", "continuous-batch"}
          THEN /\ total_slot_steps' = total_slot_steps + Cardinality(serving)
               /\ wasted_slot_steps' = wasted_slot_steps + Cardinality({r \in serving : finished[r]})
          ELSE UNCHANGED <<total_slot_steps, wasted_slot_steps>>
       /\ transfers' = IF kind # "disaggregated" THEN transfers
                       ELSE transfers + Cardinality(HandedOff(serving))
       /\ UNCHANGED kind

\* An engine without work is not stepped, and would not change if it were.
StepAll == \E pre \in {[i \in Replicas |-> Prefilled(i)]},
              dec \in {[i \in Replicas |-> Decoded(i)]},
              kept \in {[i \in Replicas |-> Kept(i)]} :
               \E token \in [UNION {Emitting(i) : i \in Replicas} -> Vocab] :
                   StepWith(token, pre, dec, kept)

--------------------------------------------------------------------------------

\* Everything the model attended to for the last token of a live request, and
\* everything in its cache, is that request's own tokens, each at its own
\* position, whoever shared the pass and however it was padded.
OwnPast == \A r \in Requests : (output[r] # <<>> /\ ~finished[r]) =>
               past[r] = OwnCache(Front(AllTokens(r)))

================================================================================
