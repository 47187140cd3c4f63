# Verification of llmserve

`llmserve` is a serving engine for language models, built up chapter by chapter: each engine
class inherits from the one before it and overrides a few methods. Everything runs in one thread.
A driver submits requests with `add_request()` and calls `step()` as long as `has_work()`; all that
is hard lies in what one step does to shared memory, to the queue and to the streams of several
requests at once, in what callers do between two steps, and in the many places where an index, a
mask or a count that is off by one gives no error but another answer.

This directory holds TLA+ modules that model the program, configurations with which TLC checks them
on small instances, and proofs, checked by TLAPS, for every size of pool, batch, fleet and workload: of
the safety properties of the engines with paged caches (paged, prefix-cached, shedding, tenant-fair
and offloading), of the fleet of the other engines behind its router, and of five of the parts that
stand by themselves. `PROJECT.json` says which definition stands for which lines.

## Inventory

| Component | State | Operations | What makes it correct |
|---|---|---|---|
| `cache/blocks.py` allocator | free list, reference counts | allocate, share, free | no block lost, none handed out twice |
| `cache/prefix.py` cache | ordered map from prefix to block | lookup, publish, insert, evict | an entry's block holds that prefix and nothing else |
| `engines/paged.py` | queue, batch, block tables, outputs | `add_request`, `step` (retire, admit, prefill, grow or preempt, decode) | memory conserved; first come first served; streams end where they should; no step raises; everybody is served |
| `engines/prefix.py` | the above and the cache | the same, with sharing, publication, eviction | counts exact under sharing; contexts are one's own; a warm cache never stops the engine |
| `engines/chunked.py` | prefills in progress, token budget | its own `step`: decode, continue chunks, begin new ones | chunks add up to the prompt; the budget is kept; nothing starves |
| `engines/cancel.py` | notices owed | `abort`, `step` | everybody is answered once |
| `engines/shedding.py` | draining flag | `should_admit`, refusal, `drain`, `drained` | a refusal is answered; a drain ends and cuts nobody |
| `engines/tenant.py` | work charged per tenant | `_next_waiting`, charge | bounded unfairness, order within a tenant, no starvation |
| `cache/offload.py`, `engines/offload.py` | second tier, ordered map from prefix to KV | demote, promote | contents stay with their key; promises to requests still kept |
| `engines/naive.py`, `batched.py`, `disaggregated.py` | queue, batch, contiguous KV per request, slots | `add_request`, `step`, handoff | a request's tokens depend on itself alone, whoever shares its batch; exact streams; everybody served |
| `engines/base.py` | none | the protocol `add_request`, `has_work`, `step` | what any engine promises |
| `router.py` | replicas, assignments | route, step all | affinity and load policies do what they say; a fleet promises what one engine promises |
| `speculative.py` | context, drafter | propose, verify, accept | what is said, or sampled, is what the target alone would say |
| `constrain.py` | grammar state | mask, step | never a dead end; a finished output parses |
| `cache/window.py`, `bench/run_window.py` | kept positions | keep, decode on | kept positions, blocks and rotary positions agree |
| `api.py`, `tokenizer.py` | bytes not yet decoded, usage | `on_tokens`, `on_finish` | the client reads the whole response, nothing is revised |
| `lora.py` | wrapped layers, row adapters, base weights | attach, choose, merge, detach | each row is served with its own delta |
| `sampling.py` | none | penalty, temperature, filters, draw | draws what was asked for, and always something |
| `attention.py`, `kernels.py` | tiles, running sums | walk the block table | equals attention over the whole context |
| `quant.py`, `parallel.py` | levels and scales, shards | quantise, restore; split, reduce | error bounded by the step; split product equals the product |
| `arithmetic.py` (passes), `config.py` and `lora.py` (sizes), `quant.py` (bytes) | none | closed forms | each equals what it predicts |
| the rest of `arithmetic.py` and of the sizes, `cost.py`, `latent.py` | none | prices, rates, projections | not modelled |
| `metrics.py`, `bench/harness.py`, `closed_loop.py`, `run_observability.py` | records, histograms, snapshots | submit, observe, summarise | figures are of what happened, and what they leave out is known |
| `bench/traces.py` | drawn requests | one generator per workload | order of arrival; text shared as described |
| `bench/harness.py` stamps, `scripts/verify-numbers.py`, `render-scorecards.py` | results, fragments | run, render, check | a passing gate means current figures |
| `model.py` | weights, rotary table | forward | (its numbers are out of reach; what it attends to is in scope) |
| `bench/scorecard.py`, `scripts/build-pdf.py`, training | none | format, train | not modelled |

**How they interact.** By method calls within one step. An engine owns its allocator and cache;
the queue (`waiting`) and the batch (`running`) are plain lists that several loops of a step read
and change. The hooks by which a subclass changes its parent are `_next_waiting`, `_make_room`,
`_prefill`, `_release` and `step`, and many of the hard cases are of an inherited loop that does
not know of the override. Between steps callers may submit, abort and drain in any order.

**What is hard.** `PROJECT.json` lists the hazards, each at its line. The main families: admission
promises blocks that are taken later; preemption changes the lists under the loop that triggered
it, and may hit a request that ended in this very step; blocks are shared by several tables and
the cache, and dropped by each on its own; `stored` runs ahead of what has been written while a
prefill is in progress; a cache that only an admission empties makes an idle engine look full;
notices and outputs reach a caller by two different ways; a rectangle of sequences of different
lengths is padded on the left in prefill and on the right in decode; the same events are counted
by several parties; and figures are stamped with hashes of files that a program has to guess.
There is no thread, no persistence and no
network in this code (two gates and a benchmark share files, which are edited meanwhile), so there
is no crash recovery, message loss or data race to model.

## Modules

    BlockPool <------------------- PagedEngine <--- PrefixEngine <--+-- ChunkedEngine
      ^ implemented by               | implements                   +-- CancellableEngine <-- SheddingEngine
    BlockAllocator                 ServiceLine                      +-- TenantFairEngine
                                                                    +-- OffloadEngine

    BatchPass <--- ContiguousEngines <--- Router <--- Fleet
                                                        | implements
                                                      TokenService

    MCParts: BlockAllocator  Speculative  JsonGrammar  Stream  WindowedCache  Adapters  Results
             PagedAttention  Sampling  Quantised  Signals  TensorParallel  Traces  Arithmetic

    MCCaches: PrefixEngine  OffloadEngine
    MCSentences: ChunkedEngine  Arithmetic  Quantised  Sampling  Results  Traces  JsonGrammar  Adapters

    SequenceFacts <--+-- PagedProofs <--- PrefixProofs <--+-- SheddingProofs
                     +-- FleetProofs                      +-- TenantProofs
                     +-- PartsProofs                      +-- OffloadProofs

An arrow to the left is EXTENDS, as in the classes; each proof module also extends the engine it is
about. `Positions` has what the models need of positions in a list. A module defines what its class overrides and
adds, and reuses the parent's actions for the rest. `MC*` modules give the constants values.

**BlockPool** is the contract of the allocator: a set of free blocks and counts, and which free
block an allocation takes is left open. **BlockAllocator** is the code, with its list used as a
stack and its dictionary without zero entries; the run `parts` shows it implements BlockPool
under clients who drop only what they hold. The engines are built on BlockPool, so what they
show holds whatever order the free list is in.

**PagedEngine.** `step()` is one call that nothing interrupts. It is cut into one action per
iteration of its loops, with a program counter `pc`, so that what one iteration does to the others
is visible: `retire`, `admit`, `prefill`, `emit_prefill`, `grow`, `emit_decode`, and `idle` between
steps, when callers act. `raised` is an `OutOfBlocksError` (or `IndexError`) that leaves `step()`.
The local variables `admitted` and `reserved` are state; `states` is the argument of the method
under way (the list a preemption removes its victim from) and `at` the position in it. The history
variables `arrival` and `outlived` are read by properties only.

**ServiceLine** is the abstract specification of a continuous-batching scheduler: one line in order
of arrival, a prefix of which is in service. Service starts at the boundary, is taken back from the
boundary, and ends anywhere within. The mapping is `line = running \o admitted \o waiting` and
`inService = Len(running) + Len(admitted)`; a preemption is then nothing but a move of the boundary.

**PrefixEngine** adds the cache and what each block holds. A key (a hash of all tokens up to the
end of a block) is that token sequence; KV is the token sequence it depends on, or `Garbage` when
it was computed from something else than the sequence's own past. So "the cache is honest" and
"everybody reads its own context" are invariants about contents, not about bookkeeping.

**ChunkedEngine** replaces `step()` (`retire`, `grow`, `emit_decode`, `settle`, `prefill`, `admit`,
`fill`). A prefill in progress carries its KV in `RequestState.past`, abstracted to its length and
whether it belongs to its request. `torn` records who was preempted with a prefill in progress.

**CancellableEngine** adds `abort()` between steps, the notices owed, and what a step returns, of
which the terminal outputs are kept. **SheddingEngine** adds refusal, `drain()` and `drained`.
**TenantFairEngine** chooses the next request by deficit and charges at prefill. **OffloadEngine**
adds the tier, demotion in both eviction loops, and `_promote()` one key at a time.

**BatchPass** is one forward pass and the rectangle it is given. It has no arithmetic: a cached entry
is the token it was computed from, the position it was rotated by and the set of what its query
attended to, so two entries are equal exactly when the model would compute the same numbers. Left
padding, right padding, positions and masks are as in `_prefill_batch` and `_decode_batch`.

**ContiguousEngines** is a set of replicas of one of five engines: naive, cached, static,
continuous, disaggregated. `step()` is one action, since nothing it calls hands control away. The
rotary table has a length, and a position beyond it raises. **Router** adds the three policies,
the load they read and the assignments; `hash()` is an unknown map fixed at the start, so that
affinity is checked for every placement of the prefixes. **Fleet** closes the system with
`run_benchmark` (open) or `run_closed_loop`; a fleet of one replica is an engine by itself.
**TokenService** is the abstract specification of the `Engine` protocol, in which nobody can see a
batch, a pool or a replica: a request is submitted, gets tokens one at a time, is over with the token
that ends it, and is never heard of again. `ServesTokens` is the refinement.

**MCCaches** runs PrefixEngine, and OffloadEngine on top of it, over the same requests; the first
state picks which.

**MCParts** puts the parts that hold no conversation with an engine side by side. The first state
picks the subject; that part moves and the others keep one fixed state. One run then checks
fourteen machines without multiplying their states, and an invariant over all of them says
something about each.

**MCSentences** is for what the repository says of some of these parts, and of chunked prefill, and
the code does not keep: eleven sentences, each a state predicate next to the part it is about. Each
part has the smallest instance in which the case can occur. The parts move one after another,
each for as long as one of its sentences holds, and `SomeSentenceHolds` is the disjunction of all. TLC
refutes it with one behaviour of 42 states, which is a counterexample to every sentence at once: what a part
did in it contradicts what is said of that part, and the parts do not touch each other's variables. The caller
is restricted in one way, `MergesAttached`: it merges adapters only into layers that are in the model.
Findings 5 to 15 say for each sentence what the code does instead.

* **BlockAllocator**: above.
* **Speculative**: what the target would say by itself is chosen at the start; after any other context it
  may say anything. Drafters are a model (any proposal) and the n-gram lookup. Greedy rounds are
  compared with plain decoding, with stop tokens and budgets inside an accepted run; for temperatures
  above zero, probabilities are whole masses of a common total and the rule is checked to return the
  target's distribution.
* **JsonGrammar**: the machine, its mask, and `run_constrained.py` decoding under it with a budget,
  against a reference syntax on the text itself.
* **Stream**: bytes cut anywhere into tokens and outputs, through the incremental detokenizer, to the
  events `api.py` sends: a text event per output that completes something, and two that close the stream;
  what a client has read of them against decoding the whole.
* **WindowedCache**: `keep`, `positions_for`, `blocks_to_keep`, under the loop of `run_window.py` that
  decodes one text under three policies with a rotary table that ends.
* **Adapters**: layers wrapped by `attach()`, any sequence of choosing, merging and detaching through
  the handles of the last `attach()`.
* **Results**: files that may be edited at any moment, benchmarks that stamp results with the hash of
  files, rendered fragments, and both gates. The sources of a result are hashed by `engine_sources`
  or taken from a list kept by hand.
* **PagedAttention**: writing into scattered blocks, gathering, and the walk with running maximum and
  sums, which are compared exactly with sums over all scores so far (exp is a power of two). The two
  walks, tile by tile and block by block, are the same recurrence.
* **Sampling**: the filters in the code's order on exact masses, against what may be drawn, said token by
  token.
* **Quantised**: the three schemes on whole weights, with the numerator of the scale kept; the bytes counted.
* **Signals**: the engine as a load generator sees it, the three loops, records, histograms, windows
  and summaries. Time is in ticks and passes while a step runs.
* **TensorParallel**: column and row shards and the all-reduce.
* **Traces**: every generator draws its requests; the loops sort them and make up text for those that
  have none; chat prompts through the template.
* **Arithmetic**: the parameters of a model and the bytes of an adapter against the modules that are built,
  and the passes of a decode against those that are run.

### Abstractions

* In the engines tokens are a small set and the sampler chooses any of them. Logits and tensors are
  left out; for the paged engines a forward pass is "KV of these tokens if what it attended to was
  their own past", in BatchPass it is the tokens and positions attended to.
* Real numbers are avoided, not rounded: masses, shares and scales are whole numbers over a common
  denominator, exp() is a power of two. What floats would add, rounding, is out of reach.
* Hash keys do not collide. In the code they are 64-bit Python hashes of token tuples.
* The KV of a block that returns to the pool is forgotten, which only removes states that differ in
  dead data: no table and no entry refers to such a block (`SharingExact`, below).
* Requests are submitted once and compare by identity.
* Counters and peaks kept for reports, and token payloads of outputs, are left out.
* Weights of tenants are whole numbers, utilisation is compared as a fraction: the code's floats
  are exact enough for the comparisons it makes.

## Runs

| Run | Question | Result |
|---|---|---|
| `paged` | admission, growth, preemption, readmission of three requests that do not fit together | passes |
| `paged_budget` | never more than `max_tokens` tokens, as `check_finished` says | violated |
| `caches` | sharing, publication and eviction under preemption; prefixes down to a tier and back | passes |
| `chunked` | prefill in pieces between decodes and preemptions | passes |
| `chunked_publish` | only full, written blocks are published | violated |
| `chunked_warm` | a warm cache never leaves an empty batch and a full queue | violated |
| `shedding` | aborts, refusals and a drain at any moment between steps | passes |
| `shedding_idle` | an idle engine takes a request | violated |
| `tenant` | a burst against a quiet tenant | passes |
| `fleet` | two replicas of five engines behind three policies under two load generators | passes |
| `parts` | fourteen parts by themselves | passes |
| `sentences` | one of eleven sentences about parts stands in every state | violated |

What they show, beyond types:

* **Memory.** `BlocksPartitioned` (paged); `TiersExact`, `ShedExact`, `ChunkedExact` (the
  engines on the prefix cache): a block is counted exactly as often as tables and cache hold it.
  `MemoryServes`: only requests in service hold memory, and exactly what their tokens need.
  `FreeListExact`, `ImplementsPool`: the code's list and dictionary keep that contract.
* **Promises.** `MemoryServes`, `PromisesFit`: what admission reserved is there when
  prefill asks for it, without evicting or preempting anybody. It follows that the demotion in the
  middle of `_promote()`, and the eviction in `_free_blocks_for()` when the prefix and offload engines
  prefill, are never taken.
* **Contents.** `CacheIsHonest`, `ReadsOwnContext`, `TiersExact`, `HonestUnlessTorn`; `OwnPast`: in a
  batch of any lengths, everything attended to and cached for a request is its own tokens at their own
  positions.
* **Order.** `ServesInLine`, `TenantsInOrder`, and `LagBounded`: whoever is charged while another tenant
  waits was not ahead of it before its latest charge, so a burst gains one batch and no more. One
  batch it does gain: charges are made after the admission loop has chosen, and every choice of that
  loop reads the same deficits.
* **Streams and answers.** `StreamEnds`, `ChunkedExact`, `ServesTokens`; `ShedExact`: exactly one
  terminal output for every request that ended or was refused, and none for others. A request aborted
  after it has finished and before it is retired gets two, which the property excepts; so does one
  preempted after it finished (see `paged_budget`). `DrainedCutsNobody`: when `drained` holds,
  everybody accepted has been answered or is owed a notice; a driver that stops on `drained` instead
  of `has_work()` does not deliver those, and the drain loop of `bench/run_reliability.py` is one.
* **Progress.** `NeverSpins`, `EverybodyLeaves`, `ChunkedProgress`, `EverybodyHears`,
  `EverybodyAnswered` (the fleet serves everybody and the closed loop comes to its end).
* **Budget.** `ChunkedProgress`: a chunked step earns no budget, and every prefill goes on and ends.
  The one way the budget of a step grows is a request whose first token ends it: the code reads what
  its chunk cost after the request was released, and gets less than nothing (finding 5 shows what
  follows). The batch has room for three and the step for two tokens; still decodes alone never take
  a step's budget from a prefill that has begun, since it was begun with budget that the decodes of
  that step left over, and completing another costs at least the token by which decodes grow.
* **Routing.** `RoutedOnLoad`. What a policy reads differs from the work that is left in exactly these
  ways (`LoadSeen`): a batching replica counts requests that ended and hold their place; a lone engine
  leaves out what its current request has yet to say; a disaggregated one leaves out its whole decode
  pool. What it decides (`RoutedByPolicy`): round-robin keeps counts within one; with no more
  replicas than `max_imbalance` the guard against a hot prefix cannot fire, because no load exceeds
  the sum of all.
* **Ledgers.** `LedgersAgree`: assignments, in-flight counts, slot steps with their waste, handoffs
  and queue places all follow from the same requests. `OverrunsOnlyStatic`: if every request fits the
  rotary table, only static batching can still leave it, by decoding members that have ended.
* **Each part.** `SpeculationIsInvisible`, `NeverADeadEnd`, `StreamedWhole`, `WindowHeld`,
  `RowsServedRight`, `FiguresAreCurrent`, `AttendsToContext`, `DrawsWhatWasAsked`, `SignalsHonest`,
  `TraceAsDescribed`, `RoundTripBounded`, `SplitIsInvisible`, `FootprintsExact`: as the comment at each
  says. Two of them except what `sentences` shows to go wrong: `RowsServedRight` adapters whose scale
  was set anew and layers that lack one (findings 11 and 12), `FiguresAreCurrent` edits during a benchmark
  and lists kept by hand (14 and 15).

### Findings

Findings 5 to 15 are of the run `sentences`, each with the sentence it is about.

1. `paged_budget`: `_preempt_newest()` may take a request that finished at its prefill in the same
   step. It is requeued, prefilled again and given another token beyond its stop or budget.
2. `chunked_publish`: a request preempted in the middle of its prefill publishes blocks below
   `stored` that were never written. Everything `HonestUnlessTorn` says holds until that happens.
3. `chunked_warm`: admission in chunks evicts nothing, so cached blocks can refuse it for ever.
4. `shedding_idle`: utilisation counts blocks that only the cache holds; an engine with nothing to do
   may refuse every request, and only an admission would evict anything.
5. `ChunksWithinBudget`: `_emit()` resets `stored` of a request that its first token ends, and the chunk is
   charged afterwards by the difference in `stored`: what the earlier chunks stored is paid back, and
   the next request gets a chunk larger than the budget of the whole step.
6. `InvalidIsUnreachable`: after a comma the grammar accepts `}`, so an output can be complete and not parse.
7. `SmallestNucleus`: a token is removed when the mass before it is *greater than* p, so at equality
   one token more than the smallest set is kept.
8. `NothingToReuse`: requests without tokens are all given the text 1, 2, 3, ... by the load generators;
   on the trace on which "prefix caching has nothing to reuse", any two share the whole of the shorter.
9. `PassesPredicted`: `naive_decode_flops` counts one pass more than the naive engine runs
   (`cached_decode_flops` too).
10. `ScalesCounted`: `QuantStats.quantised_bytes` has no term for the scales its comment counts.
11. `OneScalePerLayer`: `attach()` on wrapped layers sets the scale of adapters attached before.
12. `AnyAttachedServed`: an adapter without weights for a layer another one wrapped raises in that layer.
13. `DetachRestores`: what was merged stays in the weights when the wrapping is taken off.
14. `ProducedByCheckedIn`: sources are hashed when a benchmark ends, so an edit during it is stamped as if it had
    been measured.
15. `EveryBaseCounts`: `run_agents.py` keeps its own list of sources, without the file its engine's `step()`
    is inherited from.

### Differences without a run

Met while modelling; the model follows the code, and the properties say what is true of it.

* Growth in the inherited `_decode()` (`engines/paged.py:166`) preempts without asking the cache;
  `engines/prefix.py:47` promises "evicting cached prefixes before preempting anyone".
* In the agent trace the length of the history is drawn at random for each request, so a request need
  not extend the one before.
* `engine_sources` hashes what an engine inherits from and what it runs, not what it imports and calls,
  although `bench/harness.py:72` says "anything it composes".
* Loads, records and snapshots take the time at which a loop gets to a request for its arrival:
  omission is bounded by one step (`SignalsHonest`). `bench/run_observability.py:86` puts the
  latency of first tokens "on the same step axis" as windows of steps, and cuts them into equally many
  instead of into those that landed in each window. "completed" counts
  refusals.
* `quantize_model` takes `lm_head` too.
* A merge that meets a layer without the adapter raises half-way.
* `CompletionRequest.stop` reaches no engine. `min_p` is not validated. `top_k` keeps ties.
* Under a window the original positions run out at the same token as with the full context: eviction
  bounds memory, not positions.

### Bounds

Pools of three to five blocks of two tokens and three or four requests of one to five prompt tokens.
These are enough for the cases that matter: prompts that share one block and differ in the next,
prompts that end at and next to a block boundary, two requests admitted in one loop, a pool too small
for all, growth that fails for one sequence after others have grown, preemption of the requester
itself, resumption after output, eviction of blocks still in use, an end by stop token and one by
budget. Each was confirmed to be reachable. Every request fits the pool alone, which is what all
callers in the repository do; one that does not is queued and never served, in the code as in the
model. Symmetry of blocks is used in `caches`, and of blocks and two equal requests in `sentences`; neither
checks liveness (`NeverSpins` is about single steps).
In `paged` and `chunked` the batch has room for all three requests, so that memory and budget are what
limits them; in the other runs it has room for two and the limit of the batch binds. In `caches` there
are four requests over two prompts, one a prefix of another within a block and one beyond it, which between them
need more blocks than pool and tier have. In `chunked` the budget is two tokens, so prompts take up
to three chunks. In `shedding` the queue has one place; aborts and the drain may happen
between any two steps.

In `fleet` there are two replicas with batches of two, a prefill pool of one, and three requests whose
prompts have one to three tokens: a batch of unequal lengths, a slot that outlives its request, a
preferred replica under and over the imbalance allowed. The table of positions ends where the longest
request does. Two workers, so that a third request waits for one of them. Two is enough for what the
router decides, which compares one load with the mean of all. `max_imbalance` is held in hundredths; the
guard against a hot prefix fires in the instances with 1.5 and cannot with 2.

In `parts` each subject has bounds of its own in `MCParts.cfg`: `MaxHolders` references to a block;
drafts of two tokens and a budget of three; texts of eight bytes for the grammar, four fed tokens for
the stream; windows up to four and sinks up to three, so that texts are shorter, equal and longer than
both together; two rows and two projections for three tenants, two of one scale; four files and two
edits; two blocks of two slots read in tiles of three, so that tiles and blocks cut across each other;
three tokens to sample from, with ties; matrices of two rows in groups of two; four arrivals and a queue
of one, so that one is refused; three draws of each workload; small parameters for every closed form. One merge
may be folded in (`MaxFolds`); `AdaptersServeRight` is proved for any number. `CHECK_DEADLOCK FALSE` is set because an engine with nothing left to do stops, and so does a
part that is done.

### Fairness

Weak fairness of the step as a whole, and of nothing else: every driver is a loop
`while engine.has_work(): engine.step()` (`bench/harness.py`, `bench/closed_loop.py`), and within a
step the next iteration always follows. No fairness is assumed for callers: they need not submit,
abort or drain, and the choice of tokens is unconstrained. In `fleet` the loops are fair as a whole: they step while there is
work, and the closed loop submits whenever a worker is free; an open schedule may stop submitting.
`parts` checks no liveness.

## Proofs

Every theorem is of the specification that a run checks, for all values of the constants that its
assumptions allow: every finite set of blocks, every set of requests with their prompts, stop tokens
and budgets, every batch size, any number of replicas. Eight modules hold them.

### The paged engine

`PagedProofs`, of `Spec` of PagedEngine:

| Theorem | Statement |
|---|---|
| `TypeCorrect` | `Spec => []TypeOK`, which includes the bound on the batch |
| `FirstComeFirstServed` | `Spec => []ArrivalOrder` |
| `NobodyLost` | `Spec => []NoneLost` |
| `ImplementsLine` | `Spec => ServesInLine`, the refinement of ServiceLine |
| `BlocksConserved` | `Spec => []BlocksPartitioned` |
| `MemoryFollows` | `Spec => []MemoryServes`: who holds which memory, and `_prefill` never raises |
| `StreamsEnd` | `Spec => []StreamEnds` |

So every safety property of the run `paged` is proved for all values of the constants; of that run
only `EverybodyLeaves`, which needs fairness, is left to TLC.

**Order.** The inductive invariant is

    IInv == TypeOK /\ StepLocals /\ ArrivedOnce /\ LineArrived /\ ArrivalOrder /\ NoneLost

`ArrivalOrder` alone is not inductive: a request may be appended behind others only because it has
not arrived before (`ArrivedOnce`) and everybody in line has (`LineArrived`), and the list served by a
loop must be the batch or the admitted ones (`StepLocals`), or else a preemption could take somebody
the loop does not know. The argument: Lemma `LineMoves` shows that every step keeps the line and moves
the boundary by one, or takes one element out, or appends one; sequences that lose an element keep
their order (`OrderedRemove`), and those that gain a new arrival at the end do too
(`OrderedAppend`). The same lemma gives the refinement.

**Blocks.** They are conserved because
of two lemmas about one request's memory, `ExtendPartition` and `ReleasePartition`; every action
takes blocks by one and gives them back by the other. `SequenceFacts` has what is needed of sequences.

**Service.** `MemoryServes` and `StreamEnds` rest on

    ServiceInv == Locals /\ Outside /\ BatchServed /\ AdmittedServed /\ NeedsOwed /\ Fresh

which says where each request is in its service: *cold* (no blocks), *filled* (the KV of all its
tokens), *settled* (of all but the last, or ended and cold), *growing* or *grown* (a slot for the
next). Between steps everybody in the batch is settled; in the middle of a loop those before `at`
are one stage further than those from `at` on. `BatchServed` and `AdmittedServed` say so
for each `pc`. `NeedsOwed` is why prefill never runs out: there are numbers `owed[i]`, each what the `i`-th
admitted request needs plus `owed[i + 1]`, so `owed[at]` is what the rest of the loop may still
take, and it never exceeds the free blocks. Admission adds a request's need to all of them; prefill takes
no more than the need of the one it serves (`BlocksNeededGrows`) and moves on. Stating the sums as a
function that exists, and not as a fold, keeps induction out of the proof. `Fresh` is why streams
end once: a finished request is served again only if it was preempted in the step it finished in
(`outlived`; finding 1). That the lists of a step share nobody (`Apart`) follows from `ArrivalOrder` and
`ArrivedOnce`, and is what lets a step on one request leave the others where they are (`FrameOthers`).
There is one lemma per action. TLC has checked `ServiceInv` on the instance of the run `paged`.

### The prefix cache

`PrefixProofs`, of `PrefixSpec` of PrefixEngine:

| Theorem | Statement |
|---|---|
| `SharingExact` | `PrefixSpec => []PoolExact`: counts, tables, entries and the promises of admission |
| `HonestCache` | `PrefixSpec => []CacheIsHonest` |
| `OwnContext` | `PrefixSpec => []ReadsOwnContext` |

Together with those of the offloading engine below, these are all the invariants of the run `caches`.
The three are one induction, since none of
them holds by itself: a count is right only if no table names a block twice, a cached block stays what
it is filed under only if nobody writes a block that has two holders, and nobody does only because the
contents of tables are known. The invariant is `PInv`, of two halves.

`MemInv`, of the first half of the module, is about the memory and knows nothing of queue and batch:

* `CountsHold`: a count is the cardinality of the set of requests that have the block in their
  tables (`Holders`), plus one for the cache. It says nothing of places in tables, and need not,
  because of `TablesOnce` and `EntriesOnce`. An operation then adds or takes one member of that set
  per block, and sums over tables never come up.
* `Honest`, `FreeClear`, `TablesFiled`: what a block holds, by who has it. The block at each place of
  a table holds the context of its request up to there, as far as it is stored.
* `SharedFull`: a block with two holders is full. This is what makes writing safe. The slot for the
  next token is in a block that is not full, or in a fresh one; so it has one holder (`SlotAlone`), and
  writing it changes nobody else's context and no entry of the cache (`DecodeMemory`, in which the
  whole batch writes at once).

There is a lemma for each thing that happens to the memory (`ShareMemory`, `FillMemory`, `GrowMemory`,
`DecodeMemory`, `ReleaseMemory`, `EvictMemory`, `PlaceMemory`); an engine that does the same to the
memory under other circumstances cites it again.

`Roles`, `InStep`, `InBatch`, `Slotted`, `BeingAdmitted` and `Promise`, of the second half, say where each
request is in its service (`Cold`, `Settled`, `Decoded`), as `ServiceInv` does for the paged engine. `Roles`
(nobody is in two lists) takes the place of the order of arrival: the engines built on this one admit
in another order or remove from the middle, and only that nobody is listed twice matters.
`Promise` is where sharing makes a difference. While admission goes on, `due[i]` is what the `i`-th
admitted request needs plus `due[i + 1]`, as before. From prefill on it may be less, by as many
blocks as the request's own prompt has in the cache from its beginning on (`Covered`): these it will share
(`NeedAndShare`). It may be less but is not, in this engine. In OffloadEngine it is, since promotion
spends what was promised on copies of those blocks.

### The engines built on it

| Theorem | Statement |
|---|---|
| `AnswersAsDue` | `ShedSpec => []ShedExact` |
| `DrainIsClean` | `ShedSpec => []DrainedCutsNobody` |
| `AbortSpoilsNobody` | the cache stays honest and contexts one's own, whoever aborts and is refused |
| `TenantsServedInOrder` | `TenantSpec => []TenantsInOrder` |
| `NobodyRunsAhead` | `TenantSpec => []LagBounded` |
| `FairnessSpoilsNothing` | the pool stays exact, the cache honest and contexts one's own, whoever's turn it is |
| `TwoTiersExact` | `OffloadSpec => []TiersExact` |
| `PromotionIsPaidFor` | `OffloadSpec => []PromisesFit` |
| `TiersSpoilNobody` | `OffloadSpec => []ReadsOwnContext` |

These are all the safety properties of the runs `shedding` and `tenant`, and what `caches` checks of the
second tier. Each invariant
contains `PInv`, and the lemmas of `PrefixProofs` on single steps take care of that part. What a
step does to who is where is one lemma as well (`WorkMoves`: everybody stays, one leaves, the newest goes
back, or the admitted join).

**Shedding** (`SheddingProofs`; the actions of CancellableEngine are part of its `Next`). `SInv` adds what is known of everybody: whoever has
finished has arrived, and whoever is refused has not (`Known`); whoever has arrived and not finished is
in some list (`Kept`); a request with its end behind it that prefill has still to serve is one that
`outlived` names (`SecondTime`); and an output is of the step under way, answered only if its request
finished or was refused, and no more than once unless `outlived` or a late abort explains it (`Told`).
`DrainedCutsNobody` follows from `Kept`, with empty lists, and `Told`.

**Tenants** (`TenantProofs`). Order within a tenant is order under the relation "another tenant, or arrived before", so
it is a sorted list again (`Sorted`, `AllAhead` of `SequenceFacts`), although the line as a whole is not.
That what `_next_waiting()` chooses is there at all, a `CHOOSE` over deficits, is an induction
over the finite set of heads of queues. `LagBounded` needs `ChosenBehind`: while a step admits, no tenant
that waits is further behind than the tenant of a request already admitted. The charge of a batch is a sum by a fold
of the library, and is related to the charge of each by building the fold's function size by size.

**Offloading** (`OffloadProofs`). `OInv` adds `TierKept` (each key once, with a copy of its own prefix, within the
capacity) and `Underway` (what promotion has passed of a prompt is in the pool; a copy on
its way is of a key that the pool lacks). A block that promotion takes is paid for by the request it
is taken for: the copy makes the cached beginning of its prompt longer by one, because keys are fetched in order
and the pool lacked this one (`PaidCovers`). Everybody still to be prefilled is owed at least one block
(`StillDue`), since a request needs a block more than it fills; hence there is one (`RoomForCopy`), and the branch of
`_promote()` that demotes is never taken.

### The allocator

| Theorem | Statement |
|---|---|
| `AllocatorExact` | `Spec => []FreeListExact`, of BlockAllocator |
| `AllocatorIsPool` | `Spec => ImplementsPool`: BlockAllocator implements BlockPool |

The engines are built on BlockPool and proved on it, so this is what ties those proofs to the list
and the dictionary of `cache/blocks.py`. The invariant is `FreeListExact` with types. `free()` is a
fold of the library over a list; `DropSteps` unrolls it into the states after each block, as a function of the
position, and `FreeDoes` is an induction over that: each block of the list loses one reference, and
those that had no more are appended to the free list, each once.

### The fleet

`FleetProofs`, of `FairSpec` of Fleet:

| Theorem | Statement |
|---|---|
| `FleetServes` | `FairSpec => ServesTokens`: it implements TokenService |
| `FleetOwnPast` | `FairSpec => []OwnPast` |
| `FleetRoutedOnLoad` | `FairSpec => []RoutedOnLoad` |
| `FleetLoadSeen`, `FleetRouted` | its two halves, `LoadSeen` and `RoutedByPolicy` |
| `FleetLedgers` | `FairSpec => []LedgersAgree` |
| `FleetOverruns` | `FairSpec => []OverrunsOnlyStatic` |

These are all the safety properties of the run `fleet`, and the refinement, for any number of
replicas of each of the five engines, each policy, each placement of the prefixes, and both drivers.

*A pass.* The module begins with what a rectangle leaves out: a row of a prefill padded on the left
caches, and its last column attends to, exactly what the sequence would by itself (`PrefillIsOwn`), and so does
a row of a decode padded on the right (`DecodeIsOwn`). The padding cancels: the columns a mask hides are as
many as the positions are shifted by. *A list.* What is retired, admitted in a batch and handed over is some of a
list in its order (`FirstAndRest`, `PickedOnce`), and nobody stands in it twice. *The invariant* is

    FleetInv == Arranged /\ (\A r : Served(r)) /\ Spread /\ Affine /\ Assigned /\ InFlight
                /\ Slots /\ Handoffs /\ OverrunsOnlyStatic

`Arranged` says that a request is in one list of one replica from its submission until it is over, `Served`
what it has heard and what is cached for it. The rest is one conjunct per counter, each with what it
counts: `Assigned` and `InFlight` are cardinalities, `Slots` a sum over requests, `Spread` the number of times
round-robin has gone round. What a step does is one lemma (`StepDoes`, from a lemma per class of engine):
some requests in service hear one token each, and nobody else anything. Each conjunct is preserved
because of that and not because of the engine, and the refinement is the same lemma again.
`LoadSeen` needs no invariant of its own: what a policy reads and what is left are two sums over the same
lists, compared member by member.

### The parts

`PartsProofs`, each theorem of the part's own `Init /\ [][Next]_vars`:

| Theorem | Statement |
|---|---|
| `SpeculationUnseen` | `[]SpeculationIsInvisible`, of Speculative |
| `WindowHolds` | `[]WindowHeld`, of WindowedCache |
| `AdaptersServeRight` | `[]RowsServedRight`, of Adapters |
| `StampsReachAll` | `[]StampsReach`, of Results |

*Speculation.* Greedy: what is said agrees with plain decoding position by position and never goes beyond where
that ends (`SpeculativeInv`), since a round keeps the agreed part of a draft and one token of the target, cut at
the first stop token and the budget. Sampled: for any two distributions of equal mass, what is accepted plus the
residual share is the target's mass, token by token (`MassesAddUp`). *Window.* `kept_slots = Keep(position)` is the invariant that
matters: the code evicts by one at a time and from the list it kept, the policy is stated on the whole
text. *Adapters.* As long as scales are not mixed (what `mixed` records, and the property excepts), all handles
hold the same adapters and choose the same of them for a row, and a delta is folded into all the
weights it targets equally often. *Results.* `engine_sources` follows classes to their bases and to the
engines they compose. `StampsReach` says that this is enough: whatever can be reached from an engine by a
chain of such steps, of any length, through circles too, is hashed into every stamp of a result of that engine.
The work list grows by rounds (`SourcesGrow`); a round that adds nothing is the last that changes anything, and
there are not engines for more rounds that do (`SourcesSettle`, a count of a growing finite set); and a
chain is followed one link per round (`ReachedIsHashed`). Results whose list is kept by hand are not
covered; finding 15 shows why. What the gates make of a stamp is left to `FiguresAreCurrent`, which TLC
checks.

### Assumptions and method

`PoolAssumption` (blocks are finite in number and there is one; block size positive),
`EngineAssumption` (types of the workload; prompts not empty, budgets and batch size positive),
`GarbageAssumption` (what is computed from a wrong past is no context), `SheddingAssumption` (a depth and
a fraction), `TenantAssumption` (every request has a tenant, every tenant a positive whole weight) and
`TierAssumption` (a tier has room for a block). `AllocatorAssumption` is as `PoolAssumption`. Of the fleet,
`ReplicaAssumption` (finitely many replicas, numbered; a request fits the table of positions: the drivers
check no such thing, the traces of the repository keep to it), `RouterAssumption` and `TraceAssumption`
(a trace names every request once). Of the parts, `SpeculativeAssumption`, `WindowAssumption`,
`AdapterAssumption` (an adapter has a target) and `ResultsAssumption`, which say of what type and how many
things are. TLC evaluates all in the runs of the modules that declare them.

Every inductive invariant was first checked by TLC on the instance of its run, with the functions
it says exist ranging over small numbers. `SequenceFacts` has the lemmas about lists,
positions and numbers that the proofs share. Induction over numbers and finite sets is available in
first-order form (`LeastNumber`, `Induction`, `FiniteInduction`: the set of those for which a statement
holds has them all), and is enough for what these proofs need of the operators.

### Left to TLC

* Liveness and the progress properties of every run (`EverybodyLeaves`, `NeverSpins`, `EverybodyHears`,
  `ChunkedProgress`, `EverybodyAnswered`), since TLAPS does not reason under fairness.
* ChunkedEngine: its `stored` runs ahead of what has been written, so that `TablesFiled` does not hold
  of it, and the lemmas on `MemInv` cannot be cited for it.
* JsonGrammar, Stream, PagedAttention, Sampling, Signals, Traces, Quantised, TensorParallel and
  Arithmetic: recursive computations over data, compared with a reference over bounded inputs. What they
  compute for every input is an induction over data.

## Not modelled, and the plan

Left out, and why:

* The numbers of `model.py`, `latent.py` and `attention.py` (projections, normalisation, rotation,
  rounding): correctness there is about real numbers. What a pass attends to, at which position, and
  in which order tiles are folded is modelled.
* Randomness as such. A sample is a free choice among what may be drawn; the masses are exact
  fractions, floating-point rounding is not.
* Closed forms that multiply inputs (`cost.py`, the sizes and rates in `arithmetic.py`, `config.py` and
  `cache/offload.py`): nothing runs that they could be compared with.
* The wording of the API's events and requests, hardware and version stamps, the layout of tables and scorecards
  (`scorecard.py` beyond the sources it lists), the hit-rate counters of the cache, `check_prose`.
* `build-pdf.py`, `verify-setup.py`, training and the checkpoints: they touch nothing of the system.
* A request that needs more blocks than the pool has waits for ever and blocks those behind it. The
  code neither refuses it nor promises to; the instances give every request room by itself.

Worth doing next, in this order:

1. ChunkedEngine: `ChunkedExact`, with the half of `MemInv` that is about counts, and `HonestUnlessTorn`.
2. `NeverADeadEnd` and `StreamedWhole`, whose machines read a text a character at a time and so have
   invariants about what was read.
3. A step-by-step forward pass in ContiguousEngines, if `step()` there ever hands control away.
