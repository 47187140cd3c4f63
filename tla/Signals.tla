--------------------------------- MODULE Signals ---------------------------------
(***************************************************************************)
(* What the load generators measure of an engine, and what metrics.py      *)
(* makes of it.  Two loops are open and submit what is due when they get   *)
(* to it, run_benchmark of bench/harness.py and the one of                 *)
(* bench/run_observability.py; they are the same loop, noting different    *)
(* things, and here it notes both.  run_closed_loop of                     *)
(* bench/closed_loop.py submits when a request ends.  The engine is what   *)
(* they see of one: a queue, a batch, and refusals when the queue is deep, *)
(* as SheddingEngine makes them.  Time is in ticks, and passes while a     *)
(* step runs.                                                              *)
(***************************************************************************)
EXTENDS Integers, Sequences, SequencesExt, FiniteSetsExt

CONSTANTS
    Arrivals,           \* trace: when each request is due, in order
    TenantOf,           \* and whose it is, or None
    None,
    BatchCap, TokenCap, \* bounds of the engine: its batch, and a request's tokens
    QueueDepth,         \* max_queue_depth
    Workers,            \* n_workers of the closed loop
    Durations,          \* of a step
    SloTtft, SloItl,    \* SLO
    LatencyEdges, BatchEdges,   \* LATENCY_BUCKETS, and those of batch_size
    WindowSteps         \* window

ASSUME SignalsAssumption ==
    /\ BatchCap \in Nat \ {0} /\ WindowSteps \in Nat \ {0} /\ Durations \subseteq Nat \ {0}
    /\ QueueDepth \in Nat \ {0} /\ Workers \in Nat \ {0}
    /\ \A i \in 2 .. Len(Arrivals) : Arrivals[i - 1] <= Arrivals[i]

VARIABLES
    generator,          \* "open" or "closed"
    clock, index,       \* index: how many requests were submitted
    queue, batch,       \* engine.waiting, and engine.running with who ended last step
    ended, rejected,    \* rejected: who was refused
    arrival, first_token, finish, n_output,     \* records
    ttft, batch_size,   \* Histogram.counts; the last is the overflow
    snapshots

records == <<arrival, first_token, finish, n_output>>
signalsVars == <<generator, clock, index, queue, batch, ended, rejected, records,
                 ttft, batch_size, snapshots>>

--------------------------------------------------------------------------------

Numbers == 1 .. Len(Arrivals)
Unseen == -1            \* None
Overflow == 1000000     \* float("inf")

Summed(s) == FoldLeft(+, 0, s)
Peak(S) == Max(S \cup {0})

\* A variant that takes an edge for the start of the next bucket.
BucketAfter(edges, value) ==
    Min({i \in 1 .. Len(edges) : value < edges[i]} \cup {Len(edges) + 1})

\* The bucket that observe() counts a value in.
Bucket(edges, value) ==
    Min({i \in 1 .. Len(edges) : value <= edges[i]} \cup {Len(edges) + 1})

Observed(counts, edges, value) == [counts EXCEPT ![Bucket(edges, value)] = @ + 1]

\* Histogram.percentile
Percentile(counts, edges, q) ==
    IF Summed(counts) = 0 THEN Unseen
    ELSE LET i == Min({k \in 1 .. Len(counts) :
                          100 * Summed(SubSeq(counts, 1, k)) >= q * Summed(counts)})
         IN IF i <= Len(edges) THEN edges[i] ELSE Overflow

\* add_request of each in turn, when the queue is q: who of them is accepted.
LetIn(q, new) == SubSeq(new, 1, Min({Len(new), Max({QueueDepth - Len(q), 0})}))

\* The next n of the trace.
Upcoming(n) == [i \in 1 .. n |-> index + i]

SignalsInit ==
    /\ generator \in {"open", "closed"}
    /\ clock = 0 /\ batch = {} /\ ended = {}
    /\ first_token = [r \in Numbers |-> Unseen] /\ finish = [r \in Numbers |-> Unseen]
    /\ n_output = [r \in Numbers |-> 0]
    \* The closed loop starts with a request for each worker.
    /\ index = IF generator = "open" THEN 0 ELSE Min({Workers, Len(Arrivals)})
    /\ queue = SubSeq([i \in 1 .. index |-> i], 1, Min({index, QueueDepth}))
    /\ rejected = 1 .. index \ Range(queue)
    /\ arrival = [r \in Numbers |-> IF r <= index THEN 0 ELSE Unseen]
    /\ ttft = [i \in 1 .. Len(LatencyEdges) + 1 |-> 0]
    /\ batch_size = [i \in 1 .. Len(BatchEdges) + 1 |-> 0]
    /\ snapshots = <<>>

\* The inner while of the open loop: whatever is due by now.
Due == IF generator = "closed" THEN <<>>
       ELSE Upcoming(Cardinality({r \in Numbers : r > index /\ Arrivals[r] <= clock}))

Queued == queue \o LetIn(queue, Due)
Refused == rejected \cup (Range(Due) \ Range(Queued))
Notices == {r \in Refused : finish[r] = Unseen}
Alive == batch \ ended
Busy == Queued # <<>> \/ Alive # {} \/ Notices # {}

\* The engine has nothing to do, and the open loop sleeps.
Sleep == /\ index < Len(Arrivals) /\ ~Busy
         /\ clock' = clock + 1
         /\ UNCHANGED <<generator, index, queue, batch, ended, rejected, records,
                        ttft, batch_size, snapshots>>

\* What the records say after a step, begun at clock and over at stamp, that
\* returned a token for each of running and ended those of over.
Recorded(running, over, stamp, came) ==
    /\ arrival' = came
    /\ first_token' = [r \in Numbers |->
           IF r \in running /\ first_token[r] = Unseen THEN stamp ELSE first_token[r]]
    /\ n_output' = [r \in Numbers |-> n_output[r] + IF r \in running THEN 1 ELSE 0]
    /\ finish' = [r \in Numbers |-> IF r \in over THEN stamp ELSE finish[r]]

\* EngineSnapshot, of a step that leaves waiting in the queue and returns a token
\* for each of running; the blocks are not in this module.
Snapshot(waiting, running) ==
    [step |-> Len(snapshots) + 1, queue_depth |-> Len(waiting),
     running |-> Cardinality(running), tokens_out |-> Cardinality(running)]

\* observe_request for each first token, and observe_step.
Observe(running, stamp) ==
    /\ ttft' = FoldSet(LAMBDA r, counts : Observed(counts, LatencyEdges, stamp - arrival'[r]),
                       ttft, {r \in running : first_token[r] = Unseen})
    /\ batch_size' = Observed(batch_size, BatchEdges, Cardinality(running))
    /\ snapshots' = Append(snapshots, Snapshot(queue', running))

\* One iteration with work: who is admitted and who ends is up to the engine.
Step(n, over, duration) ==
    LET running == Alive \cup {Queued[i] : i \in 1 .. n}
        stamp == clock + duration
        rest == SubSeq(Queued, n + 1, Len(Queued))
        told == over \cup Notices
        \* if out.finished and pending: submit()
        next == IF generator = "open" THEN <<>>
                ELSE Upcoming(Min({Cardinality(told), Len(Arrivals) - index}))
    IN /\ Busy /\ n <= Len(Queued) /\ Cardinality(running) <= BatchCap
       /\ running = {} => Queued = <<>>
       /\ over \subseteq running
       /\ \A r \in running : n_output[r] + 1 >= TokenCap => r \in over
       /\ clock' = stamp /\ index' = index + Len(Due) + Len(next)
       /\ queue' = rest \o LetIn(rest, next)
       /\ rejected' = Refused \cup (Range(next) \ Range(queue'))
       /\ batch' = running /\ ended' = ended \cup over
       /\ Recorded(running, told, stamp,
              [r \in Numbers |-> IF r \in Range(Due) THEN clock
                                 ELSE IF r \in Range(next) THEN stamp ELSE arrival[r]])
       /\ IF generator = "open" THEN Observe(running, stamp)
          ELSE UNCHANGED <<ttft, batch_size, snapshots>>
       /\ UNCHANGED generator

SignalsNext == \/ Sleep
               \/ \E n \in 0 .. Len(Arrivals), over \in SUBSET Numbers, duration \in Durations :
                      Step(n, over, duration)

--------------------------------------------------------------------------------

\* leading_indicator_windows, as the chunks it makes and a row of each.
Chunks == [w \in 1 .. (Len(snapshots) + WindowSteps - 1) \div WindowSteps |->
              SubSeq(snapshots, (w - 1) * WindowSteps + 1, Min({w * WindowSteps, Len(snapshots)}))]

Column(chunk, field(_)) == [i \in 1 .. Len(chunk) |-> field(chunk[i])]

Windows == [w \in DOMAIN Chunks |->
    [step |-> Chunks[w][1].step,
     peak_queue_depth |-> Peak(Range(Column(Chunks[w], LAMBDA s : s.queue_depth))),
     tokens_out |-> Summed(Column(Chunks[w], LAMBDA s : s.tokens_out))]]

--------------------------------------------------------------------------------

(* BenchResult.summary(), and _tenant_summary() of a part of the records. *)

Completed(mine) == {r \in mine : finish[r] # Unseen}

Ttft(r) == first_token[r] - arrival[r]

\* The mean time between tokens, of two or more, is within the objective.
MetItl(r) == n_output[r] < 2 \/ finish[r] - first_token[r] <= SloItl * (n_output[r] - 1)

MetSlo(mine) == {r \in Completed(mine) : /\ first_token[r] # Unseen /\ Ttft(r) <= SloTtft
                                         /\ MetItl(r)}

Summary(mine) == [requests |-> Cardinality(mine), completed |-> Cardinality(Completed(mine)),
                  output_tokens |-> MapThenSumSet(LAMBDA r : n_output[r], Completed(mine)),
                  met_slo |-> Cardinality(MetSlo(mine))]

Submitted == {r \in Numbers : arrival[r] # Unseen}

ByTenant == [t \in {TenantOf[r] : r \in Submitted} \ {None} |->
                Summary({r \in Submitted : TenantOf[r] = t})]

\* The loop is over.
Finished == index = Len(Arrivals) /\ ~Busy

--------------------------------------------------------------------------------

\* The k-th smallest of values that some things have, none of them twice.
Ranked(Things, value(_), k) ==
    Min({value(r) : r \in {r \in Things :
            Cardinality({u \in Things : value(u) <= value(r)}) >= k}})

\* The least edge that is no smaller than the nearest-rank percentile.
EdgeOf(Things, value(_), edges, q) ==
    IF Things = {} THEN Unseen
    ELSE LET v == Ranked(Things, value, (q * Cardinality(Things) + 99) \div 100)
         IN Min({e \in Range(edges) : v <= e} \cup {Overflow})

\* A percentile read from bucket counts is the edge above the value of that
\* rank, of the requests that got a token or of the steps; and the rows of
\* windows, cut anywhere, have every token that was sent, and the peak of the
\* queue, once.
SignalsMatch ==
    /\ \A q \in {50, 95} :
           /\ Percentile(ttft, LatencyEdges, q) =
                  EdgeOf({r \in Numbers : n_output[r] > 0}, Ttft, LatencyEdges, q)
           /\ Percentile(batch_size, BatchEdges, q) =
                  EdgeOf(DOMAIN snapshots, LAMBDA i : snapshots[i].running, BatchEdges, q)
    /\ Summed([w \in DOMAIN Windows |-> Windows[w].tokens_out])
           = MapThenSumSet(LAMBDA r : n_output[r], Numbers)
    /\ Peak({Windows[w].peak_queue_depth : w \in DOMAIN Windows})
           = Peak({snapshots[i].queue_depth : i \in DOMAIN snapshots})
    /\ \A w \in DOMAIN Windows : Windows[w].step = (w - 1) * WindowSteps + 1

\* What a latency leaves out.  An open loop counts from when it got to a
\* request, which is after it was due by less than the longest step.  In a
\* closed one there are never more requests than workers, however slow the
\* engine: what it would have kept waiting is not there.
WaitLeftOut ==
    IF generator = "open"
    THEN \A r \in Submitted : arrival[r] - Arrivals[r] \in 0 .. Max(Durations) - 1
    ELSE Cardinality({r \in Submitted : finish[r] = Unseen}) <= Workers

\* When the loop ends, "completed" are all: those who were served to the end
\* and, without a token, those who were refused, who are the difference that
\* run_reliability.py takes.  None of those counts as good.
SummaryAddsUp ==
    Finished =>
        LET all == Summary(Submitted)
            served == {r \in Numbers : n_output[r] > 0}
        IN /\ all.requests = Len(Arrivals) /\ all.completed = all.requests
           /\ served \cap rejected = {} /\ all.completed - Cardinality(rejected) = Cardinality(served)
           /\ all.output_tokens = MapThenSumSet(LAMBDA r : n_output[r], Numbers)
           /\ \A r \in served : n_output[r] = TokenCap \/ r \in ended
           /\ MetSlo(Submitted) \subseteq served

\* A fleet-wide figure is the sum of its tenants' and of those who have none.
TenantsAddUp ==
    \A figure \in {"requests", "completed", "output_tokens", "met_slo"} :
        Summary(Submitted)[figure] =
            MapThenSumSet(LAMBDA t : ByTenant[t][figure], DOMAIN ByTenant)
                + Summary({r \in Submitted : TenantOf[r] = None})[figure]

\* The figures are those of what happened, and say what they are taken for.
SignalsHonest ==
    /\ generator = "open" => SignalsMatch
    /\ WaitLeftOut
    /\ SummaryAddsUp
    /\ TenantsAddUp

================================================================================
