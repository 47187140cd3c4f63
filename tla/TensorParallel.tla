----------------------------- MODULE TensorParallel -----------------------------
(***************************************************************************)
(* TensorParallelPair of parallel.py: two chained projections, the first   *)
(* cut along its outputs and the second along its inputs, with the sum of  *)
(* the shards' partial results for the all-reduce.                         *)
(***************************************************************************)
EXTENDS Integers, Sequences, SequencesExt, FiniteSetsExt

CONSTANTS
    DModel, DHidden,    \* the first weight is DHidden x DModel, the second its transpose
    ShardCounts, Entry  \* values of n_shards, and of every number

ASSUME ParallelAssumption ==
    /\ DModel \in Nat \ {0} /\ DHidden \in Nat \ {0}
    /\ \A n \in ShardCounts : n \in Nat \ {0} /\ DHidden % n = 0    \* or ValueError

VARIABLES
    first_weight, second_weight, input, n_shards,
    shard,              \* how many shards have run
    partials,
    output, collectives

parallelVars == <<first_weight, second_weight, input, n_shards,
                  shard, partials, output, collectives>>

--------------------------------------------------------------------------------

Dot(weights, x) == MapThenSumSet(LAMBDA i : weights[i] * x[i], DOMAIN x)

Activated(x) == [o \in DOMAIN x |-> Max({x[o], 0})]     \* any elementwise activation

ParallelInit ==
    /\ first_weight \in [1 .. DHidden -> [1 .. DModel -> Entry]]
    /\ second_weight \in [1 .. DModel -> [1 .. DHidden -> Entry]]
    /\ input \in [1 .. DModel -> Entry] /\ n_shards \in ShardCounts
    /\ shard = 0 /\ partials = <<>> /\ output = <<>> /\ collectives = 0

ShardSize == DHidden \div n_shards

\* shard_columns: chunk s of the first weight's outputs, and shard_rows: chunk s
\* of the second weight's inputs; a variant deals those out one by one.
ShardColumns(weights, s) == [j \in 1 .. ShardSize |-> weights[(s - 1) * ShardSize + j]]
ShardRowsDealt(weights, s) == [j \in 1 .. ShardSize |-> weights[(j - 1) * n_shards + s]]
ShardRows(weights, s) == [j \in 1 .. ShardSize |-> weights[(s - 1) * ShardSize + j]]

\* One iteration of forward(): no shard sees another's.
RunShard ==
    /\ shard < n_shards
    /\ LET first == ShardColumns(first_weight, shard + 1)
           hidden == Activated([j \in 1 .. ShardSize |-> Dot(first[j], input)])
       IN partials' = Append(partials,
              [o \in 1 .. DModel |-> Dot(ShardRows(second_weight[o], shard + 1), hidden)])
    /\ shard' = shard + 1
    /\ UNCHANGED <<first_weight, second_weight, input, n_shards, output, collectives>>

\* The all-reduce.
AllReduce ==
    /\ shard = n_shards /\ output = <<>>
    /\ output' = [o \in 1 .. DModel |-> FoldLeft(LAMBDA sum, p : sum + p[o], 0, partials)]
    /\ collectives' = collectives + 1
    /\ UNCHANGED <<first_weight, second_weight, input, n_shards, shard, partials>>

ParallelNext == RunShard \/ AllReduce

--------------------------------------------------------------------------------

\* However many shards the pair is cut into, with one collective they say what
\* the uncut pair says, and the activation between them needs none.
SplitIsInvisible ==
    output # <<>> =>
        /\ LET hidden == Activated([h \in 1 .. DHidden |-> Dot(first_weight[h], input)])
           IN output = [o \in 1 .. DModel |-> Dot(second_weight[o], hidden)]
        /\ collectives = 1

================================================================================
