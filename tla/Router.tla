--------------------------------- MODULE Router ---------------------------------
(***************************************************************************)
(* Router of router.py with its three policies, over a fleet of replicas.  *)
(* hash() is Python's: an unknown but fixed map from prefixes to replicas. *)
(***************************************************************************)
EXTENDS ContiguousEngines

CONSTANTS
    Policies,       \* which of "round-robin", "least-tokens", "prefix-affinity"
    PrefixLength,   \* prefix_length
    MaxImbalances   \* values of max_imbalance, in hundredths

ASSUME RouterAssumption ==
    /\ Policies \subseteq {"round-robin", "least-tokens", "prefix-affinity"}
    /\ PrefixLength \in Nat /\ MaxImbalances \subseteq Nat

VARIABLES
    policy,
    next,           \* RoundRobin._next
    home,           \* hash(prefix) % n_replicas, for each prefix
    max_imbalance,
    assignments,    \* requests sent to each replica
    placed          \* history: the replica each request was sent to, 0 for none

routerVars == <<policy, next, home, max_imbalance, assignments, placed>>

--------------------------------------------------------------------------------

Prefix(r) == First(Prompt[r], PrefixLength)

RouterInit ==
    /\ ReplicaInit
    /\ policy \in Policies /\ next = 0
    /\ IF policy = "prefix-affinity"
       THEN /\ home \in [{Prefix(r) : r \in Requests} -> Replicas]
            /\ max_imbalance \in MaxImbalances
       ELSE home = <<>> /\ max_imbalance = 0
    /\ assignments = [i \in Replicas |-> 0]
    /\ placed = [r \in Requests |-> 0]

\* A variant that counts what a request cost when it came.
CostOnArrival(r) == Len(Prompt[r]) + MaxTokens[r]

\* prompt_len + max(remaining, 0).
Cost(r) == Len(Prompt[r]) + Max({MaxTokens[r] - Len(output[r]), 0})

CostOf(S) == SumFunction([r \in S |-> Cost(r)])

\* _outstanding_tokens: an engine has no attribute `running` if it calls the
\* list decoding, and the one request of a single engine is `current`.
Load(i) ==
    CostOf(Range(waiting[i])) +
        CASE Single -> SumFunction([r \in Range(running[i]) |-> Len(Prompt[r])])
          [] kind = "disaggregated" -> 0
          [] OTHER -> CostOf(Range(running[i]))

\* min(range(n), key=...): the first of the least loaded.
LeastLoaded == CHOOSE i \in Replicas : \A j \in Replicas :
                   Load(i) < Load(j) \/ (Load(i) = Load(j) /\ i <= j)

\* loads[preferred] > max_imbalance * mean, and mean > 0.
TooHot(i) == LET total == SumFunction([j \in Replicas |-> Load(j)])
             IN total > 0 /\ Load(i) * 100 * Cardinality(Replicas) > max_imbalance * total

\* RoutingPolicy.select.
Select(r) ==
    CASE policy = "round-robin" -> 1 + (next % Cardinality(Replicas))
      [] policy = "least-tokens" -> LeastLoaded
      [] policy = "prefix-affinity" ->
             IF TooHot(home[Prefix(r)]) THEN LeastLoaded ELSE home[Prefix(r)]

AddRequest(r) ==
    \E index \in {Select(r)} :
       /\ next' = IF policy = "round-robin" THEN next + 1 ELSE next
       /\ assignments' = [assignments EXCEPT ![index] = @ + 1]
       /\ placed' = [placed EXCEPT ![r] = index]
       /\ waiting' = [waiting EXCEPT ![index] = Append(@, r)]
       /\ UNCHANGED <<kind, running, requestVars, counters, policy, home, max_imbalance>>

has_work == \E i \in Replicas : HasWork(i)

\* Router.step: every replica that has work, in turn.
Step == StepAll /\ UNCHANGED routerVars

--------------------------------------------------------------------------------

Live(i) == {r \in Requests : placed[r] = i /\ ~finished[r]}

\* What the router takes for a replica's load, against the work that is really
\* left there.  Batching replicas are never underestimated, and overestimated
\* only by requests that ended and still hold their place; a single engine is
\* underestimated by what its current request has yet to say, a disaggregated
\* one by its whole decode pool.
LoadSeen == \A i \in Replicas :
    CASE Single -> Load(i) = CostOf(Live(i)) -
                       SumFunction([r \in Range(running[i]) |-> MaxTokens[r] - Len(output[r])])
      [] kind = "disaggregated" -> Load(i) = CostOf(Live(i) \ Range(running[i]))
      [] OTHER -> Load(i) = CostOf(Live(i))
                     + CostOf({r \in Range(running[i]) : finished[r]})

\* Round-robin spreads the counts to within one.  Affinity keeps a prefix on
\* one replica, and with no more replicas than max_imbalance it does so however
\* hot the prefix is: the guard against a hot prefix cannot fire.
RoutedByPolicy ==
    /\ policy = "round-robin" =>
           \A i, j \in Replicas : assignments[i] - assignments[j] \in -1 .. 1
    /\ policy = "prefix-affinity" /\ 100 * Cardinality(Replicas) <= max_imbalance =>
           \A r \in Requests : placed[r] \in {0, home[Prefix(r)]}

\* A policy sees the work that is left, up to what LoadSeen names, and spreads
\* or keeps together what it promises to.
RoutedOnLoad == LoadSeen /\ RoutedByPolicy

================================================================================
