-------------------------------- MODULE Adapters --------------------------------
(***************************************************************************)
(* The low-rank adapters of lora.py: several tenants' deltas on one model. *)
(* attach() wraps projections and returns the layers; what the caller does *)
(* next goes through the layers of its last attach().  A delta is known by *)
(* its tenant and the factor it is scaled by.                              *)
(***************************************************************************)
EXTENDS Integers, Sequences, SequencesExt, FiniteSetsExt

CONSTANTS
    Tenants,
    NModules,       \* the projections, 1 .. NModules in the order of the model
    Targets,        \* which of them each tenant's adapter has weights for
    Scale,          \* alpha / rank of each adapter
    NRows,          \* rows of a batch
    MaxFolds        \* bound on the merges into one projection

Modules == 1 .. NModules
Base == "base"      \* None where an adapter's name is expected

ASSUME AdapterAssumption == /\ Targets \in [Tenants -> (SUBSET Modules) \ {{}}]
                            /\ Base \notin Tenants

VARIABLES
    wrapped,        \* the projections that are a LoRALinear in the model
    layer,          \* the latest LoRALinear of each projection
    handle,         \* what the last attach() returned
    folded,         \* the deltas merged into each base weight, in order
    wanted,         \* history: the adapter the caller asked for, per row
    offered,        \* history: the adapters of the list last attached
    mixed           \* history: an attach() mixed scales or targets, or a
                    \* merge() raised half-way

adapterVars == <<wrapped, layer, handle, folded, wanted, offered, mixed>>

--------------------------------------------------------------------------------

Plain == [adapters |-> {}, scale |-> 1, active |-> Base, rows |-> <<>>]
Nobody == [i \in 1 .. NRows |-> Base]

AdapterInit == /\ wrapped = {} /\ handle = {} /\ offered = {} /\ mixed = FALSE
               /\ layer = [m \in Modules |-> Plain]
               /\ folded = [m \in Modules |-> <<>>]
               /\ wanted = Nobody

\* The layer of m after attach(list), which wraps what the first of the list
\* targets: a projection already wrapped keeps its layer, and takes the scale
\* of the newcomers for all it holds.
Layered(m, list, base) ==
    [base EXCEPT !.scale = Scale[list[1]], !.adapters = @ \cup {t \in Range(list) : m \in Targets[t]}]

\* The adapters of one list share a scale, or ValueError is raised.
Attach(list) ==
    /\ \A t \in Range(list) : Scale[t] = Scale[list[1]]
    /\ LET target == Targets[list[1]]
       IN /\ layer' = [m \in Modules |->
                 IF m \in target
                 THEN Layered(m, list, IF m \in wrapped THEN layer[m] ELSE Plain)
                 ELSE layer[m]]
          /\ wrapped' = wrapped \cup target
          /\ handle' = target /\ offered' = Range(list)
          /\ mixed' = (mixed \/ (\E t \in Range(list) : Targets[t] # target)
                          \/ wrapped \notin {{}, target}
                          \/ (\E m \in wrapped : layer[m].scale # Scale[list[1]]))
    /\ UNCHANGED <<folded, wanted>>

Detach == /\ wrapped' = {} /\ wanted' = Nobody
          /\ UNCHANGED <<layer, handle, folded, offered, mixed>>

\* Layers outside the model still obey, to no effect on it.
Held == {m \in handle : m \in wrapped}

Attached == Tenants \cap UNION {layer[m].adapters : m \in handle}

SetActive(name) ==
    /\ layer' = [m \in Modules |-> IF m \in handle
                    THEN [layer[m] EXCEPT !.active = name, !.rows = <<>>] ELSE layer[m]]
    /\ wanted' = IF Held = {} THEN wanted ELSE [i \in 1 .. NRows |-> name]
    /\ UNCHANGED <<wrapped, handle, folded, offered, mixed>>

\* A variant that leaves the adapter of the whole batch in place.
SetRowAdaptersOver(names) ==
    /\ layer' = [m \in Modules |-> IF m \in handle /\ layer[m].active = Base
                    THEN [layer[m] EXCEPT !.rows = names] ELSE layer[m]]
    /\ wanted' = IF Held = {} THEN wanted ELSE names
    /\ UNCHANGED <<wrapped, handle, folded, offered, mixed>>

SetRowAdapters(names) ==
    /\ layer' = [m \in Modules |-> IF m \in handle
                    THEN [layer[m] EXCEPT !.active = Base, !.rows = names] ELSE layer[m]]
    /\ wanted' = IF Held = {} THEN wanted ELSE names
    /\ UNCHANGED <<wrapped, handle, folded, offered, mixed>>

\* merge(): layer by layer, until one does not hold the adapter and raises
\* KeyError; then set_active(layers, None).
Merge(name) ==
    LET lacking == {m \in handle : name \notin layer[m].adapters}
        done == {m \in handle : \A k \in lacking : m < k}
    IN /\ handle # {} /\ \A m \in Modules : Len(folded[m]) < MaxFolds
       /\ folded' = [m \in Modules |-> IF m \in done
                        THEN Append(folded[m], <<name, layer[m].scale>>) ELSE folded[m]]
       /\ layer' = [m \in Modules |->
              IF m \notin handle THEN layer[m]
              ELSE LET rest == IF m \in done THEN layer[m].adapters \ {name} ELSE layer[m].adapters
                   IN IF lacking # {} THEN [layer[m] EXCEPT !.adapters = rest]
                      ELSE [layer[m] EXCEPT !.adapters = rest, !.active = Base, !.rows = <<>>]]
       /\ wanted' = IF lacking = {} /\ Held # {} THEN Nobody ELSE wanted
       /\ mixed' = (mixed \/ lacking # {})
    /\ UNCHANGED <<wrapped, handle, offered>>

AdapterNext ==
    \/ \E list \in UNION {[1 .. n -> Tenants] : n \in 1 .. 2} : Attach(list)
    \/ Detach
    \/ \E name \in Attached \cup {Base} : SetActive(name)
    \/ \E names \in [1 .. NRows -> Attached \cup {Base}] : SetRowAdapters(names)
    \/ \E name \in Attached : Merge(name)

--------------------------------------------------------------------------------

\* What forward() adds to row i in projection m, beyond the base weight as it
\* is now; a name the layer does not hold raises KeyError.
Applied(m, i) ==
    LET name == IF layer[m].rows = <<>> THEN layer[m].active ELSE layer[m].rows[i]
    IN IF m \notin wrapped \/ name = Base THEN {}
       ELSE IF name \notin layer[m].adapters THEN {<<"KeyError", 0>>}
       ELSE {<<name, layer[m].scale>>}

Folds(t, m) == Cardinality({n \in 1 .. Len(folded[m]) : folded[m][n][1] = t})

\* Each row of a batch is served with its own tenant's delta, at the scale it
\* was trained with, in every projection and with nobody else's, over whatever
\* was merged, through any sequence of attaching, choosing, merging and
\* detaching; unless adapters of different scales or targets were mixed, or a
\* merge stopped half-way.  What is
\* merged is merged in every projection its adapter has weights for.
RowsServedRight ==
    ~mixed =>
        /\ \A m \in wrapped, i \in 1 .. NRows :
               Applied(m, i) = IF wanted[i] = Base THEN {} ELSE {<<wanted[i], Scale[wanted[i]]>>}
        /\ \A t \in Tenants, m \in Modules :
               Folds(t, m) = IF m \in Targets[t] THEN Folds(t, Min(Targets[t])) ELSE 0

\* "Two adapters with different alpha/rank cannot share one layer's scale
\* factor": what a layer in the model holds was trained with the layer's scale.
\* attach() compares the adapters of its own list and no others.
OneScalePerLayer == \A m \in wrapped : \A t \in layer[m].adapters : layer[m].scale = Scale[t]

\* "so the model can serve any of adapters": a row that asks for one of the list
\* that was attached finds it in every layer of that list.  attach() wraps what
\* the first of the list targets, and gives each of those layers only the
\* adapters that have weights for it.
AnyAttachedServed ==
    \A m \in Held, i \in 1 .. NRows : wanted[i] \in offered => Applied(m, i) # {<<"KeyError", 0>>}

\* detach() puts "the plain projections back, leaving the model exactly as it
\* was": what is plain has nothing folded into it.
DetachRestores == \A m \in Modules \ wrapped : folded[m] = <<>>

================================================================================
