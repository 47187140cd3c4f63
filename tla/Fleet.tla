---------------------------------- MODULE Fleet ----------------------------------
(***************************************************************************)
(* A fleet behind its router, driven by one of the two load generators of  *)
(* the benchmarks: run_benchmark of bench/harness.py submits on an open    *)
(* schedule, at any moment between two steps; run_closed_loop of           *)
(* bench/closed_loop.py keeps a fixed number of requests in flight and     *)
(* submits when one ends.  Both take the requests in the order of Trace.   *)
(***************************************************************************)
EXTENDS Router

CONSTANTS
    Trace,      \* the requests, in the order in which they are due
    NWorkers    \* n_workers of the closed loop

ASSUME TraceAssumption ==
    /\ Trace \in Seq(Requests) /\ Range(Trace) = Requests /\ Len(Trace) = Cardinality(Requests)
    /\ NWorkers \in Nat

VARIABLES
    loop,       \* "open", or the closed loop "starting" or "serving"
    index,      \* how many of Trace have been submitted
    in_flight,
    reported,   \* outputs with finished set that the closed loop has yet to handle
    raised      \* IndexError came out of step(), and ended the driver

driverVars == <<loop, index, in_flight, reported, raised>>
vars == <<replicaVars, routerVars, driverVars>>

--------------------------------------------------------------------------------

pending == SubSeq(Trace, index + 1, Len(Trace))
submitted == Range(First(Trace, index))

Init == /\ RouterInit
        /\ loop \in {"open", "starting"}
        /\ index = 0 /\ in_flight = 0 /\ reported = 0 /\ raised = FALSE

Submit == /\ pending # <<>> /\ AddRequest(Head(pending))
          /\ index' = index + 1

\* Arrival times are free, so the next request is due at any moment.
OpenSubmit == /\ loop = "open" /\ ~raised
              /\ Submit
              /\ UNCHANGED <<loop, in_flight, reported, raised>>

StartWorker == /\ loop = "starting" /\ in_flight < NWorkers
               /\ Submit
               /\ in_flight' = in_flight + 1
               /\ UNCHANGED <<loop, reported, raised>>

StartServing == /\ loop = "starting"
                /\ pending = <<>> \/ in_flight >= NWorkers
                /\ loop' = "serving"
                /\ UNCHANGED <<replicaVars, routerVars, index, in_flight, reported, raised>>

CanStep == loop # "starting" /\ reported = 0 /\ ~raised /\ has_work

StepFleet == /\ CanStep /\ \A i \in Replicas : ~Overruns(i)
             /\ Step
             /\ reported' = IF loop = "open" THEN 0
                            ELSE Cardinality({r \in Requests : output'[r] # output[r] /\ finished'[r]})
             /\ UNCHANGED <<loop, index, in_flight, raised>>

\* The model raises; nobody catches it, and nobody looks at the engines again.
StepRaises == /\ CanStep /\ \E i \in Replicas : Overruns(i)
              /\ raised' = TRUE
              /\ UNCHANGED <<replicaVars, routerVars, loop, index, in_flight, reported>>

\* A variant of the closed loop that submits with every end it hears of, and
\* forgets the one that ended.
EndForgotten == /\ reported > 0 /\ reported' = reported - 1
                /\ pending # <<>> /\ Submit /\ in_flight' = in_flight + 1
                /\ UNCHANGED <<loop, raised>>

\* `if out.finished` of the closed loop: one worker is free, and submits.
WorkerFreed == /\ reported > 0 /\ reported' = reported - 1
               /\ IF pending # <<>> THEN Submit /\ UNCHANGED in_flight
                  ELSE /\ in_flight' = in_flight - 1
                       /\ UNCHANGED <<replicaVars, routerVars, index>>
               /\ UNCHANGED <<loop, raised>>

Next == \/ OpenSubmit
        \/ StartWorker
        \/ StartServing
        \/ StepFleet
        \/ StepRaises
        \/ WorkerFreed

\* Both drivers call step() for as long as there is work.
Fairness == WF_vars(StartWorker \/ StartServing \/ StepFleet \/ StepRaises \/ WorkerFreed)

FairSpec == Init /\ [][Next]_vars /\ Fairness

--------------------------------------------------------------------------------

Count(S) == Cardinality(S)

\* Ledgers that different parts of the program keep of the same events agree:
\* the router's assignments with what was submitted, the closed loop's
\* in_flight with the requests that are not over, static batching's slots with
\* the tokens delivered and the waste, the handoffs with the requests that
\* have started; and a request is in exactly one list, once, until it is over.
LedgersAgree ==
    /\ \A i \in Replicas : assignments[i] = Count({r \in submitted : placed[r] = i})
    /\ loop # "open" => /\ in_flight - reported = Count({r \in submitted : ~finished[r]})
                        /\ in_flight <= NWorkers
    /\ kind \in {"static-batch", "continuous-batch"} =>
           /\ total_slot_steps - wasted_slot_steps = SumFunction([r \in Requests |-> Len(output[r])])
           /\ kind = "continuous-batch" => wasted_slot_steps = 0
    /\ kind = "disaggregated" => transfers = Count({r \in Requests : output[r] # <<>>})
    /\ \A r \in submitted : ~finished[r] =>
           \A i \in Replicas : Count({k \in DOMAIN (waiting[i] \o running[i]) :
               (waiting[i] \o running[i])[k] = r}) = IF i = placed[r] THEN 1 ELSE 0

Service == INSTANCE TokenService WITH
               asked <- submitted, heard <- output, over <- {r \in Requests : finished[r]}

\* Any of the engines, alone or behind the router, delivers what one engine
\* promises: no token before a request is submitted, one at a time, none after
\* the one that ends it, and an end exactly at a stop token or the budget.
ServesTokens == Service!ServiceSpec

\* Every request fits the rotary table.  Only static batching can still run
\* past its end: a finished member of a batch goes on being decoded, and its
\* position goes on growing, for as long as another has not finished.
OverrunsOnlyStatic == raised => kind = "static-batch"

\* Everybody who is submitted is served to the end, and the closed loop comes
\* to the end of its trace.
EverybodyAnswered ==
    /\ \A r \in Requests : r \in submitted ~> (finished[r] \/ raised)
    /\ loop # "open" => <>(raised \/ \A r \in Requests : finished[r])

================================================================================
