---------------------------- MODULE SheddingEngine ----------------------------
(***************************************************************************)
(* SheddingEngine of engines/shedding.py: CancellableEngine that refuses   *)
(* requests when its queue is deep or its memory full, and that can be     *)
(* drained.  A refusal is answered by a notice, like an abort.             *)
(***************************************************************************)
EXTENDS CancellableEngine

CONSTANTS
    MaxQueueDepth,      \* max_queue_depth
    MaxUtilisation      \* max_kv_utilisation, as <<numerator, denominator>>

ASSUME SheddingAssumption == /\ MaxQueueDepth \in Nat
                             /\ MaxUtilisation \in Nat \X (Nat \ {0})

VARIABLES
    draining,
    refused         \* history: requests add_request() has turned away

shedVars == <<cancelVars, draining, refused>>

ShedInit == CancelInit /\ draining = FALSE /\ refused = {}

--------------------------------------------------------------------------------

\* utilisation < max_kv_utilisation
MemoryToSpare ==
    (Cardinality(Blocks) - NFree) * MaxUtilisation[2] < Cardinality(Blocks) * MaxUtilisation[1]

ShouldAdmit == ~draining /\ Len(waiting) < MaxQueueDepth /\ MemoryToSpare

\* A request object is submitted once; a caller that is refused may send
\* another one, which is another request.
NewRequest(r) == r \notin Range(arrival) \cup refused

Accept(r) ==
    /\ NewRequest(r) /\ ShouldAdmit
    /\ AddRequest(r)
    /\ UNCHANGED <<cacheVars, answerVars, draining, refused>>

Refuse(r) ==
    /\ pc = "idle" /\ NewRequest(r) /\ ~ShouldAdmit
    /\ owed' = Append(owed, r) /\ refused' = refused \cup {r}
    /\ UNCHANGED <<prefixVars, outputs, told, aborted, late, draining>>

Drain == /\ pc = "idle" /\ ~draining
         /\ draining' = TRUE
         /\ UNCHANGED <<cancelVars, refused>>

\* A variant that forgets the requests in service.
QueueDrained == draining /\ waiting = <<>>

drained == draining /\ waiting = <<>> /\ running = <<>>

ShedStep == CancelStep /\ UNCHANGED <<draining, refused>>

ShedNext == \/ ShedStep
            \/ \E r \in Requests : Accept(r) \/ Refuse(r)
            \/ Abort /\ UNCHANGED <<draining, refused>>
            \/ Drain

ShedSpec == ShedInit /\ [][ShedNext]_shedVars

\* Every driver steps as long as has_work().
ShedFairSpec == ShedSpec /\ WF_shedVars(ShedStep)

--------------------------------------------------------------------------------
(***************************************************************************)
(* What a front door must get right: everybody is answered, once.          *)
(***************************************************************************)

ShedTypeOK == CancelTypeOK /\ draining \in BOOLEAN /\ refused \subseteq Requests

\* A caller is owed or has had a terminal output exactly when its request has
\* finished or been refused, and has exactly one unless the request was
\* preempted or aborted after it had finished; a caller without one is served.
AnsweredOnce ==
    \A r \in Requests :
        /\ Answers(r) > 0 <=> finished[r] \/ r \in refused
        /\ r \notin outlived \cup late => Answers(r) <= 1
        /\ r \in Range(arrival) /\ Answers(r) = 0 => r \in Range(Line)

\* Whatever is aborted, refused or drained, silence is no answer: everybody who
\* submits a request is returned a terminal output in the end.
EverybodyTold == \A r \in Requests : r \in Range(arrival) \cup refused ~> told[r] > 0

\* A driver may stop on drained without cutting a stream: everybody accepted
\* has been told the end, or is owed the notice that it was aborted.
DrainedCutsNobody ==
    pc = "idle" /\ drained => \A r \in Range(arrival) : told[r] > 0 \/ r \in Range(owed)

\* A drain comes to its end, and what is owed then is handed out.
DrainEnds == draining ~> drained /\ owed = <<>>

\* Callers that abort at any moment, between steps and beside readers of the same
\* prefix, upset neither the pool nor who has been answered.
ShedExact == ShedTypeOK /\ CountsExact /\ AnsweredOnce

\* Silence is no answer and a drain is no standstill.
EverybodyHears == EverybodyTold /\ DrainEnds

\* should_admit() says whether the engine can take another request: with
\* nothing queued, running or owed, it can.
IdleAdmits ==
    pc = "idle" /\ ~CancelHasWork /\ ~draining /\ MaxQueueDepth > 0 => ShouldAdmit

================================================================================
