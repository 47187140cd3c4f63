------------------------------ MODULE PagedEngine ------------------------------
(***************************************************************************)
(* PagedEngine of engines/paged.py: continuous batching over a paged KV    *)
(* cache.  step() is one handler that nothing interleaves with; it is cut  *)
(* here into one action per loop iteration under the program counter pc,   *)
(* in the code's order.  Callers act between steps, when pc = "idle".      *)
(*                                                                         *)
(* A token is a member of Vocab; sampling is a free choice among them.     *)
(* The engines built on this one EXTEND this module and replace the        *)
(* actions whose method they override.                                     *)
(***************************************************************************)
EXTENDS BlockPool, SequencesExt

CONSTANTS
    Requests,       \* the requests callers may submit
    Vocab,          \* token ids
    Prompt,         \* prompt_token_ids of each request
    StopTokens,     \* params.stop_token_ids of each request
    MaxTokens,      \* params.max_tokens of each request
    MaxBatchSize

ASSUME EngineAssumption ==
    /\ Prompt \in [Requests -> Seq(Vocab) \ {<<>>}]
    /\ StopTokens \in [Requests -> SUBSET Vocab]
    /\ MaxTokens \in [Requests -> Nat \ {0}]
    /\ MaxBatchSize \in Nat \ {0}

VARIABLES
    waiting,            \* queued requests, head first
    running,            \* admitted requests, oldest admission first
    block_table,        \* physical blocks of each request, in logical order
    stored,             \* how many of its tokens have their KV in those blocks
    output_token_ids,   \* tokens generated, all handed to the caller
    finished,           \* RequestState.finished
    pc,                 \* where step() is
    admitted,           \* step(): requests let in and not yet in running
    reserved,           \* step(): blocks promised to them
    states,             \* the argument of _prefill or _decode being served
    at,                 \* position in states of the loop under way
    arrival,            \* history: requests in the order of add_request
    outlived            \* history: requests preempted after they had finished

requestVars == <<block_table, stored, output_token_ids, finished>>
stepVars == <<admitted, reserved, states, at>>
history == <<arrival, outlived>>
vars == <<free, refcount, waiting, running, requestVars, pc, stepVars, history>>

--------------------------------------------------------------------------------

AllTokens(r) == Prompt[r] \o output_token_ids[r]
TotalLen(r) == Len(Prompt[r]) + Len(output_token_ids[r])

has_work == waiting # <<>> \/ running # <<>>

Init ==
    /\ PoolInit
    /\ waiting = <<>> /\ running = <<>>
    /\ block_table = [r \in Requests |-> <<>>]
    /\ stored = [r \in Requests |-> 0]
    /\ output_token_ids = [r \in Requests |-> <<>>]
    /\ finished = [r \in Requests |-> FALSE]
    /\ pc = "idle"
    /\ admitted = <<>> /\ reserved = 0 /\ states = <<>> /\ at = 1
    /\ arrival = <<>> /\ outlived = {}

\* A request object is submitted once.
AddRequest(r) ==
    /\ pc = "idle" /\ r \notin Range(arrival)
    /\ waiting' = Append(waiting, r)
    /\ arrival' = Append(arrival, r)
    /\ UNCHANGED <<poolVars, running, requestVars, pc, stepVars, outlived>>

--------------------------------------------------------------------------------
(* step(): retire what has finished, then admit while memory allows. *)

\* Every driver calls step() only while has_work().
BeginStep ==
    /\ pc = "idle" /\ has_work
    /\ pc' = "retire"
    /\ UNCHANGED <<poolVars, waiting, running, requestVars, stepVars, history>>

\* (ChunkedEngine filters running a second time, at "settle".)
RetireOne ==
    /\ pc \in {"retire", "settle"}
    /\ \E i \in 1 .. Len(running) :
           /\ finished[running[i]]
           /\ \A j \in 1 .. i - 1 : ~finished[running[j]]
           /\ running' = RemoveAt(running, i)
    /\ UNCHANGED <<poolVars, waiting, requestVars, pc, stepVars, history>>

Retired ==
    /\ pc = "retire"
    /\ \A i \in 1 .. Len(running) : ~finished[running[i]]
    /\ pc' = "admit"
    /\ UNCHANGED <<poolVars, waiting, running, requestVars, stepVars, history>>

\* Position in waiting of the request considered next, _next_waiting().
NextWaiting == 1

\* A variant that admits whoever could store one token.
NeedOfOneToken(r) == BlocksNeeded(1)

\* What admission asks for: the tokens to prefill and one more.
Need(r) == BlocksNeeded(TotalLen(r) + 1)

RoomInBatch == /\ waiting # <<>>
               /\ Len(running) + Len(admitted) < MaxBatchSize

\* A variant that checks each candidate against the same free count.
FitsAlone(r) == Need(r) <= NFree

\* need > n_free - reserved; this engine's _make_room() gives up nothing.
Fits(r) == Need(r) <= NFree - reserved

AdmitAt(index) ==
    /\ pc = "admit" /\ RoomInBatch
    /\ LET candidate == waiting[index]
       IN /\ Fits(candidate)
          /\ reserved' = reserved + Need(candidate)
          /\ admitted' = Append(admitted, candidate)
          /\ waiting' = RemoveAt(waiting, index)
    /\ UNCHANGED <<poolVars, running, requestVars, pc, states, at, history>>

Admit == AdmitAt(NextWaiting)

StartWork ==
    /\ states' = IF admitted # <<>> THEN admitted ELSE running
    /\ reserved' = 0 /\ at' = 1
    /\ pc' = IF admitted # <<>> THEN "prefill"
             ELSE IF running # <<>> THEN "grow" ELSE "idle"
    /\ UNCHANGED <<poolVars, waiting, running, requestVars, admitted, history>>

AdmitDone == /\ pc = "admit"
             /\ RoomInBatch => ~Fits(waiting[NextWaiting])
             /\ StartWork

--------------------------------------------------------------------------------
(* Memory of one request. *)

\* A list of distinct members, less e.
Without(s, e) == IF \E i \in 1 .. Len(s) : s[i] = e
                 THEN RemoveAt(s, CHOOSE i \in 1 .. Len(s) : s[i] = e) ELSE s

\* How many blocks _grow(state, n) must allocate.
Missing(r, n) ==
    LET short == BlocksNeeded(stored[r] + n) - Len(block_table[r])
    IN IF short > 0 THEN short ELSE 0

Extend(r, taken) == /\ Allocate(taken)
                    /\ block_table' = [block_table EXCEPT ![r] = @ \o taken]

\* Variants of _release(): the table is not cleared; the blocks do not return
\* to the pool.
ReleaseKeepingTable(r) == /\ Free(Range(block_table[r]))
                          /\ stored' = [stored EXCEPT ![r] = 0]
                          /\ UNCHANGED block_table

ReleaseLeaking(r) == /\ block_table' = [block_table EXCEPT ![r] = <<>>]
                     /\ stored' = [stored EXCEPT ![r] = 0]
                     /\ UNCHANGED poolVars

\* _release()
Release(r) == /\ Free(Range(block_table[r]))
              /\ block_table' = [block_table EXCEPT ![r] = <<>>]
              /\ stored' = [stored EXCEPT ![r] = 0]

\* A variant of _preempt_newest() whose victim goes to the end of the queue.
RequeueLast(victim) ==
    /\ running' = Front(running)
    /\ waiting' = Append(waiting, victim)
    /\ outlived' = IF finished[victim] THEN outlived \cup {victim} ELSE outlived
    /\ states' = Without(states, victim)

\* The part of _preempt_newest() that moves the victim, the last of running.
Requeue(victim) ==
    /\ running' = Front(running)
    /\ waiting' = <<victim>> \o waiting
    /\ outlived' = IF finished[victim] THEN outlived \cup {victim} ELSE outlived
    /\ states' = Without(states, victim)

--------------------------------------------------------------------------------
(* _prefill(): blocks and KV for each admitted request, then a token each. *)

\* An allocation that fails here is not caught: the step raises.
PrefillOne ==
    /\ pc = "prefill" /\ at <= Len(states)
    /\ LET r == states[at]
           n == Missing(r, TotalLen(r))
       IN IF ~Available(n)
          THEN /\ pc' = "raised"
               /\ UNCHANGED <<poolVars, block_table, stored, at>>
          ELSE /\ \E taken \in Takings(n) : Extend(r, taken)
               /\ stored' = [stored EXCEPT ![r] = TotalLen(r)]
               /\ at' = at + 1 /\ UNCHANGED pc
    /\ UNCHANGED <<waiting, running, output_token_ids, finished, admitted, reserved, states,
                   history>>

PrefillDone ==
    /\ pc = "prefill" /\ at > Len(states)
    /\ pc' = "emit_prefill" /\ at' = 1
    /\ UNCHANGED <<poolVars, waiting, running, requestVars, admitted, reserved, states, history>>

\* A variant that ends a stream one token late.
EndsLate(r, token) ==
    token \in StopTokens[r] \/ Len(output_token_ids[r]) >= MaxTokens[r]

\* check_finished() after a token has been appended.
EndsWith(r, token) ==
    token \in StopTokens[r] \/ Len(output_token_ids[r]) + 1 >= MaxTokens[r]

\* One iteration of _emit(), with the token the sampler drew.
Deliver(r, token) ==
    /\ output_token_ids' = [output_token_ids EXCEPT ![r] = Append(@, token)]
    /\ finished' = [finished EXCEPT ![r] = @ \/ EndsWith(r, token)]

Emit ==
    /\ pc \in {"emit_prefill", "emit_decode"} /\ at <= Len(states)
    /\ \E token \in Vocab : Deliver(states[at], token)
    /\ IF finished'[states[at]]
       THEN Release(states[at])
       ELSE UNCHANGED <<poolVars, block_table, stored>>
    /\ at' = at + 1
    /\ UNCHANGED <<waiting, running, pc, admitted, reserved, states, history>>

\* self.running += admitted.  Those that decode in this step are the others
\* that have not finished: exactly running as it was, since Retired.
JoinRunning ==
    /\ running' = running \o admitted
    /\ admitted' = <<>>
    /\ states' = running /\ at' = 1
    /\ pc' = IF running # <<>> THEN "grow" ELSE "idle"
    /\ UNCHANGED <<poolVars, waiting, requestVars, reserved, history>>

Join == pc = "emit_prefill" /\ at > Len(states) /\ JoinRunning

--------------------------------------------------------------------------------
(* _decode(): a slot for everybody's next token, then a token each. *)

GrowOne ==
    /\ pc = "grow" /\ at <= Len(states)
    /\ LET r == states[at]
           n == Missing(r, 1)
       IN /\ Available(n)
          /\ \E taken \in Takings(n) : Extend(r, taken)
    /\ at' = at + 1
    /\ UNCHANGED <<waiting, running, stored, output_token_ids, finished, pc, admitted,
                   reserved, states, history>>

\* OutOfBlocksError: preempt the newest, start over with those still running.
\* running is not empty while states is not.
GrowShort ==
    /\ pc = "grow" /\ at <= Len(states)
    /\ ~Available(Missing(states[at], 1))
    /\ LET victim == Last(running)
       IN Release(victim) /\ Requeue(victim)
    /\ at' = 1
    /\ pc' = IF states' = <<>> THEN "idle" ELSE "grow"
    /\ UNCHANGED <<output_token_ids, finished, admitted, reserved, arrival>>

\* The forward pass stores the KV of everybody's last token.
Decode ==
    /\ pc = "grow" /\ at > Len(states)
    /\ stored' = [r \in Requests |-> IF r \in Range(states) THEN stored[r] + 1 ELSE stored[r]]
    /\ pc' = "emit_decode" /\ at' = 1
    /\ UNCHANGED <<poolVars, waiting, running, block_table, output_token_ids, finished,
                   admitted, reserved, states, history>>

EndStep ==
    /\ pc = "emit_decode" /\ at > Len(states)
    /\ pc' = "idle" /\ states' = <<>> /\ at' = 1
    /\ UNCHANGED <<poolVars, waiting, running, requestVars, admitted, reserved, history>>

--------------------------------------------------------------------------------

(***************************************************************************)
(* What the engine must get right.                                         *)
(***************************************************************************)

\* Everybody in the engine, in the order they are, or will be, served.
Line == running \o admitted \o waiting

\* Types, and the bound on the batch.  Only the engines built on this one are
\* ever at "fill" or "settle".
TypeOK ==
    /\ free \subseteq Blocks /\ refcount \in [Blocks -> Nat]
    /\ waiting \in Seq(Requests) /\ running \in Seq(Requests)
    /\ block_table \in [Requests -> Seq(Blocks)]
    /\ stored \in [Requests -> Nat]
    /\ output_token_ids \in [Requests -> Seq(Vocab)]
    /\ finished \in [Requests -> BOOLEAN]
    /\ pc \in {"idle", "retire", "admit", "prefill", "emit_prefill", "grow", "emit_decode",
              "raised", "fill", "settle"}
    /\ admitted \in Seq(Requests) /\ states \in Seq(Requests)
    /\ reserved \in Nat /\ at \in Nat \ {0}
    /\ arrival \in Seq(Requests) /\ outlived \in SUBSET Requests
    /\ Len(running) + Len(admitted) <= MaxBatchSize

\* A block is free, or it stands once in the table of one request: no step
\* leaks a block, gives it to two sequences or returns it twice.
BlocksPartitioned ==
    /\ \A b \in Blocks : refcount[b] = IF b \in free THEN 0 ELSE 1
    /\ \A b \in Blocks : b \notin free <=> \E r \in Requests : b \in Range(block_table[r])
    /\ \A r \in Requests : \A i, j \in 1 .. Len(block_table[r]) :
           block_table[r][i] = block_table[r][j] => i = j
    /\ \A r, s \in Requests : r # s => Range(block_table[r]) \cap Range(block_table[s]) = {}

\* Only requests being prefilled, and running ones that have not finished,
\* hold memory; between steps it
\* holds the KV of all its tokens but the last, and no block beyond that.
MemoryFollowsService ==
    /\ \A r \in Requests :
           /\ r \notin Range(admitted)
           /\ finished[r] \/ r \notin Range(running)
           => block_table[r] = <<>> /\ stored[r] = 0
    /\ pc = "idle" =>
           \A r \in Range(running) : ~finished[r] =>
               /\ stored[r] = TotalLen(r) - 1
               /\ Len(block_table[r]) = BlocksNeeded(stored[r])

\* Admission promises blocks that prefill then finds: an OutOfBlocksError is
\* a scheduling event of _decode, and never leaves step().
NeverRaises == pc # "raised"

\* Memory between what admission promises and what service needs: nobody
\* holds what it should not, everybody finds what it was promised.
MemoryServes == TypeOK /\ MemoryFollowsService /\ NeverRaises

\* First come first served, through preemption and readmission: nobody in the
\* engine is ever behind a later arrival.
ArrivalOrder ==
    \A i, j \in 1 .. Len(Line) : i < j =>
        \E k, l \in 1 .. Len(arrival) : k < l /\ arrival[k] = Line[i] /\ arrival[l] = Line[j]

\* A request that has arrived and not finished is in the engine.
NoneLost == \A r \in Range(arrival) : finished[r] \/ r \in Range(Line)

\* A stream ends at its first stop token or its token budget, whichever comes
\* first, however often it was preempted on the way.
StreamEnds ==
    \A r \in Requests \ outlived :
        LET out == output_token_ids[r]
            Stops(i) == out[i] \in StopTokens[r] \/ i = MaxTokens[r]
        IN /\ \A i \in 1 .. Len(out) : Stops(i) => i = Len(out)
           /\ finished[r] <=> out # <<>> /\ Stops(Len(out))

\* What check_finished() and the comment of _preempt_newest() promise a
\* caller: never more than max_tokens tokens.
TokenBudget == \A r \in Requests : Len(output_token_ids[r]) <= MaxTokens[r]

\* A step that finds the batch empty and the queue not lets somebody in: the
\* engine never spins with a full queue and an empty batch.
NeverSpins == [][pc = "admit" /\ pc' = "idle" => waiting = <<>>]_vars

\* The scheduler as a line of which a prefix is in service.
Service == INSTANCE ServiceLine WITH
               line <- Line, inService <- Len(running) + Len(admitted), seen <- Range(arrival)

\* Every step of the engine starts, takes back or ends service as ServiceLine
\* allows, or leaves the line as it is.
ServesInLine == Service!LineSpec

\* Whoever is submitted is served and leaves.
EverybodyLeaves == \A r \in Requests : r \in Range(arrival) ~> r \notin Range(Line)

--------------------------------------------------------------------------------

Step == \/ BeginStep \/ RetireOne \/ Retired \/ Admit \/ AdmitDone
        \/ PrefillOne \/ PrefillDone \/ Emit \/ Join
        \/ GrowOne \/ GrowShort \/ Decode \/ EndStep

Next == Step \/ \E r \in Requests : AddRequest(r)

Spec == Init /\ [][Next]_vars

\* Every driver calls step() again as long as has_work().
FairSpec == Spec /\ WF_vars(Step)

================================================================================
