--------------------------- MODULE CancellableEngine ---------------------------
(***************************************************************************)
(* CancellableEngine of engines/cancel.py: PrefixCachedEngine whose        *)
(* callers may give up on a request between steps.  A terminal output, one *)
(* with finished = True, ends a caller's wait; those of aborted requests   *)
(* are owed as notices, which the next step returns before its own.        *)
(*                                                                         *)
(* Of an output only the request it ends is kept.                          *)
(***************************************************************************)
EXTENDS PrefixEngine

VARIABLES
    owed,       \* _abort_notices: requests whose terminal output is pending
    outputs,    \* step(): the terminal outputs it will return
    told,       \* history: terminal outputs each caller has been returned
    aborted,    \* the requests abort() has dropped; the code keeps their number
    late        \* history: of these, the ones that had finished before

answerVars == <<owed, outputs, told, aborted, late>>
cancelVars == <<prefixVars, answerVars>>

CancelInit ==
    /\ PrefixInit
    /\ owed = <<>> /\ outputs = <<>>
    /\ told = [r \in Requests |-> 0]
    /\ aborted = {} /\ late = {}

--------------------------------------------------------------------------------
(* abort(), between steps. *)

\* _finish_aborted()
FinishAborted(r) ==
    /\ finished' = [finished EXCEPT ![r] = TRUE]
    /\ owed' = Append(owed, r)
    /\ aborted' = aborted \cup {r}
    /\ late' = IF finished[r] THEN late \cup {r} ELSE late

AbortWaiting(r) ==
    /\ pc = "idle" /\ r \in Range(waiting)
    /\ waiting' = Without(waiting, r)
    /\ FinishAborted(r)
    /\ UNCHANGED <<poolVars, cacheVars, running, block_table, stored, output_token_ids, pc,
                   stepVars, history, outputs, told>>

GiveBack(r) == PrefixRelease(r)

\* A request is found in running only when it is not queued.  It may have
\* finished and not been retired; it is dropped all the same.
AbortRunning(r) ==
    /\ pc = "idle" /\ r \notin Range(waiting) /\ r \in Range(running)
    /\ running' = Without(running, r)
    /\ GiveBack(r)
    /\ FinishAborted(r)
    /\ UNCHANGED <<waiting, output_token_ids, pc, stepVars, history, outputs, told>>

--------------------------------------------------------------------------------
(* step(): the pending notices, then what a step of the prefix engine hands out. *)

\* A variant that looks only at the queue and the batch.
InheritedHasWork == has_work

CancelHasWork == owed # <<>> \/ has_work

\* A variant that returns the notices and keeps them.
NoticesKept == owed

NoticesLeft == <<>>

BeginCancelStep ==
    /\ pc = "idle" /\ CancelHasWork
    /\ outputs' = owed /\ owed' = NoticesLeft
    /\ pc' = "retire"
    /\ UNCHANGED <<poolVars, cacheVars, waiting, running, requestVars, stepVars, history,
                   told, aborted, late>>

CancelEmit ==
    /\ PrefixEmit
    /\ outputs' = IF finished'[states[at]] THEN Append(outputs, states[at]) ELSE outputs
    /\ UNCHANGED <<owed, told, aborted, late>>

Times(r, s) == Cardinality({i \in 1 .. Len(s) : s[i] = r})

\* The step returns when it comes to its end, and its callers read.
CancelWork ==
    /\ PrefixAdmission \/ PrefixWork
    /\ IF pc' = "idle"
       THEN told' = [r \in Requests |-> told[r] + Times(r, outputs)] /\ outputs' = <<>>
       ELSE UNCHANGED <<told, outputs>>
    /\ UNCHANGED <<owed, aborted, late>>

CancelStep == BeginCancelStep \/ CancelWork \/ CancelEmit

\* A caller may abort at any moment between steps, also twice or too late.
Abort == \E r \in Requests : AbortWaiting(r) \/ AbortRunning(r)

--------------------------------------------------------------------------------

CancelTypeOK ==
    /\ PrefixTypeOK
    /\ owed \in Seq(Requests) /\ outputs \in Seq(Requests)
    /\ told \in [Requests -> Nat]
    /\ late \subseteq aborted /\ aborted \subseteq Requests

\* The terminal outputs a request has been, or is about to be, answered with.
Answers(r) == told[r] + Times(r, outputs) + Times(r, owed)

================================================================================
