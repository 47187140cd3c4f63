------------------------------ MODULE ServiceLine ------------------------------
(***************************************************************************)
(* What continuous batching promises about order, whatever the memory      *)
(* does: one line in order of arrival, of which a prefix is in service.    *)
(* Service is started at the first request that waits, taken back from the *)
(* last one in service only, and left from any place.  No batching engine  *)
(* may reorder the line or let a request in or out of it otherwise.        *)
(***************************************************************************)
EXTENDS Integers, Sequences, SequencesExt

CONSTANTS Requests, MaxBatchSize

VARIABLES
    line,       \* everybody in the engine
    inService,  \* how many of them, from the front, are in service
    seen        \* who has ever arrived

lineVars == <<line, inService, seen>>

LineInit == line = <<>> /\ inService = 0 /\ seen = {}

Arrive(r) == /\ r \notin seen
             /\ line' = Append(line, r) /\ seen' = seen \cup {r}
             /\ UNCHANGED inService

Start == /\ inService < Len(line) /\ inService < MaxBatchSize
         /\ inService' = inService + 1 /\ UNCHANGED <<line, seen>>

Yield == /\ inService > 0
         /\ inService' = inService - 1 /\ UNCHANGED <<line, seen>>

Leave(i) == /\ i <= inService
            /\ line' = RemoveAt(line, i) /\ inService' = inService - 1
            /\ UNCHANGED seen

LineNext == \/ \E r \in Requests : Arrive(r)
            \/ Start
            \/ Yield
            \/ \E i \in 1 .. Len(line) : Leave(i)

LineSpec == LineInit /\ [][LineNext]_lineVars

================================================================================
