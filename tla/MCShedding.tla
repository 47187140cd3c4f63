------------------------------ MODULE MCShedding ------------------------------
(* SheddingEngine: three requests at a queue of one place and a small pool. *)
EXTENDS SheddingEngine, TLC

CONSTANTS r1, r2, r3, x

MCRequests == {r1, r2, r3}
MCVocab == {x}
MCPrompt == r1 :> <<x>> @@ r2 :> <<x, x, x>> @@ r3 :> <<x>>
MCStopTokens == [r \in MCRequests |-> {}]
MCMaxTokens == r1 :> 2 @@ r2 :> 4 @@ r3 :> 1
MCMaxUtilisation == <<9, 10>>

================================================================================
