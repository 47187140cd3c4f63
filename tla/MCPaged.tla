-------------------------------- MODULE MCPaged --------------------------------
(* PagedEngine on a small instance: three requests share four blocks. *)
EXTENDS PagedEngine, TLC

CONSTANTS r1, r2, r3, go, stop

MCRequests == {r1, r2, r3}
MCVocab == {go, stop}
MCPrompt == r1 :> <<go>> @@ r2 :> <<go, go, go>> @@ r3 :> <<go>>
MCStopTokens == r1 :> {} @@ r2 :> {stop} @@ r3 :> {}
MCMaxTokens == r1 :> 4 @@ r2 :> 3 @@ r3 :> 1

================================================================================
