-------------------------------- MODULE MCFleet --------------------------------
(* Two replicas of any engine behind any policy, driven either way by a trace *)
(* of three requests: two share a prefix, one has a stop token, and the first *)
(* is so long that a slot it keeps after its end soon leaves the rotary table. *)
EXTENDS Fleet, TLC

CONSTANTS r1, r2, r3, go, stop

MCRequests == {r1, r2, r3}
MCVocab == {go, stop}
MCTrace == <<r1, r2, r3>>
MCPrompt == r1 :> <<go, go, stop>> @@ r2 :> <<stop>> @@ r3 :> <<go, stop>>
MCStopTokens == r1 :> {} @@ r2 :> {stop} @@ r3 :> {}
MCMaxTokens == r1 :> 1 @@ r2 :> 3 @@ r3 :> 2

================================================================================
