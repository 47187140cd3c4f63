------------------------------- MODULE MCChunked -------------------------------
(* ChunkedEngine: three prompts, two of which begin alike, in chunks of
   at most two tokens. *)
EXTENDS ChunkedEngine, TLC

CONSTANTS r1, r2, r3, x, y

MCRequests == {r1, r2, r3}
MCVocab == {x, y}
MCPrompt == r1 :> <<x>> @@ r2 :> <<y, y, x, x, x>> @@ r3 :> <<y, y, x>>
MCStopTokens == r1 :> {y} @@ r2 :> {y} @@ r3 :> {}
MCMaxTokens == r1 :> 4 @@ r2 :> 2 @@ r3 :> 1

================================================================================
