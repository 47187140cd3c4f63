------------------------------- MODULE MCCaches -------------------------------
(* PrefixEngine, and OffloadEngine on top of it: requests over two prompts    *)
(* that outgrow the pool between them.  The first state picks the engine.      *)
EXTENDS OffloadEngine, TLC

CONSTANTS r1, r2, r3, r4, x, y

VARIABLE offloads   \* whether what is evicted goes to a second tier

MCRequests == {r1, r2, r3, r4}
MCVocab == {x, y}
MCPrompt == r1 :> <<x, x, x>> @@ r2 :> <<x, y, y, x, x>> @@ r3 :> <<x, x, x, x, x>>
            @@ r4 :> <<x, y, y, x>>
MCStopTokens == [r \in MCRequests |-> {}]
MCMaxTokens == r1 :> 3 @@ r2 :> 1 @@ r3 :> 2 @@ r4 :> 1

CachesInit == OffloadInit /\ offloads \in BOOLEAN

CachesNext ==
    \/ offloads /\ OffloadNext /\ UNCHANGED offloads
    \/ ~offloads /\ PrefixNext /\ UNCHANGED <<tier, promoteVars, offloads>>

CachesSpec == CachesInit /\ [][CachesNext]_<<offloadVars, offloads>>

BlockSymmetry == Permutations(Blocks)

================================================================================
