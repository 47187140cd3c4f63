------------------------------- MODULE MCTenant -------------------------------
(* TenantFairEngine: a burst of three requests of one tenant, and one of another
   that is entitled to half as much. *)
EXTENDS TenantFairEngine, TLC

CONSTANTS h1, h2, h3, a1, hog, alice, x

MCRequests == {h1, h2, h3, a1}
MCVocab == {x}
MCPrompt == h1 :> <<x>> @@ h2 :> <<x, x, x>> @@ h3 :> <<x>> @@ a1 :> <<x>>
MCStopTokens == [r \in MCRequests |-> {}]
MCMaxTokens == h1 :> 4 @@ h2 :> 2 @@ h3 :> 1 @@ a1 :> 2
MCTenants == {hog, alice}
MCTenantOf == h1 :> hog @@ h2 :> hog @@ h3 :> hog @@ a1 :> alice
MCWeight == hog :> 2 @@ alice :> 1

================================================================================
