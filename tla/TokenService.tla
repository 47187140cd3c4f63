------------------------------ MODULE TokenService ------------------------------
(***************************************************************************)
(* What the Engine protocol of engines/base.py promises whoever drives it, *)
(* and nothing of how: requests are submitted; a step returns one more     *)
(* token for some of those that are not over; a request is over with the   *)
(* token that stops it or exhausts its budget, and is never heard of       *)
(* again.  One engine and a router over a fleet of them promise the same.  *)
(***************************************************************************)
EXTENDS Integers, Sequences, SequencesExt

CONSTANTS Requests, Vocab, StopTokens, MaxTokens

VARIABLES
    asked,      \* the requests submitted
    heard,      \* the tokens the caller has received for each
    over        \* the requests whose last output said finished

serviceVars == <<asked, heard, over>>

\* RequestState.check_finished, after a token was appended to s.
Ends(r, s) == Last(s) \in StopTokens[r] \/ Len(s) >= MaxTokens[r]

ServiceInit == /\ asked = {} /\ over = {}
               /\ heard = [r \in Requests |-> <<>>]

Ask(r) == /\ r \notin asked
          /\ asked' = asked \cup {r} /\ UNCHANGED <<heard, over>>

\* One step: everybody in S receives its next token.
Serve(S) ==
    /\ \E token \in [S -> Vocab] :
           heard' = [r \in Requests |->
                        IF r \in S THEN Append(heard[r], token[r]) ELSE heard[r]]
    /\ over' = over \cup {r \in S : Ends(r, heard'[r])}
    /\ UNCHANGED asked

ServiceNext == \/ \E r \in Requests : Ask(r)
               \/ \E S \in SUBSET (asked \ over) : Serve(S)

ServiceSpec == ServiceInit /\ [][ServiceNext]_serviceVars

================================================================================
