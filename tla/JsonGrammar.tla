------------------------------ MODULE JsonGrammar ------------------------------
(***************************************************************************)
(* JSONGrammar of constrain.py, and the loop of bench/run_constrained.py   *)
(* that decodes under it with a budget.  A byte stands for its class: the  *)
(* six that mean something outside a string, the others only inside one.   *)
(***************************************************************************)
EXTENDS Integers, Sequences, SequencesExt, FiniteSetsExt

CONSTANTS
    StringBytes,    \* the classes a string may contain: STRING_BYTES
    MaxText         \* n, the token budget

ASSUME GrammarAssumption ==
    /\ StringBytes \subseteq {"colon", "comma", "open", "close", "space", "other"}
    /\ MaxText \in Nat

VARIABLES
    state,      \* State, while _generate runs and when it returns
    text        \* produced

grammarVars == <<state, text>>

--------------------------------------------------------------------------------

\* A variant that lets a value begin without its colon.
AllowedEarly(s) ==
    CASE s = "START" -> {"open"}
      [] s = "EXPECT_KEY_OR_END" -> {"quote", "close", "space"}
      [] s \in {"IN_KEY", "IN_VALUE"} -> StringBytes \cup {"quote"}
      [] s = "EXPECT_COLON" -> {"colon", "space", "close"}
      [] s = "EXPECT_VALUE_START" -> {"quote", "space"}
      [] s = "EXPECT_COMMA_OR_END" -> {"comma", "close", "space"}
      [] OTHER -> {}

\* allowed_bytes, which is what the mask of a state lets through.
Allowed(s) ==
    CASE s = "START" -> {"open"}
      [] s = "EXPECT_KEY_OR_END" -> {"quote", "close", "space"}
      [] s \in {"IN_KEY", "IN_VALUE"} -> StringBytes \cup {"quote"}
      [] s = "EXPECT_COLON" -> {"colon", "space"}
      [] s = "EXPECT_VALUE_START" -> {"quote", "space"}
      [] s = "EXPECT_COMMA_OR_END" -> {"comma", "close", "space"}
      [] OTHER -> {}

\* build_mask: the vocabulary under the grammar.  apply() leaves nothing else
\* to sample from.
Mask(s) == Allowed(s) \cup IF s = "DONE" THEN {"eos"} ELSE {}

\* step(): a byte without an arrow of its own leaves the state.
Advanced(s, byte) ==
    CASE s = "START" -> "EXPECT_KEY_OR_END"
      [] s = "EXPECT_KEY_OR_END" /\ byte = "quote" -> "IN_KEY"
      [] s = "IN_KEY" /\ byte = "quote" -> "EXPECT_COLON"
      [] s = "EXPECT_COLON" /\ byte = "colon" -> "EXPECT_VALUE_START"
      [] s = "EXPECT_VALUE_START" /\ byte = "quote" -> "IN_VALUE"
      [] s = "IN_VALUE" /\ byte = "quote" -> "EXPECT_COMMA_OR_END"
      [] s = "EXPECT_COMMA_OR_END" /\ byte = "comma" -> "EXPECT_KEY_OR_END"
      [] s \in {"EXPECT_KEY_OR_END", "EXPECT_COMMA_OR_END"} /\ byte = "close" -> "DONE"
      [] OTHER -> s

GrammarInit == state = "START" /\ text = <<>>

\* One iteration of _generate: it returns in DONE, or with the budget spent.
EmitByte ==
    /\ state # "DONE" /\ Len(text) < MaxText
    /\ \E byte \in Mask(state) :
           /\ text' = Append(text, byte)
           /\ state' = Advanced(state, byte)

GrammarNext == EmitByte

--------------------------------------------------------------------------------
(***************************************************************************)
(* JSON itself, read off the whole text with no machine: take the strings  *)
(* out, then the space; an object of string pairs is a brace, members      *)
(* "S : S" with commas between them, and a brace.                          *)
(***************************************************************************)

QuotesBefore(t, i) == Cardinality({j \in 1 .. i - 1 : t[j] = "quote"})

\* Outside every string, or the quote that opens one.
Skeleton(t) ==
    LET kept == {i \in 1 .. Len(t) : QuotesBefore(t, i) % 2 = 0 /\ t[i] # "space"}
    IN [k \in 1 .. Cardinality(kept) |->
            t[CHOOSE i \in kept : Cardinality({j \in kept : j <= i}) = k]]

Member(k) == <<"quote", "colon", "quote", "comma">>[((k - 2) % 4) + 1]

Closed(t) == QuotesBefore(t, Len(t) + 1) % 2 = 0

\* json.loads(text) returns a dict.
IsObject(t) ==
    LET s == Skeleton(t)
    IN /\ Closed(t) /\ Len(s) >= 2 /\ s[1] = "open" /\ Last(s) = "close"
       /\ \A k \in 2 .. Len(s) - 1 : s[k] = Member(k)
       /\ Len(s) = 2 \/ Len(s) % 4 = 1

\* What may follow from each state to end the object at once.
Ending == [START |-> <<"open", "close">>,
           EXPECT_KEY_OR_END |-> <<"quote", "quote", "colon", "quote", "quote", "close">>,
           IN_KEY |-> <<"quote", "colon", "quote", "quote", "close">>,
           EXPECT_COLON |-> <<"colon", "quote", "quote", "close">>,
           EXPECT_VALUE_START |-> <<"quote", "quote", "close">>,
           IN_VALUE |-> <<"quote", "close">>,
           EXPECT_COMMA_OR_END |-> <<"close">>]

\* The mask never leads into a dead end, and never holds up an object that is
\* whole: before DONE the text is no object yet, which is what a spent budget
\* leaves, and the bytes that end it at once make it one.
NeverADeadEnd ==
    state # "DONE" => ~IsObject(text) /\ IsObject(text \o Ending[state])

\* "Invalid output stops being unlikely and becomes unreachable": what _generate
\* returns in DONE parses.  A comma leads back to the state that may also close.
InvalidIsUnreachable == state = "DONE" => IsObject(text)

================================================================================
