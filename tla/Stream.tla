--------------------------------- MODULE Stream ---------------------------------
(***************************************************************************)
(* StreamingResponse of api.py over IncrementalDetokenizer of              *)
(* tokenizer.py: an engine's token ids become a client's event stream.     *)
(*                                                                         *)
(* A token is a byte, of which only its part in UTF-8 matters, or a        *)
(* special id.  A unit of text is the bytes of one character, or Broken    *)
(* for one replacement character.  Python's codec is modelled from how it  *)
(* is used here.                                                           *)
(***************************************************************************)
EXTENDS Integers, Sequences, SequencesExt, FiniteSetsExt

CONSTANT MaxFed     \* bound on the tokens of one response

Ids == {"ascii", "lead2", "lead3", "cont", "bad", "special"}
Broken == <<"broken">>

VARIABLES
    fed,            \* every token id given to on_tokens
    undecoded,      \* the bytes the codec holds back
    sent,           \* the events the client was sent
    usage           \* usage.completion_tokens

streamVars == <<fed, undecoded, sent, usage>>

--------------------------------------------------------------------------------
(* codecs.getincrementaldecoder("utf-8")("replace"), one byte at a time. *)

Size(byte) == CASE byte = "lead2" -> 2 [] byte = "lead3" -> 3 [] OTHER -> 1

\* A byte that nothing waits for.
Fresh(byte) ==
    CASE byte = "ascii" -> [held |-> <<>>, text |-> <<<<byte>>>>]
      [] byte \in {"lead2", "lead3"} -> [held |-> <<byte>>, text |-> <<>>]
      [] OTHER -> [held |-> <<>>, text |-> <<Broken>>]

\* What the codec holds and lets out once it has seen byte: a character is let
\* out whole, and one that is cut short by a byte of another as Broken.
Decoded(pending, byte) ==
    IF pending = <<>> THEN Fresh(byte)
    ELSE IF byte # "cont" THEN [Fresh(byte) EXCEPT !.text = <<Broken>> \o @]
    ELSE IF Len(pending) + 1 = Size(pending[1])
    THEN [held |-> <<>>, text |-> <<Append(pending, byte)>>]
    ELSE [held |-> Append(pending, byte), text |-> <<>>]

--------------------------------------------------------------------------------

\* A variant of append() that resets the codec on a special id.
AppendedReset(d, id) ==
    IF id = "special" THEN [d EXCEPT !.held = <<>>]
    ELSE LET next == Decoded(d.held, id)
         IN [held |-> next.held, text |-> d.text \o next.text]

\* IncrementalDetokenizer.append: special ids carry no text.
Appended(d, id) ==
    IF id = "special" THEN d
    ELSE LET next == Decoded(d.held, id)
         IN [held |-> next.held, text |-> d.text \o next.text]

\* chunk_event: a delta, the units of text in it, and the finish_reason if any.
ChunkEvent(delta, finish_reason) == [delta |-> delta, finish_reason |-> finish_reason]

\* done_event
DoneEvent == [delta |-> <<>>, finish_reason |-> "[DONE]"]

\* No text makes no event.
TextEvents(text) == IF text = <<>> THEN <<>> ELSE <<ChunkEvent(text, "none")>>

StreamInit == fed = <<>> /\ undecoded = <<>> /\ sent = <<>> /\ usage = 0

\* The engine says nothing of a request after its end.
Open == DoneEvent \notin Range(sent)

\* One StepOutput: on_tokens() with its token_ids, one or more of them, and
\* on_finish() after the last.
OnTokens(ids) ==
    /\ Open /\ Len(fed) + Len(ids) <= MaxFed
    /\ LET d == FoldLeft(Appended, [held |-> undecoded, text |-> <<>>], ids)
       IN undecoded' = d.held /\ sent' = sent \o TextEvents(d.text)
    /\ fed' = fed \o ids /\ usage' = usage + Len(ids)

\* finalize() lets a character that was cut short out as Broken.
OnFinish ==
    /\ Open
    /\ sent' = sent \o TextEvents(IF undecoded = <<>> THEN <<>> ELSE <<Broken>>)
                    \o <<ChunkEvent(<<>>, "stop"), DoneEvent>>
    /\ undecoded' = <<>>
    /\ UNCHANGED <<fed, usage>>

StreamNext == \/ \E ids \in UNION {[1 .. n -> Ids] : n \in 1 .. 2} : OnTokens(ids)
              \/ OnFinish

--------------------------------------------------------------------------------
(* ByteTokenizer.decode of a complete response, read off its bytes at once. *)

Payload == SelectSeq(fed, LAMBDA id : id # "special")

\* The bytes from i on that belong to the character begun there.
Reach(i) == Max({n \in 1 .. Min({Size(Payload[i]), Len(Payload) - i + 1}) :
                    \A j \in i + 1 .. i + n - 1 : Payload[j] = "cont"})

UnitAt(i) == IF Payload[i] # "bad" /\ Payload[i] # "cont" /\ Reach(i) = Size(Payload[i])
             THEN SubSeq(Payload, i, i + Reach(i) - 1) ELSE Broken

Starts == {i \in 1 .. Len(Payload) : \A h \in 1 .. i - 1 : h + Reach(h) <= i}

Whole == [k \in 1 .. Cardinality(Starts) |->
             UnitAt(CHOOSE i \in Starts : Cardinality({h \in Starts : h <= i}) = k)]

\* What the client has read, event after event.
Read == FlattenSeq([i \in DOMAIN sent |-> sent[i].delta])

\* However the tokens are cut into outputs, the client can be cut off at any
\* moment and, with the flush, has read exactly what decoding the whole
\* response gives: nothing it was sent is ever revised, and no event comes
\* without text but the two that end the stream.  Usage counts every token,
\* with text or without.
StreamedWhole ==
    /\ Read \o (IF undecoded = <<>> THEN <<>> ELSE <<Broken>>) = Whole
    /\ usage = Len(fed)
    /\ \A i \in DOMAIN sent : sent[i].delta = <<>> => ~Open /\ i > Len(sent) - 2

================================================================================
