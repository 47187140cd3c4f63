---------------------------------- MODULE Traces ----------------------------------
(***************************************************************************)
(* bench/traces.py, and make_poisson_trace of bench/harness.py: what the   *)
(* workloads are made of.  A generator draws a request at a time, when it  *)
(* comes and what it says; the load generators put the requests in order   *)
(* of arrival and make up the text of those that only have a length.       *)
(* What matters of a text is how much of it another request begins with:   *)
(* that is all a prefix cache has to reuse.                                *)
(***************************************************************************)
EXTENDS Integers, Sequences, SequencesExt, FiniteSetsExt, Functions

CONSTANTS
    NDrawn,             \* n_requests
    Gaps,               \* what rng.exponential draws, in ticks
    Questions,          \* the texts it draws for a user
    SystemPrompt,       \* SYSTEM_PROMPT
    TenantPrompts,      \* TENANT_PROMPTS, repeat times each
    RagSystem, NChunks, ChunkTokens, NPassages,      \* of the corpus
    AgentPreamble, TurnTokens, HistoryTurns,
    NBuffers, PrefixLen,                        \* files under the cursor
    Lengths,            \* of the prompts drawn as a length
    QuietTenants, QuietRequests, Burst, BurstAt, NoisyTenant,
    QuietPrompt, BurstPrompt,
    ShortPrompt,        \* SHORT_PROMPT of bench/run_rag.py
    RoleOpen, RoleClose, GenerationPrompt,  \* ChatTemplate, as tokens
    Period, Cycle,      \* 200 and 250: where the made up texts repeat
    CacheBlock          \* block_size of the engine that is measured

\* chunk i of the corpus, a turn of a transcript and a buffer, from their first token.
Pattern(first, length) == [j \in 1 .. length |-> (first + j - 1) % Period]
ChunkText(i) == Pattern(i * 7, ChunkTokens)
Turn(t) == Pattern(t * 31, TurnTokens)
Buffer(b) == Pattern(b * 13, PrefixLen)

\* How much of a text another begins with.
SharedLen(a, b) ==
    Max({n \in 0 .. Min({Len(a), Len(b)}) : SubSeq(a, 1, n) = SubSeq(b, 1, n)})

Begins(a, b) == SharedLen(a, b) = Len(a)

ASSUME TracesAssumption ==
    /\ NDrawn \in Nat \ {0} /\ Gaps \subseteq Nat \ {0} /\ Lengths \subseteq Nat \ {0}
    /\ ChunkTokens \in Nat \ {0} /\ PrefixLen \in Nat \ {0} /\ NPassages \in 1 .. NChunks
    /\ \A i, k \in 0 .. NChunks - 1 : ChunkText(i)[1] = ChunkText(k)[1] => i = k
    /\ \A t, u \in DOMAIN TenantPrompts :
           t # u => ~Begins(TenantPrompts[t], TenantPrompts[u])
    /\ \A b, c \in 0 .. NBuffers - 1 : Buffer(b)[1] = Buffer(c)[1] => b = c

VARIABLES
    shape,              \* which generator runs
    specs,              \* list of RequestSpec, and what each was drawn as
    transcripts         \* of make_session_turns

tracesVars == <<shape, specs, transcripts>>

Templates == {"stable", "per-request value", "system prompt last"}

Shapes == {"chat", "lengths", "offline", "tenants", "noisy", "rag", "agent", "completion",
           "sessions", "mixed"} \cup Templates

--------------------------------------------------------------------------------

NoTokens == <<-1>>      \* tokens = None
NoTenant == ""            \* tenant = None

WithTokens(arrival, tokens, drawn, question) ==
    [arrival |-> arrival, prompt_len |-> Len(tokens), tokens |-> tokens, tenant |-> NoTenant,
     drawn |-> drawn, question |-> question]

LengthOnly(arrival, length, tenant) ==
    [arrival |-> arrival, prompt_len |-> length, tokens |-> NoTokens, tenant |-> tenant,
     drawn |-> <<>>, question |-> <<>>]

\* The prompt that the harness sends.
PromptOf(spec) == IF spec.tokens # NoTokens THEN spec.tokens
                ELSE [i \in 1 .. spec.prompt_len |-> ((i - 1) % Cycle) + 1]

\* np.cumsum of the gaps, a request at a time.
LastArrival == IF specs = <<>> THEN 0 ELSE Last(specs).arrival

TracesInit ==
    /\ shape \in Shapes
    /\ specs = <<>>
    /\ transcripts = [s \in 1 .. 2 |-> SystemPrompt]

\* A variant in which the question comes before what everybody's prompt has.
PreambleLast(preamble, question) == question \o preamble

PreambleFirst(preamble, question) == preamble \o question

Passages == {p \in [1 .. NPassages -> 0 .. NChunks - 1] : IsInjective(p)}

\* make_rag_trace: the instruction, the passages as they were retrieved, the question.
RagText(retrieved, question) ==
    PreambleFirst(RagSystem \o FlattenSeq([k \in 1 .. NPassages |-> ChunkText(retrieved[k])]), question)

CompletionText(buffer, suffix) == PreambleFirst(Buffer(buffer), suffix)

Draw(spec) == specs' = Append(specs, spec) /\ UNCHANGED <<shape, transcripts>>

DrawChat(arrival, question) ==
    /\ shape = "chat"
    /\ Draw(WithTokens(arrival, PreambleFirst(SystemPrompt, question), <<>>, question))

DrawTenant(arrival, tenant, question) ==
    /\ shape = "tenants"
    /\ Draw(WithTokens(arrival, PreambleFirst(TenantPrompts[tenant], question), tenant, question))

DrawRag(arrival, retrieved, question) ==
    /\ shape = "rag"
    /\ Draw(WithTokens(arrival, RagText(retrieved, question), retrieved, question))

DrawAgent(arrival, n_turns) ==
    /\ shape = "agent"
    /\ Draw(WithTokens(arrival, AgentPreamble \o FlattenSeq([t \in 1 .. n_turns |-> Turn(t - 1)]),
                       n_turns, <<>>))

DrawCompletion(arrival, buffer, suffix) ==
    /\ shape = "completion"
    /\ Draw(WithTokens(arrival, CompletionText(buffer, suffix), buffer, suffix))

\* make_poisson_trace, make_mixed_prompt_trace
DrawLength(arrival, length) ==
    /\ shape = "lengths"
    /\ Draw(LengthOnly(arrival, length, NoTenant))

\* make_offline_batch_trace: no arrivals.
DrawOffline(length) ==
    /\ shape = "offline"
    /\ Draw(LengthOnly(0, length, NoTenant))

\* make_noisy_neighbour_trace: each quiet tenant's, from its own time 0, then
\* the burst.
NQuiet == Len(QuietTenants) * QuietRequests

DrawNoisy(gap) ==
    LET n == Len(specs)
    IN /\ shape = "noisy" /\ n < NQuiet + Burst
       /\ Draw(IF n < NQuiet
               THEN LengthOnly((IF n % QuietRequests = 0 THEN 0 ELSE LastArrival) + gap, QuietPrompt,
                               QuietTenants[n \div QuietRequests + 1])
               ELSE LengthOnly(BurstAt + n - NQuiet, BurstPrompt, NoisyTenant))

\* _mixed_trace of bench/run_rag.py: all of one generator's, then all of the
\* other's, which starts from time 0 as well.  Passages and files go by the
\* place in the trace here, each drawn more than once.
DrawMixed(gap, question) ==
    LET n == Len(specs)
        arrival == (IF n = NDrawn THEN 0 ELSE LastArrival) + gap
    IN /\ shape = "mixed" /\ n < 2 * NDrawn
       /\ Draw(IF n < NDrawn
               THEN LET retrieved == [k \in 1 .. NPassages |-> ((n \div 2) + k) % NChunks]
                    IN WithTokens(arrival, RagText(retrieved, question), retrieved, question)
               ELSE LET buffer == (n \div 2) % NBuffers
                    IN WithTokens(arrival, CompletionText(buffer, question), buffer, question))

(* bench/run_api.py asks the turns of sessions through the chat API. *)

\* ChatTemplate.render
Render(messages) ==
    FlattenSeq([i \in DOMAIN messages |->
                   RoleOpen[messages[i].role] \o messages[i].content \o RoleClose])
        \o GenerationPrompt

\* _messages: the template's variant, with the minute in it or not.
Messages(turn_index, transcript) ==
    LET minute == IF shape = "per-request value" THEN <<100 + turn_index>> ELSE <<>>
        system == [role |-> "system", content |-> minute \o SystemPrompt]
        conversation == [role |-> "user", content |-> transcript]
    IN IF shape = "system prompt last" THEN <<conversation, system>> ELSE <<system, conversation>>

\* What to_engine_request() makes of a turn; make_session_turns alone leaves
\* it as it is.
SentAs(turn_index, transcript) ==
    IF shape \in Templates THEN Render(Messages(turn_index, transcript)) ELSE transcript

\* The next session's turn, asked with all that was said; the reply goes into
\* the transcript after.
DrawTurn(user, reply) ==
    LET s == (Len(specs) % Len(transcripts)) + 1
        asked == transcripts[s] \o user
        turn_index == Len(specs) \div Len(transcripts)
    IN /\ shape \in Templates \cup {"sessions"}
       /\ specs' = Append(specs, WithTokens(0, SentAs(turn_index, asked), s, user))
       /\ transcripts' = [transcripts EXCEPT ![s] = asked \o reply]
       /\ UNCHANGED shape

DrawOne(gap, question) ==
    LET arrival == LastArrival + gap
    IN \/ DrawChat(arrival, question)
       \/ \E t \in DOMAIN TenantPrompts : DrawTenant(arrival, t, question)
       \/ \E p \in Passages : DrawRag(arrival, p, question)
       \/ \E n \in HistoryTurns : DrawAgent(arrival, n)
       \/ \E b \in 0 .. NBuffers - 1 : DrawCompletion(arrival, b, question)
       \/ \E l \in Lengths : DrawLength(arrival, l) \/ DrawOffline(l)

TracesNext ==
    \/ Len(specs) < NDrawn /\ \E gap \in Gaps, question \in Questions : DrawOne(gap, question)
    \/ Len(specs) < 2 * NDrawn /\ \E user, reply \in Questions : DrawTurn(user, reply)
    \/ \E gap \in Gaps : DrawNoisy(gap)
    \/ \E gap \in Gaps, question \in Questions : DrawMixed(gap, question)

--------------------------------------------------------------------------------

\* pending: the trace in order of arrival, as sorted() leaves equals.
Trace == LET Before(i, k) == \/ specs[i].arrival < specs[k].arrival
                             \/ specs[i].arrival = specs[k].arrival /\ i < k
             order == SortSeq([i \in DOMAIN specs |-> i], Before)
         IN [n \in DOMAIN specs |-> specs[order[n]]]

\* How much two requests were drawn alike: what was asked counts only after
\* the same text, "a prefix cache can only reuse up to the first difference".
AskedAlike(a, b) == SharedLen(a.question, b.question)

RagAlike(a, b) ==
    LET same == SharedLen(a.drawn, b.drawn)
    IN Len(RagSystem) + same * ChunkTokens + IF same = NPassages THEN AskedAlike(a, b) ELSE 0

CompletionAlike(a, b) == IF a.drawn = b.drawn THEN PrefixLen + AskedAlike(a, b) ELSE 0

TenantsAlike(a, b) ==
    LET t == TenantPrompts[a.drawn]
    IN IF a.drawn = b.drawn THEN Len(t) + AskedAlike(a, b)
       ELSE SharedLen(t, TenantPrompts[b.drawn])

\* The first of the two generators of a mixed trace, as they were put together.
Heavy(i) == i <= NDrawn

\* What two requests begin with in common is what the generator drew alike and
\* not a token more; in a mixed trace a long one and a short one have less in
\* common than the instruction.
ShareAsDrawn ==
    \A i, k \in DOMAIN specs :
        LET a == specs[i]
            b == specs[k]
            shared == SharedLen(PromptOf(a), PromptOf(b))
        IN i # k =>
            /\ shape = "chat" => shared = Len(SystemPrompt) + AskedAlike(a, b)
            /\ shape = "tenants" => shared = TenantsAlike(a, b)
            /\ shape = "agent" => shared = Min({a.prompt_len, b.prompt_len})
            /\ shape = "rag" \/ (shape = "mixed" /\ Heavy(i) /\ Heavy(k)) => shared = RagAlike(a, b)
            /\ shape = "completion" \/ (shape = "mixed" /\ ~Heavy(i) /\ ~Heavy(k)) =>
                   shared = CompletionAlike(a, b)
            /\ shape = "mixed" /\ Heavy(i) # Heavy(k) => shared < Len(RagSystem)

Opening(role) == Len(RoleOpen[role])

SystemMessage == Opening("system") + Len(SystemPrompt) + Len(RoleClose)

\* How much of a request is what the next turn of its session repeats: with
\* nothing around it all, in a template all but what closes it.
Repeated(spec) == spec.prompt_len - (IF shape = "sessions" THEN 0
                                     ELSE Len(RoleClose) + Len(GenerationPrompt))

\* A turn repeats at least the turn before it of its session, or with the
\* system prompt last what was said in it, and the system prompt of any other;
\* a value that is new in every turn leaves what is before it and no more.
TurnsGrow ==
    \A i, k \in DOMAIN specs :
        LET shared == SharedLen(specs[i].tokens, specs[k].tokens)
            later == (k - 1) \div Len(transcripts) - (i - 1) \div Len(transcripts)
            session == specs[i].drawn = specs[k].drawn
        IN (i < k /\ shape \in Templates \cup {"sessions"}) =>
            /\ session => specs[i].prompt_len < specs[k].prompt_len
            /\ CASE shape = "per-request value" ->
                       IF later > 0 THEN shared = Opening("system") ELSE shared > SystemMessage
                 [] shape = "system prompt last" ->
                       shared >= IF session THEN Repeated(specs[i]) - SystemMessage
                                 ELSE Opening("user") + Len(SystemPrompt)
                 [] shape = "stable" ->
                       shared >= IF session THEN Repeated(specs[i]) ELSE SystemMessage
                 [] shape = "sessions" ->
                       shared >= IF session THEN Repeated(specs[i]) ELSE Len(SystemPrompt)

\* SHORT_PROMPT, by which a report tells the two halves of a mixed trace apart.
Short(spec) == shape = "mixed" /\ spec.prompt_len <= ShortPrompt

\* A trace comes in order of arrival with nothing lost, and what each tenant
\* sent, or each half of a mixed trace, in the order it was sent in; the drawn
\* workloads share text as drawn and no more, the turns of a session at least
\* what they repeat.  Nothing is said of requests that have only a length.
TraceAsDescribed ==
    /\ \A n \in 1 .. Len(specs) - 1 : Trace[n].arrival <= Trace[n + 1].arrival
    /\ \A from \in {<<s.tenant, Short(s)>> : s \in Range(specs)} :
           LET Theirs(s) == <<s.tenant, Short(s)>> = from
           IN SelectSeq(Trace, Theirs) = SelectSeq(specs, Theirs)
    /\ \A i \in DOMAIN specs : Len(PromptOf(specs[i])) = specs[i].prompt_len
    /\ shape = "mixed" => \A i \in DOMAIN specs : Short(specs[i]) = ~Heavy(i)
    /\ ShareAsDrawn
    /\ TurnsGrow

\* "On the default random trace, prefix caching has nothing to reuse": no two
\* requests drawn as a length begin with the same whole block.  The harness
\* makes their text up, and every one is the beginning of the same text.
NothingToReuse ==
    shape = "lengths" =>
        \A i, k \in DOMAIN specs :
            i # k => SharedLen(PromptOf(specs[i]), PromptOf(specs[k])) < CacheBlock

================================================================================
