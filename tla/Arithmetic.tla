-------------------------------- MODULE Arithmetic --------------------------------
(***************************************************************************)
(* The book predicts before it measures.  The closed forms whose subject is *)
(* something this code does are set against it here, done a step at a time: *)
(* a model is built layer by layer, an adapter fitted, an engine runs its   *)
(* passes.                                                                  *)
(***************************************************************************)
EXTENDS Integers, Sequences

CONSTANTS
    Models,             \* ModelConfig: vocab_size, n_layers, n_heads, n_kv_heads, head_dim, ffn_mult
    Element,            \* BYTES_PER_DTYPE[model.dtype]
    Sizes               \* of prompts, outputs and ranks

ASSUME ArithmeticAssumption ==
    /\ Element \in Nat \ {0} /\ Sizes \subseteq Nat \ {0}
    \* ModelConfig.__post_init__
    /\ \A m \in Models : m.n_heads % m.n_kv_heads = 0

VARIABLES
    figure,             \* what is predicted
    model, a, b,        \* of which model, and for which two sizes
    doing,              \* what the work is at, as the figure has it
    tally,              \* what it came to so far
    complete

arithmeticVars == <<figure, model, a, b, doing, tally, complete>>

Figures == {"params", "adapter", "passes"}

--------------------------------------------------------------------------------

\* ModelConfig
d_model(m) == m.n_heads * m.head_dim
kv_dim(m) == m.n_kv_heads * m.head_dim
hidden(m) == m.ffn_mult * d_model(m)

\* A variant that takes every head to have keys and values of its own.
n_params_ungrouped(m) ==
    LET d == d_model(m)
        per_layer == 4 * d * d + 3 * d * hidden(m) + 2 * d
    IN m.n_layers * per_layer + 2 * m.vocab_size * d + d

n_params(m) ==
    LET d == d_model(m)
        per_layer == d * d + 2 * d * kv_dim(m) + d * d + 3 * d * hidden(m) + 2 * d
    IN m.n_layers * per_layer + 2 * m.vocab_size * d + d

\* naive_decode_flops and cached_decode_flops, in passes of a token.
naive_decode_tokens(prompt, n) == (n + 1) * prompt + (n * (n + 1)) \div 2
cached_decode_tokens(prompt, n) == prompt + n

\* lora.py: adapter_bytes for the targets q_proj and v_proj.
adapter_bytes(m, rank) ==
    (rank * (d_model(m) + d_model(m)) + rank * (d_model(m) + kv_dim(m))) * m.n_layers * Element

--------------------------------------------------------------------------------

Linear(from, to) == from * to

ArithmeticInit ==
    /\ figure \in Figures /\ model \in Models /\ a \in Sizes /\ b \in Sizes
    /\ doing = <<0, 0>>
    /\ tally = 0
    /\ complete = FALSE

Work(part) == figure = part /\ ~complete /\ UNCHANGED <<figure, model, a, b>>

\* TinyGPT.__init__: a Block, with its Attention, its MLP and its two norms;
\* the embedding, the last norm and the head are there from the start.
BuildBlock ==
    /\ Work("params")
    /\ LET d == d_model(model)
           attention == Linear(d, d) + Linear(d, kv_dim(model)) + Linear(d, kv_dim(model)) + Linear(d, d)
           mlp == Linear(d, hidden(model)) + Linear(d, hidden(model)) + Linear(hidden(model), d)
           around == Linear(model.vocab_size, d) + d + Linear(d, model.vocab_size)
       IN tally' = tally + attention + mlp + d + d + (IF doing[1] = 0 THEN around ELSE 0)
    /\ doing' = [doing EXCEPT ![1] = @ + 1]
    /\ complete' = (doing'[1] = model.n_layers)

\* NaiveEngine.step and CachedEngine's for the same request, a tokens of prompt
\* and b of answer: what either model is run on.
RunPass ==
    /\ Work("passes")
    /\ tally' = tally + a + doing[1]
    /\ doing' = <<doing[1] + 1, doing[2] + (IF doing[1] = 0 THEN a ELSE 1)>>
    /\ complete' = (doing'[1] = b)

\* make_adapter: of each layer, the projections that are targets.
FitAdapter ==
    /\ Work("adapter")
    /\ LET attention == [q_proj |-> <<d_model(model), d_model(model)>>,
                         k_proj |-> <<d_model(model), kv_dim(model)>>,
                         v_proj |-> <<d_model(model), kv_dim(model)>>]
           thin(target) == Linear(attention[target][1], a) + Linear(a, attention[target][2])
       IN tally' = tally + thin("q_proj") + thin("v_proj")
    /\ doing' = [doing EXCEPT ![1] = @ + 1]
    /\ complete' = (doing'[1] = model.n_layers)

ArithmeticNext == BuildBlock \/ FitAdapter \/ RunPass

--------------------------------------------------------------------------------

Done(part) == figure = part /\ complete

\* The parameters a prediction is made from, and the bytes an adapter is said
\* to take, are those of the modules that are built, whatever heads share keys
\* and values.
FootprintsExact ==
    /\ Done("params") => tally = n_params(model)
    /\ Done("adapter") => tally * Element = adapter_bytes(model, a)

\* "where every step redoes the whole prefix. Chapter 1's engine pays this":
\* what the two closed forms say of a request is what the engines run.  Both
\* count a pass more, over the last token, which no engine makes.
PassesPredicted ==
    Done("passes") => /\ naive_decode_tokens(a, b) = tally
                      /\ cached_decode_tokens(a, b) = doing[2]

================================================================================
