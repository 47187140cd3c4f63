-------------------------------- MODULE Quantised --------------------------------
(***************************************************************************)
(* The schemes of quant.py: a matrix of whole weights is stored as levels, *)
(* one scale for each group of them, and restored.  A scale is the largest *)
(* magnitude of its group over Levels, so that with the numerator kept     *)
(* everything is exact.  A QuantizedLinear holds one such matrix.           *)
(***************************************************************************)
EXTENDS Integers, FiniteSetsExt, FiniteSets

CONSTANTS
    NOut, NIn,          \* the shape of the matrix
    Weights,
    LevelsOf,           \* scheme -> 127 or 7
    GroupSize,          \* group_size
    ElementSize         \* bytes of a weight, and of a scale

Schemes == {"per_tensor", "per_channel", "grouped", "kv"}

ASSUME QuantisedAssumption ==
    /\ NIn % GroupSize = 0      \* or ValueError
    /\ LevelsOf \in [Schemes -> Nat \ {0}]

VARIABLES
    weight, scheme,
    quantised,      \* the levels
    scale           \* times Levels: absmax of the group; 0 is clamped to 1e-12

quantisedVars == <<weight, scheme, quantised, scale>>

--------------------------------------------------------------------------------

Cells == (1 .. NOut) \X (0 .. NIn - 1)
Magnitude(x) == IF x < 0 THEN -x ELSE x
Levels == LevelsOf[scheme]

\* Which weights share a scale with w.  quantize_kv has one per head, the last
\* dimension, as the channels have.
SharesScale(w) ==
    CASE scheme = "per_tensor" -> Cells
      [] scheme \in {"per_channel", "kv"} -> {v \in Cells : v[1] = w[1]}
      [] scheme = "grouped" ->
             {v \in Cells : v[1] = w[1] /\ v[2] \div GroupSize = w[2] \div GroupSize}

\* A variant that cuts the fraction off.
RoundedDown(n, d) == n \div d

\* round(): to the nearest, and a half to the even neighbour.
Rounded(n, d) ==
    LET low == n \div d
        twice == 2 * (n % d)
    IN IF twice < d \/ (twice = d /\ low % 2 = 0) THEN low ELSE low + 1

QuantisedInit == /\ weight \in [Cells -> Weights] /\ scheme \in Schemes
                 /\ quantised = <<>> /\ scale = <<>>

\* quantize_int8_symmetric, quantize_int8_per_tensor, quantize_int4_grouped and
\* quantize_kv; the clamp of the levels never bites.
Quantise ==
    /\ quantised = <<>>
    /\ scale' = [w \in Cells |-> Max({Magnitude(weight[v]) : v \in SharesScale(w)})]
    /\ quantised' = [w \in Cells |->
           IF scale'[w] = 0 THEN 0
           ELSE Max({-Levels, Min({Levels, Rounded(weight[w] * Levels, scale'[w])})})]
    /\ UNCHANGED <<weight, scheme>>

QuantisedNext == Quantise

\* dequantize and dequantize_int4_grouped, times Levels.
Restored(w) == quantised[w] * scale[w]

Bits == IF scheme = "grouped" THEN 4 ELSE 8

\* quantised.numel() and scale.numel() of QuantizedLinear.__init__
NWeights == NOut * NIn
NScales == Cardinality({SharesScale(w) : w \in Cells})

stored_bytes == (NWeights * Bits) \div 8 + NScales * ElementSize

\* quantization_error: QuantStats, of which the ratio is the original to this.
quantised_bytes == (NWeights * Bits) \div 8

--------------------------------------------------------------------------------

\* A weight comes back no further than half a step of its own group's scale,
\* whatever outliers the other groups have; the largest of a group and zero
\* come back exactly, and no two weights of a group change places.
RoundTripBounded ==
    quantised # <<>> =>
        \A w \in Cells :
            /\ 2 * Magnitude(weight[w] * Levels - Restored(w)) <= scale[w]
            /\ weight[w] = 0 \/ Magnitude(weight[w]) = scale[w] => Restored(w) = weight[w] * Levels
            /\ \A v \in SharesScale(w) : weight[v] <= weight[w] => Restored(v) <= Restored(w)

\* "Scales are stored per channel or per group; counted at full precision": the
\* bytes that a report divides by are those that the module stores.  They are
\* the levels alone.
ScalesCounted ==
    quantised # <<>> /\ scheme # "kv" => quantised_bytes = stored_bytes

================================================================================
