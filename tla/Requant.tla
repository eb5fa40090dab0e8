-------------------------------- MODULE Requant --------------------------------
(***************************************************************************)
(* The fixed-point rescaling between two int8 layers.  quantize_multiplier *)
(* (sched/mnist/quantize.py) turns a real multiplier into an integer M0    *)
(* and a shift, once per layer; apply_requant and its C counterpart        *)
(* int8_mlp_requant (sw/int8_mlp.h) multiply every accumulator by them.    *)
(*                                                                         *)
(* The multiplier is the fraction num / den.  With B = 31 the accumulator  *)
(* is an int32 and products are int64; the model keeps that proportion:    *)
(* B + 1 and 2 * (B + 1) bits.                                             *)
(***************************************************************************)
EXTENDS Integers

CONSTANTS B,           \* bits of M0
          ACT_MAX,     \* 127
          Numerators,  \* the multipliers are n / Denominator
          Denominator

\* A ratio of scales, so not negative: 0, or at least 2^-(B+2), from where on
\* the shift is less than the product's width, and at most 2^(B+1), up to where
\* a product fits it.
ASSUME RequantAssumption ==
    /\ B \in Nat \ {0} /\ ACT_MAX \in Nat /\ Denominator \in Nat \ {0}
    /\ Numerators \subseteq Nat
    /\ \A n \in Numerators : \/ n = 0
                             \/ /\ n * 2^(B + 2) >= Denominator
                                /\ n <= Denominator * 2^(B + 1)

VARIABLES qpc,         \* the next operation of quantize_multiplier
          num0,        \* num0 / Denominator: the multiplier asked for
          num, den,    \* m
          M0, shift    \* the result

quantVars == <<qpc, num0, num, den, M0, shift>>

Acc == (-2^B)..(2^B - 1)

\* Two's complement in the width of a product.
WrapProduct(x) ==
    LET width == 2^(2 * (B + 1)) IN ((x + width \div 2) % width) - width \div 2

\* Python's round(n / d).
round(n, d) ==
    LET q == n \div d
        r == n % d
    IN  IF 2 * r > d \/ (2 * r = d /\ q % 2 = 1) THEN q + 1 ELSE q

-------------------------------------------------------------------------------
(* quantize_multiplier                                                     *)

Start ==
    /\ qpc = "start"
    /\ qpc' = IF num = 0 THEN "ready" ELSE "halve"
    /\ M0' = 0 /\ shift' = 0
    /\ UNCHANGED <<num0, num, den>>

Halve ==
    /\ qpc = "halve"
    /\ IF num >= den
       THEN den' = den * 2 /\ shift' = shift + 1 /\ qpc' = qpc
       ELSE qpc' = "double" /\ UNCHANGED <<den, shift>>
    /\ UNCHANGED <<num0, num, M0>>

Double ==
    /\ qpc = "double"
    /\ IF 2 * num < den
       THEN num' = num * 2 /\ shift' = shift - 1 /\ qpc' = qpc
       ELSE qpc' = "round" /\ UNCHANGED <<num, shift>>
    /\ UNCHANGED <<num0, den, M0>>

\* Rounding up to 2^B would not fit M0.
Rounded(q, sh) == IF q = 2^B THEN <<q \div 2, sh + 1>> ELSE <<q, sh>>

Round ==
    /\ qpc = "round" /\ qpc' = "ready"
    /\ LET r == Rounded(round(num * 2^B, den), shift)
       IN  M0' = r[1] /\ shift' = r[2]
    /\ UNCHANGED <<num0, num, den>>

QuantizeMultiplier == Start \/ Halve \/ Double \/ Round

QuantInit ==
    /\ qpc = "start" /\ num0 \in Numerators /\ num = num0 /\ den = Denominator
    /\ M0 = 0 /\ shift = 0

-------------------------------------------------------------------------------
(* Rescaling and saturation of one accumulator.                            *)

round_val_Missing(rs) == 0

round_val(rs) == IF rs > 0 THEN 2^(rs - 1) ELSE 0

\* x >> rs is the floor, also of a negative x.
requant(x) ==
    LET prod == WrapProduct(x * M0)
        rs == B - shift
    IN  IF rs >= 0 THEN WrapProduct(prod + round_val(rs)) \div 2^rs
                   ELSE WrapProduct(prod * 2^(-rs))

clip(x, lo, hi) == IF x < lo THEN lo ELSE IF x > hi THEN hi ELSE x

clip_relu(x) == clip(x, 0, ACT_MAX)

-------------------------------------------------------------------------------
(* Properties.                                                             *)

Abs(x) == IF x < 0 THEN -x ELSE x

\* M0 has B significant bits and fits the int32 of int8_mlp_weights.
IsNormalised == IF num0 = 0 THEN M0 = 0 ELSE M0 \in 2^(B - 1)..(2^B - 1)

\* v is x times the multiplier asked for, rounded to nearest, but for the half
\* unit in the last place of M0: |v - x * m| <= 1/2 + |x| * 2^(shift - B - 1).
\* Both sides are multiplied by 2 * Denominator * 2^E to stay in the integers.
IsRounded(v, x) ==
    LET E == 2 * B + 4
    IN  Abs(v * Denominator - x * num0) * 2^(E + 1)
            <= Denominator * 2^E + 2 * Denominator * Abs(x) * 2^(E + shift - B - 1)
===============================================================================
