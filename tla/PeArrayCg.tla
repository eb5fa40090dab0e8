------------------------------- MODULE PeArrayCg ------------------------------
(***************************************************************************)
(* The clock-gated array rtl/cg/systolic_array_cg.sv of rtl/cg/pe_cg.sv    *)
(* beside the plain array rtl/systolic_array.sv of rtl/pe.sv.  Both get    *)
(* the same activations, except that where the gated array is told a row   *)
(* is idle the plain one is fed a zero.  One step is one clock edge.       *)
(*                                                                         *)
(* Data is symbolic: an activation is a member of Act or Zero, the weight  *)
(* of PE (r, c) is the generation in which it was loaded, and a partial    *)
(* sum is the sequence of the products <<row, activation, weight>> added   *)
(* into it.  A product with a zero factor adds nothing.                    *)
(***************************************************************************)
EXTENDS Integers, Sequences

CONSTANTS N,       \* rows and columns
          Act,     \* nonzero activations
          Gen,     \* weight tiles that can be loaded
          Toggle   \* may a row's act_valid change from cycle to cycle?

ASSUME CgAssumption == N \in Nat \ {0} /\ Toggle \in BOOLEAN

Lane == 0..(N - 1)
Zero == <<>>    \* the zero byte; other elements are tuples

VARIABLES weight,            \* the weight tile in the PEs (both arrays)
          row_valid,         \* act_valid_in of each row in this cycle
          act, valid, psum,  \* gated array: act_out, act_valid_out, psum_out
          ref_act, ref_psum  \* plain array: act_out, psum_out

vars == <<weight, row_valid, act, valid, psum, ref_act, ref_psum>>

Mac(sum, r, a, w) == IF a = Zero \/ w = Zero THEN sum ELSE Append(sum, <<r, a, w>>)

-------------------------------------------------------------------------------
(* Inputs of PE (r, c), with in the activations entering column 0.         *)

act_in(in, r, c) == IF c = 0 THEN in[r] ELSE act[r][c - 1]
valid_in(r, c) == IF c = 0 THEN row_valid[r] ELSE valid[r][c - 1]
psum_in(r, c) == IF r = 0 THEN <<>> ELSE psum[r - 1][c]

act_isolated_Off(in, r, c) == act_in(in, r, c)

\* Operand isolation: an idle PE multiplies zero.
act_isolated(in, r, c) == IF valid_in(r, c) THEN act_in(in, r, c) ELSE Zero

\* The act and act_valid flops are on the gated clock: without act_valid
\* they do not see the edge.
GatedEdge(in) ==
    /\ psum' = [r \in Lane |-> [c \in Lane |->
                   Mac(psum_in(r, c), r, act_isolated(in, r, c), weight)]]
    /\ act' = [r \in Lane |-> [c \in Lane |->
                   IF valid_in(r, c) THEN act_in(in, r, c) ELSE act[r][c]]]
    /\ valid' = [r \in Lane |-> [c \in Lane |-> valid_in(r, c) \/ valid[r][c]]]

ref_in(in, r, c) == IF c > 0 THEN ref_act[r][c - 1]
                    ELSE IF row_valid[r] THEN in[r] ELSE Zero
ref_psum_in(r, c) == IF r = 0 THEN <<>> ELSE ref_psum[r - 1][c]

PlainEdge(in) ==
    /\ ref_psum' = [r \in Lane |-> [c \in Lane |->
                       Mac(ref_psum_in(r, c), r, ref_in(in, r, c), weight)]]
    /\ ref_act' = [r \in Lane |-> [c \in Lane |-> ref_in(in, r, c)]]

\* The next cycle's validity: free, or, as in the scenarios of
\* sim/power/tb_power.cpp, fixed for the whole run.
NextValid == IF Toggle THEN [Lane -> BOOLEAN] ELSE {row_valid}

\* An edge with weight_load low.
Clock(in) ==
    /\ GatedEdge(in) /\ PlainEdge(in)
    /\ row_valid' \in NextValid
    /\ UNCHANGED weight

\* An edge with weight_load high; this edge's products still use the old tile.
Load(in, g) ==
    /\ GatedEdge(in) /\ PlainEdge(in)
    /\ row_valid' \in NextValid
    /\ weight' = g

Grid(x) == [r \in Lane |-> [c \in Lane |-> x]]

\* The gated clock runs during reset, so every flop is cleared.
Clear ==
    /\ weight' = Zero
    /\ act' = Grid(Zero) /\ valid' = Grid(FALSE) /\ psum' = Grid(<<>>)
    /\ ref_act' = Grid(Zero) /\ ref_psum' = Grid(<<>>)

Reset == Clear /\ row_valid' \in [Lane -> BOOLEAN]

Init ==
    /\ weight = Zero
    /\ act = Grid(Zero) /\ valid = Grid(FALSE) /\ psum = Grid(<<>>)
    /\ ref_act = Grid(Zero) /\ ref_psum = Grid(<<>>)
    /\ row_valid \in [Lane -> BOOLEAN]

Next == \/ \E in \in [Lane -> Act] : Clock(in)
        \/ \E in \in [Lane -> Act], g \in Gen : Load(in, g)
        \/ Reset

Spec == Init /\ [][Next]_vars

-------------------------------------------------------------------------------
(* Gating changes power, not results: every partial sum of the gated array *)
(* is that of the plain array fed zeros on the idle rows ("safe because a  *)
(* frozen act_out only ever feeds the next column of the same row, whose   *)
(* own operand isolation zeroes its contribution", pe_cg.sv:5-7).          *)
GatedEqualsMasked == psum = ref_psum
===============================================================================
