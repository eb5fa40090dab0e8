----------------------------- MODULE SystolicArray -----------------------------
(***************************************************************************)
(* The systolic array of rtl/systolic_array.sv: N x N weight-stationary    *)
(* PEs (rtl/pe.sv).  Activations move right, partial sums move down, one   *)
(* PE per clock edge.                                                      *)
(*                                                                         *)
(* Data is symbolic.  Zero is <<>>, every other element is a tuple chosen  *)
(* by the instantiating module.  A partial sum is the sequence of the      *)
(* products <<activation, weight>> that were added, in the order of the    *)
(* rows; adding a product with a zero factor leaves it as it is.  Int8 and *)
(* int32 arithmetic is not modelled.                                       *)
(***************************************************************************)
LOCAL INSTANCE Integers
LOCAL INSTANCE Sequences

CONSTANT N          \* rows and columns

VARIABLES weight,   \* PE weight registers, by row and column
          act, psum \* PE outputs act_out and psum_out

Lane == 0..(N - 1)
ZeroElt == <<>>
ZeroArray == [r \in Lane |-> [c \in Lane |-> <<>>]]
ZeroLanes == [r \in Lane |-> ZeroElt]

\* Row r of the array takes lanes[r] in its first column.
a_in(lanes, r, c) == IF c = 0 THEN lanes[r] ELSE act[r][c - 1]
p_in(r, c) == IF r = 0 THEN <<>> ELSE psum[r - 1][c]
psum_out(c) == psum[N - 1][c]

Mac(sum, a, w) == IF a = ZeroElt \/ w = ZeroElt THEN sum ELSE Append(sum, <<a, w>>)

PeEdge_OldAct(load, weight_in, lanes) ==
    /\ weight' = IF load THEN weight_in ELSE weight
    /\ act' = [r \in Lane |-> [c \in Lane |-> a_in(lanes, r, c)]]
    /\ psum' = [r \in Lane |-> [c \in Lane |->
                   Mac(p_in(r, c), act[r][c], weight[r][c])]]

\* Every PE forwards its activation and adds its product to the sum above;
\* a weight loaded on this edge is used from the next one on.
PeEdge(load, weight_in, lanes) ==
    /\ weight' = IF load THEN weight_in ELSE weight
    /\ act' = [r \in Lane |-> [c \in Lane |-> a_in(lanes, r, c)]]
    /\ psum' = [r \in Lane |-> [c \in Lane |->
                   Mac(p_in(r, c), a_in(lanes, r, c), weight[r][c])]]

PeReset == weight' = ZeroArray /\ act' = ZeroArray /\ psum' = ZeroArray

ArrayInit == weight = ZeroArray /\ act = ZeroArray /\ psum = ZeroArray
===============================================================================
