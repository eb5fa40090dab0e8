------------------------------- MODULE MCConvNet -------------------------------
(* The shapes and the multipliers are covered one after the other: all      *)
(* shapes with one multiplier, all multipliers with the smallest shape.     *)
EXTENDS ConvNet

\* 1 x 1 kernels are plain products, M x K by K x N: every combination of rows
\* below, at and above the boundaries of one and two row blocks, and of inner
\* dimension and columns around the boundaries of one and two tiles.
Products == [n : {1}, h : 1..5, w : {1}, c : 1..5, co : 1..5, kh : {1}, kw : {1}]

\* Kernels and images that are not square, one and two of everything.
Convolutions == [n : {1, 2}, c : {1, 2}, h : {3, 5}, w : {4, 6}, co : {1, 3},
                 kh : {2}, kw : {3}]

MCShapes == Products \cup Convolutions

\* Every multiplier with seven fractional bits below 3/2 for which the shift is
\* defined, and large ones, which shift to the left.
MCNumerators == {0} \cup 2..192 \cup {1000, 2000, 2047, 2048, 4096}

Smallest == [n |-> 1, h |-> 1, w |-> 1, c |-> 1, co |-> 1, kh |-> 1, kw |-> 1]

MCInit == Init /\ (s = Smallest \/ num0 = 127)

MCSpec == MCInit /\ [][Next]_vars /\ WF_vars(Next)
===============================================================================
