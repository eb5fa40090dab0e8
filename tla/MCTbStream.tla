------------------------------ MODULE MCTbStream ------------------------------
(* Commands with no row, one row, and more rows than the pipeline is deep;  *)
(* regions that overlap and regions that wrap round the address space.      *)
EXTENDS TbStream

MCJobs == {[w |-> 0, a |-> 2, c |-> 0, m |-> 5],
           [w |-> 7, a |-> 0, c |-> 7, m |-> 2],
           [w |-> 3, a |-> 6, c |-> 1, m |-> 1],
           [w |-> 2, a |-> 1, c |-> 2, m |-> 0]}
===============================================================================
