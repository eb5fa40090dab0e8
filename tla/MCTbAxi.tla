-------------------------------- MODULE MCTbAxi -------------------------------
(* RD_DEPTH = MAX_ROWS + N and WR_DEPTH = MAX_ROWS, as in coproc_axi_top.sv. *)
EXTENDS TbAxi

\* With bursts of 3: four rows are a full and a partial burst, one row is a
\* single beat, the weights a partial burst; regions wrap and overlap.
MCJobs == {[w |-> 0, a |-> 2, c |-> 0, m |-> 4],
           [w |-> 5, a |-> 0, c |-> 5, m |-> 1]}
===============================================================================
