------------------------------- MODULE MCTbCoproc -----------------------------
(* The polling host with eleven rows in chunks of two, a full batch of four *)
(* and a batch of two that ends in a partial chunk, called three times; and *)
(* the two test programs with the row counts they use.                      *)
EXTENDS TbCoproc

MCVal == 0..3 \cup {5, 6, 64, 200, 255, 500}
===============================================================================
