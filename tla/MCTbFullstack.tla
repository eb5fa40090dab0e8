----------------------------- MODULE MCTbFullstack ----------------------------
(* Two images through two layers of different tile counts, two row blocks   *)
(* each, so that the four slots are reused and done_count (modulo 8) wraps  *)
(* inside a block.                                                          *)
EXTENDS TbFullstack

MCNetwork == << [kt |-> 3, nt |-> 2], [kt |-> 2, nt |-> 1] >>
MCLayers == MCNetwork \o MCNetwork
===============================================================================
