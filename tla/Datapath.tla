------------------------------- MODULE Datapath -------------------------------
(***************************************************************************)
(* The start/busy/done contract between the command queue and whatever     *)
(* runs a command: stream_ctrl (rtl/stream_ctrl.sv, lines 72 and 134-161)  *)
(* or axi4_dma_bridge (rtl/axi/axi4_dma_bridge.sv, lines 267-285).  Each   *)
(* step is one clock edge.  busy is high while the unit is not in its idle *)
(* state; done is a registered one-cycle pulse, high in the first cycle in *)
(* which busy is low again.                                                *)
(***************************************************************************)
VARIABLES busy, done

vars == <<busy, done>>

Init == busy = FALSE /\ done = FALSE

\* start is sampled in the idle state: busy rises on the same edge.
Accept == ~busy /\ busy' = TRUE /\ done' = FALSE

\* An idle edge without start; the done pulse ends here.
Rest == ~busy /\ busy' = FALSE /\ done' = FALSE

\* The unit keeps working; start is ignored while it does.
Run == busy /\ busy' = TRUE /\ done' = FALSE

\* The unit returns to idle and pulses done.
Finish == busy /\ busy' = FALSE /\ done' = TRUE

\* Synchronous reset drops a running command without a done pulse.
Reset == busy' = FALSE /\ done' = FALSE

Next == Accept \/ Rest \/ Run \/ Finish \/ Reset

Spec == Init /\ [][Next]_vars

(* Every accepted command ends: the contract clients rely on to make       *)
(* progress (B_DRAIN -> B_IDLE, S_DONE -> S_IDLE).                          *)
Completes == busy ~> ~busy
===============================================================================
