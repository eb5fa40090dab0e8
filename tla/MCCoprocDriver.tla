---------------------------- MODULE MCCoprocDriver ----------------------------
(* One row block of two tiles is enough for two completions to share an     *)
(* interrupt.                                                               *)
EXTENDS CoprocDriver

MCLayers == << [kt |-> 2, nt |-> 1] >>
===============================================================================
