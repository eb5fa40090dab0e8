----------------------------- MODULE CommandQueue -----------------------------
(***************************************************************************)
(* What the MMIO register block promises to software: a FIFO of at most    *)
(* Depth commands, executed one at a time and in order, each exactly once. *)
(* The abstract specification that CmdQueueRegs implements.                *)
(***************************************************************************)
EXTENDS Naturals, Sequences

CONSTANTS Cmd,      \* the commands
          Depth     \* how many may wait

VARIABLES queue,     \* commands accepted and not yet handed to the datapath
          running,   \* <<c>> while the datapath holds c, <<>> when it is idle
          completed  \* how many commands have finished since reset

qvars == <<queue, running, completed>>

QInit == queue = <<>> /\ running = <<>> /\ completed = 0

\* What a CMD write may add in one cycle: nothing, or one command if it fits.
Arrivals == {<<>>} \cup {<<c>> : c \in {d \in Cmd : Len(queue) < Depth}}

Dispatch(new) ==
    /\ queue # <<>> /\ running = <<>>
    /\ running' = <<Head(queue)>>
    /\ queue' = Tail(queue) \o new
    /\ completed' = completed

Complete(new) ==
    /\ running # <<>>
    /\ running' = <<>>
    /\ completed' = completed + 1
    /\ queue' = queue \o new

Accept(new) ==
    /\ queue' = queue \o new
    /\ UNCHANGED <<running, completed>>

QReset == queue' = <<>> /\ running' = <<>> /\ completed' = 0

QNext == \/ \E new \in Arrivals : Dispatch(new) \/ Complete(new) \/ Accept(new)
         \/ QReset

\* The queue keeps moving: waiting commands are dispatched, running ones end.
QFairness ==
    /\ WF_qvars(\E new \in Arrivals : Dispatch(new))
    /\ WF_qvars(\E new \in Arrivals : Complete(new))

\* First in, first out, each command once ...
QSafety == QInit /\ [][QNext]_qvars

\* ... and every one of them.
QSpec == QSafety /\ QFairness
===============================================================================
