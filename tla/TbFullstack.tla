------------------------------ MODULE TbFullstack -----------------------------
(***************************************************************************)
(* The test program sim/fullstack/tb_fullstack.cpp: the unmodified driver  *)
(* against coproc_axi_sim_top, through the coproc_ops of the program.  A   *)
(* register access is exactly one edge, a memory access none, wait_irq     *)
(* ticks until the interrupt line is high, and it all depends on how long  *)
(* commands take, so the datapath is timed, as in TbCoproc.                *)
(*                                                                         *)
(* sim = FALSE is the driver on its own (module CoprocDriver), where any   *)
(* time may pass between two operations.                                   *)
(***************************************************************************)
EXTENDS CoprocDriver

CONSTANTS N,           \* the array is N by N
          Slack,       \* bound: cycles the AXI memory may add to a command
          GUARD        \* wait_irq gives up after so many edges

ASSUME FullstackAssumption == N \in Nat \ {0} /\ Slack \in Nat /\ GUARD \in Nat

VARIABLES sim,
          elapsed,            \* cycles the running command has taken
          guard,              \* edges the current wait_irq has waited
          g_irqs_taken, g_commands_issued

tbVars == <<sim, elapsed, guard, g_irqs_taken, g_commands_issued>>
allVars == <<vars, tbVars>>

\* stream_ctrl takes 4N + 3 cycles for one row (TbStream!CyclesAsDerived);
\* the bridge in front of it adds what the memory makes it wait.
Latency == 4 * N + 2

\* One edge of the simulated clock.
Clocked ==
    /\ elapsed' = IF busy THEN elapsed + 1 ELSE 0
    /\ TakesTime(elapsed, Latency, Latency + Slack)
NoClock == UNCHANGED <<regVars, elapsed>>

tb_reg_write_KeepPending ==
    /\ sim
    /\ EnableIrq \/ ClearIrq_KeepPending \/ (Issue /\ pc \notin {"mem_w", "mem_a"})
    /\ Clocked
    /\ g_commands_issued' = g_commands_issued + (IF pc = "cmd" THEN 1 ELSE 0)
    /\ UNCHANGED <<sim, guard, g_irqs_taken>>

tb_reg_write ==
    /\ sim
    /\ EnableIrq \/ ClearIrq \/ (Issue /\ pc \notin {"mem_w", "mem_a"})
    /\ Clocked
    /\ g_commands_issued' = g_commands_issued + (IF pc = "cmd" THEN 1 ELSE 0)
    /\ UNCHANGED <<sim, guard, g_irqs_taken>>

tb_reg_read ==
    /\ sim
    /\ BlockStart \/ ReadStatus
    /\ Edge /\ Clocked
    /\ UNCHANGED <<sim, guard, g_irqs_taken, g_commands_issued>>

\* The backdoor into the RAM models, and what the driver does in between.
tb_mem_access ==
    /\ sim /\ NoClock
    /\ (Issue /\ pc \in {"mem_w", "mem_a"}) \/ Collect \/ BlockEnd \/ NextLayer
    /\ UNCHANGED <<sim, guard, g_irqs_taken, g_commands_issued>>

tb_wait_irq ==
    /\ sim /\ pc = "wait_irq"
    /\ IF Regs!irq
       THEN /\ NoClock /\ WaitIrq
            /\ guard' = 0 /\ g_irqs_taken' = g_irqs_taken + 1
       ELSE /\ Edge /\ Clocked
            /\ guard' = guard + 1
            /\ pc' = IF guard' > GUARD THEN "exit" ELSE pc
            /\ UNCHANGED <<w_buf, a_buf, progVars, g_irqs_taken>>
    /\ UNCHANGED <<sim, g_commands_issued>>

Alone == ~sim /\ Next /\ UNCHANGED tbVars

TbInit ==
    /\ Init
    /\ sim \in BOOLEAN /\ elapsed = 0 /\ guard = 0
    /\ g_irqs_taken = 0 /\ g_commands_issued = 0

TbNext == tb_reg_write \/ tb_reg_read \/ tb_mem_access \/ tb_wait_irq \/ Alone

TbSpec == TbInit /\ [][TbNext]_allVars

(* The simulation goes on.                                                 *)
TbFairSpec == TbSpec /\ WF_allVars(sim /\ TbNext)

-------------------------------------------------------------------------------
(* Properties.                                                             *)

(* The last check of the program (lines 181-184): it took one interrupt    *)
(* for every command it issued, in either layer.  Nor can the interrupts   *)
(* merge as they can for a driver that is slower than the datapath         *)
(* (WaitReturns), so that the program ends.                                *)
OneIrqPerCommand ==
    sim /\ pc = "returned" => g_irqs_taken = g_commands_issued

Infers == sim ~> (pc = "returned" /\ layer = Len(Layers))
===============================================================================
