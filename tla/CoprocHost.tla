------------------------------ MODULE CoprocHost ------------------------------
(***************************************************************************)
(* What both pieces of host software share: the register block as they see *)
(* it over the bus (module CmdQueueRegs), the operand and result buffers   *)
(* of the four queue slots, and the sequence of stores that issues one     *)
(* command (coproc_issue_tile in sw/coproc_driver.h, the body of the batch *)
(* loop in sched/coproc_backend.py, coproc_matmul in sw/coproc_mmio.h).    *)
(*                                                                         *)
(* The host does one bus operation per step and any number of clock edges  *)
(* may pass between two of them.  The datapath reads the operands of its   *)
(* command at some point before it finishes, and the result is there when  *)
(* it does; SlotSafe makes the point irrelevant.  Operands and results are *)
(* tokens chosen by the host module.                                       *)
(***************************************************************************)
EXTENDS Integers, Sequences

CONSTANTS DC_MOD,   \* done_count counts modulo this
          Val       \* values of a command field: slots and row counts

QDEPTH == 4         \* COPROC_QDEPTH, QUEUE_DEPTH
Slot == 0..(QDEPTH - 1)
NoToken == <<>>

ASSUME HostAssumption == DC_MOD \in Nat \ {0, 1} /\ Slot \subseteq Val

VARIABLES hold, fifo_mem, fifo_wp, fifo_rp, fifo_cnt, start, cmd,
          irq_en, irq_pending, done_count, busy, done,
          accepted, retired, acked,
          pc,           \* the host's next operation
          w_buf, a_buf, \* operand buffers, by slot
          c_buf         \* result buffer, by slot

regVars == <<hold, fifo_mem, fifo_wp, fifo_rp, fifo_cnt, start, cmd, irq_en,
             irq_pending, done_count, busy, done, accepted, retired, acked>>
bufVars == <<w_buf, a_buf, c_buf>>

Regs == INSTANCE CmdQueueRegs WITH
    Field <- {"w", "a", "c", "m"}, Zero <- 0, MaxCmds <- 0

HostInit ==
    /\ fifo_mem = [i \in 0..3 |-> Regs!ZeroCmd]
    /\ Regs!Init
    /\ w_buf = [s \in Slot |-> NoToken] /\ a_buf = [s \in Slot |-> NoToken]
    /\ c_buf = [s \in Slot |-> NoToken]

\* What the datapath computes for the command it holds.
Product == <<w_buf[cmd.w], a_buf[cmd.a], cmd.m>>

\* The result is in memory by the edge on which the datapath finishes.
ResultEdge == c_buf' = IF done' THEN [c_buf EXCEPT ![cmd.c] = Product] ELSE c_buf

\* A clock edge without a store.
Edge == Regs!IdleCycle /\ ResultEdge

\* A register read or a memory access: the simulated bus answers both without
\* a clock edge, a real one takes some.
Tick == Edge \/ UNCHANGED <<regVars, c_buf>>

Store(f, v) == Regs!WriteField(f, v) /\ ResultEdge

MemWriteW(slot, token) ==
    /\ pc = "mem_w" /\ pc' = "mem_a"
    /\ Tick /\ w_buf' = [w_buf EXCEPT ![slot] = token] /\ UNCHANGED a_buf

MemWriteA(slot, token) ==
    /\ pc = "mem_a" /\ pc' = "reg_w"
    /\ Tick /\ a_buf' = [a_buf EXCEPT ![slot] = token] /\ UNCHANGED w_buf

\* The four stores to the holding registers, one bus cycle each.
WriteRegs(slot, rows) ==
    /\ \/ pc = "reg_w" /\ pc' = "reg_a" /\ Store("w", slot)
       \/ pc = "reg_a" /\ pc' = "reg_c" /\ Store("a", slot)
       \/ pc = "reg_c" /\ pc' = "reg_m" /\ Store("c", slot)
       \/ pc = "reg_m" /\ pc' = "cmd" /\ Store("m", rows)
    /\ UNCHANGED <<w_buf, a_buf>>

StoreCmd ==
    /\ pc = "cmd"
    /\ Regs!WriteCmd /\ ResultEdge /\ UNCHANGED <<w_buf, a_buf>>

\* For the test programs, which count edges: the running command has taken
\* elapsed cycles, and takes at least least and at most most of them.
TakesTime(elapsed, least, most) ==
    /\ busy /\ ~busy' => elapsed >= least
    /\ busy /\ busy' => elapsed < most

-------------------------------------------------------------------------------
(* Properties common to both hosts.                                        *)

\* The commands accepted and not yet finished.
InFlight == {fifo_mem[(fifo_rp + i) % 4] : i \in 0..(fifo_cnt - 1)}
            \cup (IF start \/ busy THEN {cmd} ELSE {})

(* A CMD store is never dropped: neither host looks at STATUS.queue_full   *)
(* before it stores, they only count (coproc_driver.h:134,                 *)
(* coproc_backend.py:103).  For the interrupt-driven host, with as many    *)
(* slots as the queue has entries, SlotSafe says as much.                  *)
NeverDropped == pc = "cmd" => ~Regs!fifo_full
===============================================================================
