----------------------------- MODULE CmdQueueRegs -----------------------------
(***************************************************************************)
(* The MMIO register block rtl/mmio/cmd_queue_regs.sv: the holding         *)
(* registers of the next command, the depth-4 command FIFO, the start      *)
(* pulse to the datapath, done_count and the interrupt.  Every step is one *)
(* rising clock edge: the bus operation of that cycle, the FIFO block and  *)
(* the retirement block all take effect together.  The datapath is seen    *)
(* only through start/busy/done (module Datapath).                         *)
(*                                                                         *)
(* accepted, retired and acked are history variables; the RTL has no       *)
(* such registers.                                                         *)
(***************************************************************************)
EXTENDS Integers, Sequences

CONSTANTS Field,    \* the fields of a command: w_base, a_base, c_base, m_rows
          Val,      \* the values a field can hold
          Zero,     \* the value reset leaves in a field
          DC_MOD,   \* done_count counts modulo this (2^16 in the RTL)
          MaxCmds   \* bound: commands accepted between two resets

ASSUME ZeroAssumption == Zero \in Val
ASSUME DcAssumption == DC_MOD \in Nat \ {0, 1}
ASSUME MaxCmdsAssumption == MaxCmds \in Nat

VARIABLES
    hold,         \* r_w_base, r_a_base, r_c_base, r_m_rows
    fifo_mem, fifo_wp, fifo_rp, fifo_cnt,
    start, cmd,   \* start pulse and the registered command outputs
    irq_en, irq_pending, done_count,
    busy, done,   \* inputs from the datapath
    accepted,     \* history: CMD writes that entered the FIFO
    retired,      \* history: done pulses counted
    acked         \* history: value of retired when IRQ_PENDING was last cleared

fifoVars == <<fifo_mem, fifo_wp, fifo_rp, fifo_cnt, start, cmd, accepted>>
retireVars == <<irq_en, irq_pending, done_count, retired, acked>>
vars == <<hold, fifoVars, retireVars, busy, done>>

DP == INSTANCE Datapath

Cmd == [Field -> Val]
ZeroCmd == [f \in Field |-> Zero]

Bit(b) == IF b THEN 1 ELSE 0

fifo_empty == fifo_cnt = 0
fifo_full == fifo_cnt = 4
irq == irq_pending /\ irq_en

Pop_NoStartCheck == ~busy /\ ~fifo_empty

pop == ~busy /\ ~fifo_empty /\ ~start

StatusBusy_NoDone == busy \/ start

status_busy == busy \/ start \/ done

\* The fields of STATUS that software tests.
Status == [busy |-> status_busy, qfull |-> fifo_full, qempty |-> fifo_empty,
           qcount |-> fifo_cnt, done_count |-> done_count]

CanEnqueue_OffByOne == fifo_cnt <= 4

CanEnqueue == ~fifo_full

-------------------------------------------------------------------------------
(* The always_ff blocks.                                                   *)

FifoEdge_StaleRead(enqueue) ==
    /\ fifo_mem' = IF enqueue THEN [fifo_mem EXCEPT ![fifo_wp] = hold]
                              ELSE fifo_mem
    /\ fifo_wp' = IF enqueue THEN (fifo_wp + 1) % 4 ELSE fifo_wp
    /\ cmd' = IF pop THEN fifo_mem[fifo_wp] ELSE cmd
    /\ fifo_rp' = IF pop THEN (fifo_rp + 1) % 4 ELSE fifo_rp
    /\ start' = pop
    /\ fifo_cnt' = fifo_cnt + Bit(enqueue) - Bit(pop)
    /\ accepted' = accepted + Bit(enqueue)

\* FIFO and start pulse; enqueue and pop may fall on the same edge.
FifoEdge(enqueue) ==
    /\ fifo_mem' = IF enqueue THEN [fifo_mem EXCEPT ![fifo_wp] = hold]
                              ELSE fifo_mem
    /\ fifo_wp' = IF enqueue THEN (fifo_wp + 1) % 4 ELSE fifo_wp
    /\ cmd' = IF pop THEN fifo_mem[fifo_rp] ELSE cmd
    /\ fifo_rp' = IF pop THEN (fifo_rp + 1) % 4 ELSE fifo_rp
    /\ start' = pop
    /\ fifo_cnt' = fifo_cnt + Bit(enqueue) - Bit(pop)
    /\ accepted' = accepted + Bit(enqueue)

RetireEdge_ClearWins(clear) ==
    /\ irq_pending' = IF clear THEN FALSE ELSE done \/ irq_pending
    /\ done_count' = IF done THEN (done_count + 1) % DC_MOD ELSE done_count
    /\ retired' = retired + Bit(done)
    /\ acked' = IF clear THEN retired ELSE acked

\* done_count and IRQ_PENDING.  The done branch comes after the RW1C branch
\* in the block, so a completion wins over a clear on the same edge.
RetireEdge(clear) ==
    /\ irq_pending' = IF done THEN TRUE ELSE irq_pending /\ ~clear
    /\ done_count' = IF done THEN (done_count + 1) % DC_MOD ELSE done_count
    /\ retired' = retired + Bit(done)
    /\ acked' = IF clear THEN retired ELSE acked

\* The datapath samples start; how long it stays busy is its own business.
DatapathEdge == IF busy THEN DP!Run \/ DP!Finish
                ELSE IF start THEN DP!Accept ELSE DP!Rest

-------------------------------------------------------------------------------
(* One action per kind of bus cycle.                                       *)

\* No access, a read, a CMD write with bit 0 clear, a write to a read-only
\* register, or an access of the wrong width or outside the block.
IdleCycle ==
    /\ FifoEdge(FALSE) /\ RetireEdge(FALSE) /\ DatapathEdge
    /\ UNCHANGED <<hold, irq_en>>

\* A store to one of W_BASE, A_BASE, C_BASE, M_ROWS.
WriteField(f, v) ==
    /\ FifoEdge(FALSE) /\ RetireEdge(FALSE) /\ DatapathEdge
    /\ hold' = [hold EXCEPT ![f] = v]
    /\ UNCHANGED irq_en

\* A store of 1 to CMD; silently ignored when the FIFO is full.
WriteCmd ==
    /\ FifoEdge(CanEnqueue) /\ RetireEdge(FALSE) /\ DatapathEdge
    /\ UNCHANGED <<hold, irq_en>>

\* A store to IRQ: bit 0 is IRQ_EN, bit 1 clears IRQ_PENDING.
WriteIrq(en, clear) ==
    /\ FifoEdge(FALSE) /\ RetireEdge(clear) /\ DatapathEdge
    /\ irq_en' = en
    /\ UNCHANGED hold

\* A clock edge with rst high.  fifo_mem is the only register without reset.
Reset ==
    /\ hold' = ZeroCmd /\ cmd' = ZeroCmd /\ start' = FALSE
    /\ fifo_wp' = 0 /\ fifo_rp' = 0 /\ fifo_cnt' = 0
    /\ irq_en' = FALSE /\ irq_pending' = FALSE /\ done_count' = 0
    /\ DP!Reset
    /\ accepted' = 0 /\ retired' = 0 /\ acked' = 0
    /\ UNCHANGED fifo_mem

\* The state after power-up reset; the contents of fifo_mem are arbitrary.
Init ==
    /\ hold = ZeroCmd /\ cmd = ZeroCmd /\ start = FALSE
    /\ fifo_mem \in [0..3 -> Cmd]
    /\ fifo_wp = 0 /\ fifo_rp = 0 /\ fifo_cnt = 0
    /\ irq_en = FALSE /\ irq_pending = FALSE /\ done_count = 0
    /\ DP!Init
    /\ accepted = 0 /\ retired = 0 /\ acked = 0

Cycle == \/ IdleCycle
         \/ \E f \in Field, v \in Val : WriteField(f, v)
         \/ (fifo_full \/ accepted < MaxCmds) /\ WriteCmd
         \/ \E en, clear \in BOOLEAN : WriteIrq(en, clear)

Next == Cycle \/ Reset

(* The clock runs, and the datapath contract (Datapath!Completes) holds.   *)
Fairness == WF_vars(Cycle) /\ WF_vars(Cycle /\ DP!Finish)

Spec == Init /\ [][Next]_vars

FairSpec == Spec /\ Fairness

-------------------------------------------------------------------------------
(* Properties.                                                             *)

TypeOK ==
    /\ hold \in Cmd /\ cmd \in Cmd
    /\ fifo_mem \in [0..3 -> Cmd]
    /\ fifo_wp \in 0..3 /\ fifo_rp \in 0..3 /\ fifo_cnt \in 0..4
    /\ start \in BOOLEAN /\ busy \in BOOLEAN /\ done \in BOOLEAN
    /\ irq_en \in BOOLEAN /\ irq_pending \in BOOLEAN
    /\ done_count \in 0..(DC_MOD - 1)
    /\ accepted \in Nat /\ retired \in Nat /\ acked \in Nat

(* The comment at cmd_queue_regs.sv:123-126: software that sees the queue  *)
(* empty and STATUS.busy low has seen every command it was granted retire, *)
(* and done_count shows it (modulo its width).  There is no cycle in the   *)
(* pop/start/busy/done hand-over where a command is in none of the flags.  *)
IdleMeansRetired ==
    fifo_empty /\ ~status_busy => /\ retired = accepted
                                  /\ done_count = accepted % DC_MOD

(* Conservation: every accepted command is waiting, running or retired,    *)
(* exactly one of those, and start, busy and done never overlap, so one    *)
(* command is in flight at most (pop at line 69, datapath contract).       *)
Conservation ==
    accepted = retired + fifo_cnt + Bit(start) + Bit(busy) + Bit(done)

(* IRQ_PENDING is high exactly when a completion has been counted that no  *)
(* RW1C write has acknowledged: a clear racing a completion never loses it *)
(* (lines 107-117).                                                        *)
PendingIffUnacked == irq_pending <=> retired > acked

(* What makes the above inductive: start, busy and done exclude each       *)
(* other, the FIFO pointers are cnt apart, done_count is the number of     *)
(* retirements modulo its width, and no acknowledgement runs ahead.        *)
InFlightExclusive == ~(start /\ busy) /\ ~(start /\ done) /\ ~(busy /\ done)
RingConsistent == fifo_wp = (fifo_rp + fifo_cnt) % 4
CountsRetired == done_count = retired % DC_MOD /\ acked <= retired

Inv == /\ TypeOK
       /\ InFlightExclusive /\ Conservation
       /\ RingConsistent /\ CountsRetired /\ PendingIffUnacked

(* The registered command outputs do not move while the datapath holds a   *)
(* command: axi4_dma_bridge feeds m_rows to stream_ctrl live, long after   *)
(* it sampled start (axi4_dma_bridge.sv:85-92).                            *)
CommandStable ==
    [][(start \/ busy) /\ (start' \/ busy' \/ done') => cmd' = cmd]_vars

(* The FIFO contents in order, for the refinement of CommandQueue.         *)
Contents == [i \in 1..fifo_cnt |-> fifo_mem[(fifo_rp + i - 1) % 4]]

Abstract == INSTANCE CommandQueue WITH
    Depth <- 4,
    queue <- Contents,
    running <- IF start \/ busy THEN <<cmd>> ELSE <<>>,
    completed <- retired + Bit(done)

(* The ring buffer, the start pulse and the busy/done hand-over implement  *)
(* a FIFO that runs every accepted command once, in order, and, given a    *)
(* datapath that finishes, runs all of them.                               *)
ImplementsCommandQueue == Abstract!QSpec
===============================================================================
