--------------------------- MODULE CoprocDriver_proof --------------------------
(***************************************************************************)
(* Proofs about the interrupt-driven driver, for every sequence of layers  *)
(* and number of row blocks, every width of done_count and every value     *)
(* U32_MOD: a slot is never reused while a command in flight still needs   *)
(* it, no result is read before its command has retired, and every tile is *)
(* accumulated once, in order and from its own operands; and about the     *)
(* test program of module TbFullstack, which counts its interrupts.        *)
(*                                                                         *)
(* The argument: a result is collected only after an interrupt has been    *)
(* taken and cleared for it, so the completions acknowledged are at least  *)
(* the results collected; what is in flight lies between collected and     *)
(* issued, which are at most four apart, and command number j of a block   *)
(* uses slot j % 4.  done_count, which may wrap, plays no part in it.      *)
(***************************************************************************)
EXTENDS TbFullstack, TLAPS

-------------------------------------------------------------------------------
(* The register block, as this host drives it.                             *)

RP == INSTANCE CmdQueueRegs_proof WITH
    Field <- {"w", "a", "c", "m"}, Zero <- 0, MaxCmds <- 0

(* The constants of the instance satisfy its assumptions.                  *)
LEMMA RegsAssumptions ==
    RP!ZeroAssumption /\ RP!DcAssumption /\ RP!MaxCmdsAssumption
BY HostAssumption DEF RP!ZeroAssumption, RP!DcAssumption, RP!MaxCmdsAssumption, Slot, QDEPTH

(* It is the block that its own proofs are about.                          *)
LEMMA SameBlock ==
    /\ Regs!fifo_full <=> RP!fifo_full
    /\ \A e \in BOOLEAN : Regs!FifoEdge(e) => RP!FifoEdge(e)
    /\ \A clear \in BOOLEAN : Regs!RetireEdge(clear) => RP!RetireEdge(clear)
    /\ Regs!DatapathEdge => RP!DatapathEdge
    /\ Regs!IdleCycle => RP!IdleCycle
    /\ Regs!WriteCmd => RP!WriteCmd
<1>1. Regs!fifo_full <=> RP!fifo_full
  BY DEF Regs!fifo_full, RP!fifo_full
<1>2. \A e \in BOOLEAN : Regs!FifoEdge(e) => RP!FifoEdge(e)
  BY DEF Regs!FifoEdge, RP!FifoEdge, Regs!pop, RP!pop, Regs!fifo_empty, RP!fifo_empty,
         Regs!Bit, RP!Bit
<1>3. \A clear \in BOOLEAN : Regs!RetireEdge(clear) => RP!RetireEdge(clear)
  BY DEF Regs!RetireEdge, RP!RetireEdge, Regs!Bit, RP!Bit
<1>4. Regs!DatapathEdge => RP!DatapathEdge
  BY DEF Regs!DatapathEdge, RP!DatapathEdge, Regs!DP!Run, RP!DP!Run, Regs!DP!Finish,
         RP!DP!Finish, Regs!DP!Accept, RP!DP!Accept, Regs!DP!Rest, RP!DP!Rest
<1>5. Regs!IdleCycle => RP!IdleCycle
  BY <1>2, <1>3, <1>4 DEF Regs!IdleCycle, RP!IdleCycle
<1>6. Regs!WriteCmd => RP!WriteCmd
  <2>1. Regs!CanEnqueue = RP!CanEnqueue /\ Regs!CanEnqueue \in BOOLEAN
    BY DEF Regs!CanEnqueue, RP!CanEnqueue, Regs!fifo_full, RP!fifo_full
  <2>2. QED
    BY <1>2, <1>3, <1>4, <2>1 DEF Regs!WriteCmd, RP!WriteCmd
<1>7. QED
  BY <1>1, <1>2, <1>3, <1>4, <1>5, <1>6

LEMMA HostInitStep ==
    ASSUME HostInit
    PROVE  RP!Inv /\ accepted = 0 /\ retired = 0 /\ acked = 0
<1>1. RP!Init
  BY DEF HostInit, Regs!Init, RP!Init, Regs!ZeroCmd, RP!ZeroCmd, Regs!Cmd, RP!Cmd,
         Regs!DP!Init, RP!DP!Init
<1>2. QED
  BY <1>1, RegsAssumptions, RP!InitStep DEF RP!Init

(* A step without a store: nothing is accepted or acknowledged.            *)
LEMMA TickStep ==
    ASSUME RP!Inv, Tick
    PROVE  /\ RP!Inv' /\ hold' = hold
           /\ accepted' = accepted /\ retired' >= retired /\ acked' = acked
<1>1. RP!IdleCycle \/ UNCHANGED RP!vars
  BY SameBlock DEF Tick, Edge, regVars, RP!vars, RP!fifoVars, RP!retireVars
<1>2. QED
  BY <1>1, RegsAssumptions, RP!IdleStep

(* A store to a holding register.                                          *)
LEMMA StoreStep ==
    ASSUME RP!Inv, NEW f \in {"w", "a", "c", "m"}, NEW v \in Val, Store(f, v)
    PROVE  /\ RP!Inv' /\ hold' = [hold EXCEPT ![f] = v]
           /\ accepted' = accepted /\ retired' >= retired /\ acked' = acked
<1>1. RP!WriteField(f, v)
  BY SameBlock DEF Store, Regs!WriteField, RP!WriteField
<1>2. QED
  BY <1>1, RegsAssumptions, RP!FieldStep

(* A store to CMD.                                                         *)
LEMMA CommandStep ==
    ASSUME RP!Inv, Regs!WriteCmd
    PROVE  /\ RP!Inv' /\ hold' = hold
           /\ accepted' = accepted + (IF Regs!fifo_full THEN 0 ELSE 1)
           /\ retired' >= retired /\ acked' = acked
BY SameBlock, RegsAssumptions, RP!CommandStep

(* A store to IRQ.                                                         *)
LEMMA IrqStep ==
    ASSUME RP!Inv, NEW en \in BOOLEAN, NEW clear \in BOOLEAN, Regs!WriteIrq(en, clear)
    PROVE  /\ RP!Inv' /\ hold' = hold
           /\ accepted' = accepted /\ retired' >= retired
           /\ acked' = IF clear THEN retired ELSE acked
<1>1. RP!WriteIrq(en, clear)
  BY SameBlock DEF Regs!WriteIrq, RP!WriteIrq
<1>2. QED
  BY <1>1, RegsAssumptions, RP!IrqStep

\* One clock edge, with or without a store, or none.
AnyCycle ==
    \/ \E e, clear \in BOOLEAN :
          Regs!FifoEdge(e) /\ Regs!RetireEdge(clear) /\ Regs!DatapathEdge /\ ResultEdge
    \/ UNCHANGED <<regVars, c_buf>>

(* Each kind of step is such an edge.                                      *)
LEMMA StepsAreCycles ==
    /\ Tick => AnyCycle
    /\ \A f \in {"w", "a", "c", "m"}, v \in Val : Store(f, v) => AnyCycle
    /\ Regs!WriteCmd /\ ResultEdge => AnyCycle
    /\ Regs!WriteIrq(TRUE, TRUE) /\ ResultEdge => AnyCycle
<1>1. ASSUME NEW e \in BOOLEAN, NEW clear \in BOOLEAN, Regs!FifoEdge(e),
             Regs!RetireEdge(clear), Regs!DatapathEdge, ResultEdge
      PROVE  AnyCycle
  BY <1>1 DEF AnyCycle
<1>2. Tick => AnyCycle
  BY <1>1 DEF Tick, Edge, Regs!IdleCycle, AnyCycle
<1>3. \A f \in {"w", "a", "c", "m"}, v \in Val : Store(f, v) => AnyCycle
  BY <1>1 DEF Store, Regs!WriteField
<1>4. Regs!WriteCmd /\ ResultEdge => AnyCycle
  <2>1. Regs!CanEnqueue \in BOOLEAN
    BY DEF Regs!CanEnqueue, Regs!fifo_full
  <2>2. QED
    BY <1>1, <2>1 DEF Regs!WriteCmd
<1>5. Regs!WriteIrq(TRUE, TRUE) /\ ResultEdge => AnyCycle
  BY <1>1 DEF Regs!WriteIrq
<1>6. QED
  BY <1>2, <1>3, <1>4, <1>5

-------------------------------------------------------------------------------
(* The invariant.                                                          *)

Issuing == {"mem_w", "mem_a", "reg_w", "reg_a", "reg_c", "reg_m", "cmd"}
Waiting == {"wait_irq", "rw1c", "status", "mem_c"}
Between == {"irq_on", "block_start", "returned"}   \* no block is under way

\* At p, with i commands of t issued and c collected.
PhaseOK(p, i, c, t) ==
    /\ p \in Issuing \cup Waiting \cup Between \cup {"block_end"}
    /\ i \in Nat /\ c \in Nat /\ c <= i /\ i <= t /\ i - c <= 4
    /\ p \in Issuing => i < t /\ i - c < 4
    /\ p \in Waiting => c < t
    /\ p = "block_end" => c = t

\* At p, with e commands of earlier blocks, and a accepted, r retired and k
\* acknowledged since reset.
CountsOK(p, i, c, e, a, r, k) ==
    /\ e \in Nat
    /\ p \in Between => a = e /\ k >= e
    /\ p \notin Between => a = e + i /\ k >= e + c
    /\ p \in {"status", "mem_c"} => k > e + c
    /\ p = "rw1c" => r > k

\* The holding registers of command i, as far as they have been stored.
HoldOK(p, h, i, b) ==
    /\ p \in {"reg_a", "reg_c", "reg_m", "cmd"} => h.w = i % 4
    /\ p \in {"reg_c", "reg_m", "cmd"} => h.a = i % 4
    /\ p \in {"reg_m", "cmd"} => h.c = i % 4
    /\ p = "cmd" => h.m = b

\* Command j of block b uses slot j % 4 throughout.
UsesSlotOf(c, j, b) == c.w = j % 4 /\ c.a = j % 4 /\ c.c = j % 4 /\ c.m = b

\* The queue holds the commands issued last, the datapath the one before.
QueueOK ==
    /\ \A i \in 0..3 : i < fifo_cnt =>
           UsesSlotOf(fifo_mem[(fifo_rp + i) % 4], issued - fifo_cnt + i, block)
    /\ start \/ busy => UsesSlotOf(cmd, issued - fifo_cnt - 1, block)

LoopOK ==
    /\ layer \in DOMAIN Layers /\ block \in Nat
    /\ pc # "returned" => block < Blocks
    /\ PhaseOK(pc, issued, collected, total)
    /\ CountsOK(pc, issued, collected, earlier, accepted, retired, acked)
    /\ HoldOK(pc, hold, issued, block)

DriverInv == RP!Inv /\ LoopOK /\ QueueOK

-------------------------------------------------------------------------------
(* A call has at least one tile in each block.                             *)
LEMMA TotalPositive ==
    ASSUME NEW l \in DOMAIN Layers
    PROVE  Layers[l].nt * Layers[l].kt \in Nat \ {0}
<1>1. Layers[l].nt \in Nat \ {0} /\ Layers[l].kt \in Nat \ {0}
  <2> DEFINE Shape == [kt : Nat \ {0}, nt : Nat \ {0}]
  <2>1. Layers \in Seq(Shape)
    BY DriverAssumption
  <2> HIDE DEF Shape
  <2>2. Layers[l] \in Shape
    BY <2>1
  <2>3. QED
    BY <2>2 DEF Shape
<1>2. \A x, y \in Nat \ {0} : x * y \in Nat \ {0}
  BY Z3
<1>3. QED
  BY <1>1, <1>2

(* Where the loops of the driver go, the phase conditions hold.            *)
LEMMA LoopPhase ==
    ASSUME NEW i \in Nat, NEW c \in Nat, c <= i, i <= total, i - c <= 4, total \in Nat,
           c = total \/ i < total \/ c < total
    PROVE  /\ PhaseOK(LoopPc(i, c), i, c, total)
           /\ LoopPc(i, c) \in {"mem_w", "wait_irq", "block_end"}
BY DEF LoopPc, CanIssue, QDEPTH, PhaseOK, Issuing, Waiting, Between

(* The queue and the datapath hand on commands with their slots.           *)
LEMMA QueueStep ==
    ASSUME RP!Inv, QueueOK, issued \in Nat, block' = block, NEW e \in BOOLEAN,
           Regs!FifoEdge(e), Regs!DatapathEdge,
           e => ~Regs!fifo_full /\ UsesSlotOf(hold, issued, block),
           issued' = issued + (IF e THEN 1 ELSE 0)
    PROVE  QueueOK'
<1> DEFINE C == [j \in Int |-> {c \in RP!Cmd : UsesSlotOf(c, j, block)}]
<1>1. /\ hold \in RP!Cmd /\ cmd \in RP!Cmd /\ fifo_mem \in [0..3 -> RP!Cmd]
      /\ fifo_cnt \in 0..4 /\ fifo_rp \in 0..3
  BY DEF RP!Inv, RP!TypeOK
<1>2. issued' \in Int
  OBVIOUS
<1>3. \A i \in 0..3 : i < fifo_cnt => fifo_mem[(fifo_rp + i) % 4] \in C[issued - fifo_cnt + i]
  BY <1>1 DEF QueueOK
<1>4. start \/ busy => cmd \in C[issued - fifo_cnt - 1]
  BY <1>1 DEF QueueOK
<1>5. e => ~Regs!fifo_full /\ hold \in C[issued]
  BY <1>1
<1>6. \A j \in Int : \A c \in C[j] : UsesSlotOf(c, j, block)
  OBVIOUS
<1> HIDE DEF C
<1>7. /\ \A i \in 0..3 : i < fifo_cnt' =>
            fifo_mem'[(fifo_rp' + i) % 4] \in C[issued' - fifo_cnt' + i]
      /\ start' \/ busy' => cmd' \in C[issued' - fifo_cnt' - 1]
  <2>1. RP!FifoEdge(e) /\ RP!DatapathEdge /\ (e => ~RP!fifo_full /\ hold \in C[issued])
    BY <1>5, SameBlock
  <2>2. QED
    BY <1>2, <1>3, <1>4, <2>1, RP!HandedOn, RegsAssumptions
<1>8. fifo_cnt' \in Int
  BY <1>1 DEF Regs!FifoEdge, Regs!Bit
<1>9. QED
  BY <1>2, <1>6, <1>7, <1>8 DEF QueueOK

(* The same for a step that stores no command.                             *)
LEMMA QuietQueue ==
    ASSUME RP!Inv, QueueOK, issued \in Nat, issued' = issued, block' = block,
           Tick \/ (Regs!FifoEdge(FALSE) /\ Regs!DatapathEdge)
    PROVE  QueueOK'
<1>1. CASE Regs!FifoEdge(FALSE) /\ Regs!DatapathEdge
  <2>1. issued' = issued + 0
    OBVIOUS
  <2>2. QED
    BY <1>1, <2>1, QueueStep
<1>2. CASE Edge
  BY <1>1, <1>2 DEF Edge, Regs!IdleCycle
<1>3. CASE UNCHANGED <<regVars, c_buf>>
  BY <1>3 DEF regVars, QueueOK, UsesSlotOf
<1>4. QED
  BY <1>1, <1>2, <1>3 DEF Tick

(* With nothing outstanding the queue and the datapath are empty.          *)
LEMMA EmptyQueue ==
    ASSUME RP!Inv', RP!Outstanding' = 0
    PROVE  QueueOK'
<1>1. /\ accepted' \in Nat /\ retired' \in Nat /\ fifo_cnt' \in 0..4
      /\ start' \in BOOLEAN /\ busy' \in BOOLEAN /\ done' \in BOOLEAN
  BY DEF RP!Inv, RP!TypeOK
<1>2. accepted' = retired' + fifo_cnt' + RP!Bit(start') + RP!Bit(busy') + RP!Bit(done')
  BY DEF RP!Inv, RP!Conservation
<1>3. fifo_cnt' = 0 /\ ~start' /\ ~busy'
  <2>1. /\ RP!Bit(start') \in Nat /\ RP!Bit(busy') \in Nat /\ RP!Bit(done') \in Nat
        /\ start' => RP!Bit(start') > 0
        /\ busy' => RP!Bit(busy') > 0
    BY DEF RP!Bit
  <2>2. \A a, r, f, s, b, d \in Nat : a = r + f + s + b + d /\ a - r = 0
            => f = 0 /\ s = 0 /\ b = 0
    OBVIOUS
  <2>3. accepted' - retired' = 0
    BY DEF RP!Outstanding
  <2>4. fifo_cnt' \in Nat
    BY <1>1
  <2>5. fifo_cnt' = 0 /\ RP!Bit(start') = 0 /\ RP!Bit(busy') = 0
    BY <1>1, <1>2, <2>1, <2>2, <2>3, <2>4
  <2>6. QED
    BY <2>1, <2>5
<1>4. QED
  BY <1>3 DEF QueueOK

\* Between two blocks nothing is outstanding.
LEMMA BetweenIsDrained ==
    ASSUME RP!Inv, NEW e \in Nat, accepted = e, acked >= e
    PROVE  RP!Outstanding = 0
BY RP!Counting, RegsAssumptions DEF RP!Outstanding

-------------------------------------------------------------------------------
(* A step that stores nothing and moves only pc.                           *)
LEMMA QuietStep ==
    ASSUME DriverInv, Tick, UNCHANGED progVars,
           PhaseOK(pc', issued, collected, total),
           CountsOK(pc', issued, collected, earlier, accepted, retired, acked),
           HoldOK(pc', hold, issued, block),
           pc' # "returned" => block < Blocks
    PROVE  DriverInv'
<1>1. /\ RP!Inv' /\ hold' = hold
      /\ accepted' = accepted /\ retired' >= retired /\ acked' = acked
  BY TickStep DEF DriverInv
<1>2. QueueOK'
  BY QuietQueue DEF DriverInv, LoopOK, PhaseOK, progVars
<1>3. total' = total
  BY DEF total, n_nt, n_kt, progVars
<1>4. CountsOK(pc', issued, collected, earlier, accepted, retired', acked)
  <2>1. retired \in Nat /\ retired' \in Nat /\ acked \in Nat
    BY <1>1, RP!Counting, RegsAssumptions DEF DriverInv, RP!Inv, RP!TypeOK
  <2>2. \A r, s, k \in Nat : s >= r /\ r > k => s > k
    OBVIOUS
  <2>3. QED
    BY <1>1, <2>1, <2>2 DEF CountsOK
<1>5. LoopOK'
  BY <1>1, <1>3, <1>4 DEF LoopOK, DriverInv, progVars
<1>6. QED
  BY <1>1, <1>2, <1>5 DEF DriverInv

(* The issue of one tile: the slot written is not in flight and the queue  *)
(* has room, because at most three results are still to be collected.      *)
LEMMA IssueStep ==
    ASSUME DriverInv, Issue
    PROVE  DriverInv'
<1> USE DEF DriverInv
<1>1. /\ issued \in Nat /\ collected \in Nat /\ IssueSlot = issued % 4
      /\ IssueSlot \in Slot /\ IssueSlot \in Val /\ block \in Nat /\ block < Blocks
      /\ total \in Nat \ {0} /\ total = Layers[layer].nt * Layers[layer].kt
  <2>1. pc # "returned"
    BY DEF Issue, MemWriteW, MemWriteA, WriteRegs, StoreCmd
  <2>2. total \in Nat \ {0} /\ total = Layers[layer].nt * Layers[layer].kt
    BY TotalPositive DEF LoopOK, total, n_nt, n_kt
  <2>3. issued \in Nat /\ collected \in Nat /\ block \in Nat /\ block < Blocks
    BY <2>1 DEF LoopOK, PhaseOK
  <2>4. IssueSlot = issued % 4 /\ IssueSlot \in Slot
    BY <2>3 DEF IssueSlot, QDEPTH, Slot
  <2>5. QED
    BY <2>2, <2>3, <2>4, HostAssumption
<1>2. CASE MemWriteW(IssueSlot, Token(issued)) /\ UNCHANGED progVars
  <2>1. pc = "mem_w" /\ pc' = "mem_a" /\ Tick
    BY <1>2 DEF MemWriteW
  <2>2. PhaseOK(pc', issued, collected, total)
        /\ CountsOK(pc', issued, collected, earlier, accepted, retired, acked)
        /\ HoldOK(pc', hold, issued, block) /\ block < Blocks
    BY <1>1, <2>1 DEF LoopOK, PhaseOK, CountsOK, HoldOK, Issuing, Waiting, Between
  <2>3. QED
    BY <1>2, <2>1, <2>2, QuietStep
<1>3. CASE MemWriteA(IssueSlot, Token(issued)) /\ UNCHANGED progVars
  <2>1. pc = "mem_a" /\ pc' = "reg_w" /\ Tick
    BY <1>3 DEF MemWriteA
  <2>2. PhaseOK(pc', issued, collected, total)
        /\ CountsOK(pc', issued, collected, earlier, accepted, retired, acked)
        /\ HoldOK(pc', hold, issued, block) /\ block < Blocks
    BY <1>1, <2>1 DEF LoopOK, PhaseOK, CountsOK, HoldOK, Issuing, Waiting, Between
  <2>3. QED
    BY <1>3, <2>1, <2>2, QuietStep
<1>4. CASE WriteRegs(IssueSlot, block) /\ UNCHANGED progVars
  <2>1. block \in Val
    BY <1>1, DriverAssumption
  <2>2. /\ pc \in {"reg_w", "reg_a", "reg_c", "reg_m"}
        /\ pc' \in {"reg_a", "reg_c", "reg_m", "cmd"}
        /\ \E f \in {"w", "a", "c", "m"}, v \in Val :
              /\ Store(f, v)
              /\ pc' = "reg_a" => f = "w" /\ v = IssueSlot
              /\ pc' = "reg_c" => pc = "reg_a" /\ f = "a" /\ v = IssueSlot
              /\ pc' = "reg_m" => pc = "reg_c" /\ f = "c" /\ v = IssueSlot
              /\ pc' = "cmd" => pc = "reg_m" /\ f = "m" /\ v = block
    <3>1. CASE pc = "reg_w" /\ pc' = "reg_a" /\ Store("w", IssueSlot)
      BY <1>1, <3>1
    <3>2. CASE pc = "reg_a" /\ pc' = "reg_c" /\ Store("a", IssueSlot)
      BY <1>1, <3>2
    <3>3. CASE pc = "reg_c" /\ pc' = "reg_m" /\ Store("c", IssueSlot)
      BY <1>1, <3>3
    <3>4. CASE pc = "reg_m" /\ pc' = "cmd" /\ Store("m", block)
      BY <2>1, <3>4
    <3>5. QED
      BY <1>4, <3>1, <3>2, <3>3, <3>4 DEF WriteRegs
  <2>3. PICK f \in {"w", "a", "c", "m"}, v \in Val :
              /\ Store(f, v)
              /\ pc' = "reg_a" => f = "w" /\ v = IssueSlot
              /\ pc' = "reg_c" => pc = "reg_a" /\ f = "a" /\ v = IssueSlot
              /\ pc' = "reg_m" => pc = "reg_c" /\ f = "c" /\ v = IssueSlot
              /\ pc' = "cmd" => pc = "reg_m" /\ f = "m" /\ v = block
    BY <2>2
  <2>4. /\ RP!Inv' /\ hold' = [hold EXCEPT ![f] = v]
        /\ accepted' = accepted /\ retired' >= retired /\ acked' = acked
    BY <2>3, StoreStep
  <2>5. QueueOK'
    <3>1. Regs!FifoEdge(FALSE) /\ Regs!DatapathEdge
      BY <2>3 DEF Store, Regs!WriteField
    <3>2. issued' = issued /\ block' = block
      BY <1>4 DEF progVars
    <3>3. QED
      BY <1>1, <3>1, <3>2, QuietQueue
  <2>6. hold \in [{"w", "a", "c", "m"} -> Val]
    BY DEF RP!Inv, RP!TypeOK, RP!Cmd
  <2>7. HoldOK(pc', hold', issued, block)
    BY <1>1, <2>2, <2>3, <2>4, <2>6 DEF LoopOK, HoldOK
  <2>8. PhaseOK(pc', issued, collected, total)
        /\ CountsOK(pc', issued, collected, earlier, accepted', retired', acked')
    BY <1>1, <2>2, <2>4 DEF LoopOK, PhaseOK, CountsOK, Issuing, Waiting, Between
  <2>9. LoopOK'
    BY <1>1, <1>4, <2>7, <2>8 DEF LoopOK, progVars, total, n_nt, n_kt
  <2>10. QED
    BY <2>4, <2>5, <2>9
<1>5. CASE /\ StoreCmd /\ issued' = issued + 1
           /\ pc' = LoopPc(issued + 1, collected)
           /\ UNCHANGED <<layer, block, collected, base, acc, earlier>>
  <2>1. pc = "cmd" /\ Regs!WriteCmd
    BY <1>5 DEF StoreCmd
  <2>2. /\ issued < total /\ issued - collected < 4 /\ collected <= issued
        /\ earlier \in Nat /\ accepted = earlier + issued /\ acked >= earlier + collected
    BY <2>1 DEF LoopOK, PhaseOK, CountsOK, Issuing, Between
  <2>3. ~Regs!fifo_full
    <3>1. /\ accepted \in Nat /\ retired \in Nat /\ acked \in Nat /\ acked <= retired
          /\ fifo_cnt \in 0..4 /\ fifo_cnt <= accepted - retired
      BY RP!Counting, RegsAssumptions DEF RP!Outstanding
    <3>2. fifo_cnt < 4
      BY <1>1, <2>2, <3>1
    <3>3. QED
      BY <3>2 DEF Regs!fifo_full
  <2>4. /\ RP!Inv' /\ hold' = hold /\ accepted' = accepted + 1
        /\ retired' >= retired /\ acked' = acked
    BY <2>1, <2>3, CommandStep
  <2>5. QueueOK'
    <3>1. UsesSlotOf(hold, issued, block)
      BY <2>1 DEF LoopOK, HoldOK, UsesSlotOf
    <3>2. Regs!FifoEdge(TRUE) /\ Regs!DatapathEdge
      <4>1. Regs!CanEnqueue = TRUE
        BY <2>3 DEF Regs!CanEnqueue, Regs!fifo_full
      <4>2. QED
        BY <2>1, <4>1 DEF Regs!WriteCmd
    <3>3. issued' = issued + (IF TRUE THEN 1 ELSE 0) /\ block' = block
      BY <1>5
    <3>4. QED
      BY <1>1, <2>3, <3>1, <3>2, <3>3, QueueStep
  <2>6. PhaseOK(pc', issued', collected, total)
        /\ pc' \in {"mem_w", "wait_irq", "block_end"}
    <3>1. /\ issued + 1 \in Nat /\ collected <= issued + 1 /\ issued + 1 <= total
          /\ (issued + 1) - collected <= 4 /\ collected < total /\ total \in Nat
      BY <1>1, <2>2
    <3>2. QED
      BY <1>1, <1>5, <3>1, LoopPhase
  <2>7. CountsOK(pc', issued', collected, earlier, accepted', retired', acked')
    BY <1>1, <1>5, <2>2, <2>4, <2>6 DEF CountsOK, Between
  <2>8. HoldOK(pc', hold', issued', block)
    BY <2>6 DEF HoldOK
  <2>9. LoopOK'
    BY <1>1, <1>5, <2>6, <2>7, <2>8 DEF LoopOK, total, n_nt, n_kt
  <2>10. QED
    BY <2>4, <2>5, <2>9
<1>6. QED
  BY <1>2, <1>3, <1>4, <1>5 DEF Issue

(* A step between two blocks or at the end of one, which leaves nothing    *)
(* outstanding.                                                            *)
LEMMA DrainedStep ==
    ASSUME DriverInv, Tick, RP!Outstanding = 0
    PROVE  /\ RP!Inv' /\ QueueOK' /\ hold' = hold
           /\ accepted' = accepted /\ retired' >= retired /\ acked' = acked
<1>1. /\ RP!Inv' /\ hold' = hold
      /\ accepted' = accepted /\ retired' >= retired /\ acked' = acked
  BY TickStep DEF DriverInv
<1>2. RP!Outstanding' = 0
  BY <1>1, RP!Draining, RegsAssumptions DEF DriverInv
<1>3. QED
  BY <1>1, <1>2, EmptyQueue

(* Every step preserves the invariant.                                     *)
LEMMA DriverStep ==
    ASSUME DriverInv, [Next]_vars
    PROVE  DriverInv'
<1>0. /\ layer \in DOMAIN Layers /\ total \in Nat \ {0}
      /\ issued \in Nat /\ collected \in Nat /\ earlier \in Nat /\ block \in Nat
      /\ accepted \in Nat /\ retired \in Nat /\ acked \in Nat
      /\ acked <= retired /\ retired <= accepted
      /\ (irq_pending <=> retired > acked) /\ Blocks \in Nat \ {0}
  <2>1. layer \in DOMAIN Layers
    BY DEF DriverInv, LoopOK
  <2>2. total \in Nat \ {0}
    BY <2>1, TotalPositive DEF total, n_nt, n_kt
  <2>3. issued \in Nat /\ collected \in Nat /\ earlier \in Nat /\ block \in Nat
    BY DEF DriverInv, LoopOK, PhaseOK, CountsOK
  <2>4. accepted \in Nat /\ retired \in Nat /\ acked \in Nat /\ acked <= retired
        /\ accepted - retired >= 0 /\ (irq_pending <=> retired > acked)
    BY RP!Counting, RegsAssumptions DEF DriverInv, RP!Outstanding
  <2>5. QED
    BY <2>1, <2>2, <2>3, <2>4, DriverAssumption
<1>1. CASE Issue
  BY <1>1, IssueStep
<1>2. CASE EnableIrq
  <2>1. /\ RP!Inv' /\ hold' = hold
        /\ accepted' = accepted /\ retired' >= retired /\ acked' = retired
    BY <1>2, IrqStep DEF EnableIrq, DriverInv
  <2>2. QueueOK'
    BY <1>0, <1>2, QuietQueue DEF EnableIrq, Regs!WriteIrq, progVars, DriverInv
  <2>3. pc = "irq_on" /\ pc' = "block_start" /\ UNCHANGED progVars
    BY <1>2 DEF EnableIrq
  <2>4. accepted = earlier /\ acked >= earlier /\ block < Blocks
    BY <2>3 DEF DriverInv, LoopOK, CountsOK, Between
  <2>5. PhaseOK(pc', issued, collected, total)
        /\ CountsOK(pc', issued, collected, earlier, accepted', retired', acked')
        /\ HoldOK(pc', hold', issued, block)
    BY <1>0, <2>1, <2>3, <2>4
       DEF DriverInv, LoopOK, PhaseOK, CountsOK, HoldOK, Issuing, Waiting, Between
  <2>6. LoopOK'
    BY <1>0, <2>3, <2>4, <2>5 DEF LoopOK, progVars, total, n_nt, n_kt
  <2>7. QED
    BY <2>1, <2>2, <2>6 DEF DriverInv
<1>3. CASE BlockStart
  <2>1. pc = "block_start" /\ accepted = earlier /\ acked >= earlier /\ block < Blocks
    BY <1>3 DEF BlockStart, DriverInv, LoopOK, CountsOK, Between
  <2>2. RP!Outstanding = 0
    BY <1>0, <2>1, BetweenIsDrained DEF DriverInv
  <2>3. /\ RP!Inv' /\ QueueOK' /\ hold' = hold
        /\ accepted' = accepted /\ retired' >= retired /\ acked' = acked
    BY <1>3, <2>2, DrainedStep DEF BlockStart
  <2>4. pc' = "mem_w" /\ issued' = 0 /\ collected' = 0
        /\ UNCHANGED <<layer, block, earlier>>
    BY <1>0, <1>3 DEF BlockStart, LoopPc, CanIssue, QDEPTH
  <2>5. PhaseOK("mem_w", 0, 0, total)
        /\ CountsOK("mem_w", 0, 0, earlier, accepted', retired', acked')
        /\ HoldOK("mem_w", hold', 0, block)
    BY <1>0, <2>1, <2>3 DEF PhaseOK, CountsOK, HoldOK, Issuing, Waiting, Between
  <2>6. LoopOK'
    BY <1>0, <2>1, <2>4, <2>5 DEF LoopOK, total, n_nt, n_kt
  <2>7. QED
    BY <2>3, <2>6 DEF DriverInv
<1>4. CASE WaitIrq
  <2>1. pc = "wait_irq" /\ pc' = "rw1c" /\ Tick /\ UNCHANGED progVars /\ retired > acked
    BY <1>0, <1>4 DEF WaitIrq
  <2>2. PhaseOK(pc', issued, collected, total)
        /\ CountsOK(pc', issued, collected, earlier, accepted, retired, acked)
        /\ HoldOK(pc', hold, issued, block) /\ block < Blocks
    BY <1>0, <2>1
       DEF DriverInv, LoopOK, PhaseOK, CountsOK, HoldOK, Issuing, Waiting, Between
  <2>3. QED
    BY <2>1, <2>2, QuietStep
<1>5. CASE ClearIrq
  <2>1. /\ RP!Inv' /\ hold' = hold
        /\ accepted' = accepted /\ retired' >= retired /\ acked' = retired
    BY <1>5, IrqStep DEF ClearIrq, DriverInv
  <2>2. QueueOK'
    BY <1>0, <1>5, QuietQueue DEF ClearIrq, Regs!WriteIrq, progVars, DriverInv
  <2>3. pc = "rw1c" /\ pc' = "status" /\ UNCHANGED progVars
    BY <1>5 DEF ClearIrq
  <2>4. accepted = earlier + issued /\ acked >= earlier + collected /\ retired > acked
        /\ block < Blocks
    BY <2>3 DEF DriverInv, LoopOK, CountsOK, Between
  <2>5. PhaseOK(pc', issued, collected, total)
        /\ CountsOK(pc', issued, collected, earlier, accepted', retired', acked')
        /\ HoldOK(pc', hold', issued, block)
    BY <1>0, <2>1, <2>3, <2>4
       DEF DriverInv, LoopOK, PhaseOK, CountsOK, HoldOK, Issuing, Waiting, Between
  <2>6. LoopOK'
    BY <1>0, <2>3, <2>4, <2>5 DEF LoopOK, progVars, total, n_nt, n_kt
  <2>7. QED
    BY <2>1, <2>2, <2>6 DEF DriverInv
<1>6. CASE ReadStatus
  <2>1. pc = "status" /\ pc' \in {"mem_c", "wait_irq"} /\ Tick /\ UNCHANGED progVars
    BY <1>6 DEF ReadStatus
  <2>2. PhaseOK(pc', issued, collected, total)
        /\ CountsOK(pc', issued, collected, earlier, accepted, retired, acked)
        /\ HoldOK(pc', hold, issued, block) /\ block < Blocks
    BY <1>0, <2>1
       DEF DriverInv, LoopOK, PhaseOK, CountsOK, HoldOK, Issuing, Waiting, Between
  <2>3. QED
    BY <2>1, <2>2, QuietStep
<1>7. CASE Collect
  <2>1. /\ pc = "mem_c" /\ pc' = LoopPc(issued, collected + 1) /\ Tick
        /\ collected' = collected + 1 /\ UNCHANGED <<layer, block, issued, earlier>>
    BY <1>7 DEF Collect
  <2>2. /\ collected < total /\ issued <= total /\ issued - collected <= 4
        /\ accepted = earlier + issued /\ acked > earlier + collected /\ block < Blocks
    BY <2>1 DEF DriverInv, LoopOK, PhaseOK, CountsOK, Waiting, Between
  <2>3. /\ RP!Inv' /\ hold' = hold
        /\ accepted' = accepted /\ retired' >= retired /\ acked' = acked
    BY <2>1, TickStep DEF DriverInv
  <2>4. QueueOK'
    BY <1>0, <2>1, QuietQueue DEF DriverInv
  <2>5. collected + 1 <= issued
    BY <1>0, <2>2
  <2>6. PhaseOK(pc', issued, collected', total)
        /\ pc' \in {"mem_w", "wait_irq", "block_end"}
    <3>1. /\ collected + 1 \in Nat /\ issued - (collected + 1) <= 4 /\ total \in Nat
          /\ collected + 1 = total \/ issued < total \/ collected + 1 < total
      BY <1>0, <2>2, <2>5
    <3>2. QED
      BY <1>0, <2>1, <2>2, <2>5, <3>1, LoopPhase
  <2>7. CountsOK(pc', issued, collected', earlier, accepted', retired', acked')
    BY <1>0, <2>1, <2>2, <2>3, <2>6 DEF CountsOK, Between
  <2>8. HoldOK(pc', hold', issued, block)
    BY <2>6 DEF HoldOK
  <2>9. LoopOK'
    BY <1>0, <2>1, <2>2, <2>6, <2>7, <2>8 DEF LoopOK, total, n_nt, n_kt
  <2>10. QED
    BY <2>3, <2>4, <2>9 DEF DriverInv
<1>8. CASE BlockEnd
  <2>1. /\ pc = "block_end" /\ Tick /\ block' = block + 1 /\ earlier' = earlier + total
        /\ pc' = IF block + 1 < Blocks THEN "block_start" ELSE "returned"
        /\ UNCHANGED <<layer, issued, collected>>
    BY <1>8 DEF BlockEnd
  <2>2. /\ issued = total /\ collected = total
        /\ accepted = earlier + issued /\ acked >= earlier + collected
    BY <1>0, <2>1 DEF DriverInv, LoopOK, PhaseOK, CountsOK, Between
  <2>3. RP!Outstanding = 0
    BY <1>0, <2>2 DEF RP!Outstanding
  <2>4. /\ RP!Inv' /\ QueueOK' /\ hold' = hold
        /\ accepted' = accepted /\ retired' >= retired /\ acked' = acked
    BY <2>1, <2>3, DrainedStep
  <2>5. PhaseOK(pc', issued, collected, total)
        /\ CountsOK(pc', issued, collected, earlier + total, accepted', retired', acked')
        /\ HoldOK(pc', hold', issued, block')
    BY <1>0, <2>1, <2>2, <2>4 DEF PhaseOK, CountsOK, HoldOK, Issuing, Waiting, Between
  <2>6. LoopOK'
    BY <1>0, <2>1, <2>5 DEF LoopOK, total, n_nt, n_kt
  <2>7. QED
    BY <2>4, <2>6 DEF DriverInv
<1>9. CASE NextLayer
  <2>1. /\ pc = "returned" /\ pc' = "irq_on" /\ Tick /\ layer < Len(Layers)
        /\ layer' = layer + 1 /\ block' = 0 /\ issued' = 0 /\ collected' = 0
        /\ earlier' = earlier
    BY <1>9 DEF NextLayer
  <2>2. accepted = earlier /\ acked >= earlier
    BY <2>1 DEF DriverInv, LoopOK, CountsOK, Between
  <2>3. RP!Outstanding = 0
    BY <1>0, <2>2, BetweenIsDrained DEF DriverInv
  <2>4. /\ RP!Inv' /\ QueueOK' /\ hold' = hold
        /\ accepted' = accepted /\ retired' >= retired /\ acked' = acked
    BY <2>1, <2>3, DrainedStep
  <2>5. layer' \in DOMAIN Layers
    BY <1>0, <2>1, DriverAssumption
  <2>6. total' \in Nat \ {0}
    BY <2>5, TotalPositive DEF total, n_nt, n_kt
  <2>7. PhaseOK(pc', 0, 0, total')
        /\ CountsOK(pc', 0, 0, earlier, accepted', retired', acked')
        /\ HoldOK(pc', hold', 0, 0)
    BY <1>0, <2>1, <2>2, <2>4, <2>6
       DEF PhaseOK, CountsOK, HoldOK, Issuing, Waiting, Between
  <2>8. LoopOK'
    BY <1>0, <2>1, <2>5, <2>7 DEF LoopOK
  <2>9. QED
    BY <2>4, <2>8 DEF DriverInv
<1>10. ASSUME Tick, pc' = pc, UNCHANGED progVars
       PROVE  DriverInv'
  BY <1>10, QuietStep DEF DriverInv, LoopOK
<1>11. CASE OtherCycle
  BY <1>10, <1>11 DEF OtherCycle, Tick
<1>12. CASE UNCHANGED vars
  BY <1>10, <1>12 DEF vars, Tick, bufVars
<1>13. QED
  BY <1>1, <1>2, <1>3, <1>4, <1>5, <1>6, <1>7, <1>8, <1>9, <1>11, <1>12 DEF Next, Drive

-------------------------------------------------------------------------------
(* The driver starts in it.                                                *)
LEMMA DriverInitially == Init => DriverInv
<1> SUFFICES ASSUME Init PROVE DriverInv
  OBVIOUS
<1>1. RP!Inv /\ accepted = 0 /\ retired = 0 /\ acked = 0
  BY HostInitStep DEF Init
<1>2. layer \in DOMAIN Layers /\ layer = 1
  BY DriverAssumption DEF Init
<1>3. total \in Nat \ {0}
  BY <1>2, TotalPositive DEF total, n_nt, n_kt
<1>4. LoopOK
  BY <1>1, <1>2, <1>3, DriverAssumption
     DEF Init, LoopOK, PhaseOK, CountsOK, HoldOK, Issuing, Waiting, Between
<1>5. fifo_cnt = 0 /\ ~start /\ ~busy
  BY <1>1, RP!Counting, RegsAssumptions DEF RP!Outstanding
<1>6. QED
  BY <1>1, <1>4, <1>5 DEF DriverInv, QueueOK

(* The invariant of the interrupt-driven driver.                           *)
THEOREM DriverInvariance == Spec => []DriverInv
<1>1. Init => DriverInv
  BY DriverInitially
<1>2. DriverInv /\ [Next]_vars => DriverInv'
  BY DriverStep
<1>3. QED
  BY <1>1, <1>2, PTL DEF Spec

(* A result is read only after its own command has retired, however often  *)
(* done_count has wrapped since (coproc_driver.h:94-104): one interrupt is *)
(* taken for each result.                                                  *)
THEOREM ResultsHaveRetired == Spec => []ReadAfterRetired
<1>1. DriverInv => ReadAfterRetired
  <2> SUFFICES ASSUME DriverInv, pc = "mem_c" PROVE retired > earlier + collected
    BY DEF ReadAfterRetired
  <2>1. acked > earlier + collected /\ earlier \in Nat /\ collected \in Nat
    BY DEF DriverInv, LoopOK, CountsOK, PhaseOK
  <2>2. acked <= retired /\ acked \in Nat /\ retired \in Nat
    BY RP!Counting, RegsAssumptions DEF DriverInv
  <2>3. QED
    BY <2>1, <2>2
<1>2. QED
  BY <1>1, DriverInvariance, PTL

(* The buffers of a slot are written, and its result read, only when no    *)
(* command in flight uses the slot (coproc_driver.h:134, 143).             *)
THEOREM SlotsAreSafe == Spec => []SlotSafe
<1>1. ASSUME DriverInv, pc \in {"mem_w", "mem_a", "mem_c"}, NEW c \in InFlight
      PROVE  \E j \in Nat : /\ UsesSlotOf(c, j, block) /\ j < issued
                            /\ pc = "mem_c" => j > collected
                            /\ pc \in {"mem_w", "mem_a"} => j > issued - 4
  <2>1. /\ issued \in Nat /\ collected \in Nat /\ earlier \in Nat
        /\ accepted = earlier + issued /\ acked >= earlier + collected
        /\ pc = "mem_c" => acked > earlier + collected
        /\ pc \in {"mem_w", "mem_a"} => issued - collected < 4
    BY <1>1 DEF DriverInv, LoopOK, PhaseOK, CountsOK, Issuing, Between
  <2>2. /\ accepted \in Nat /\ retired \in Nat /\ acked \in Nat /\ acked <= retired
        /\ fifo_cnt \in 0..4 /\ fifo_cnt <= accepted - retired
        /\ start \/ busy => fifo_cnt < accepted - retired
    BY <1>1, RP!Counting, RegsAssumptions DEF DriverInv, RP!Outstanding
  <2>3. CASE \E i \in 0..(fifo_cnt - 1) : c = fifo_mem[(fifo_rp + i) % 4]
    <3>1. PICK i \in 0..(fifo_cnt - 1) : c = fifo_mem[(fifo_rp + i) % 4]
      BY <2>3
    <3>2. i \in 0..3 /\ i < fifo_cnt
      BY <2>2, <3>1
    <3>3. UsesSlotOf(c, issued - fifo_cnt + i, block)
      BY <1>1, <3>1, <3>2 DEF DriverInv, QueueOK
    <3>4. QED
      BY <2>1, <2>2, <3>2, <3>3
  <2>4. CASE (start \/ busy) /\ c = cmd
    <3>1. UsesSlotOf(c, issued - fifo_cnt - 1, block)
      BY <1>1, <2>4 DEF DriverInv, QueueOK
    <3>2. QED
      BY <2>1, <2>2, <2>4, <3>1
  <2>5. QED
    BY <1>1, <2>3, <2>4 DEF InFlight
<1>2. \A j, k \in Nat : j < k /\ j > k - 4 => j % 4 # k % 4
  OBVIOUS
<1>3. ASSUME DriverInv PROVE SlotSafe
  <2>0. issued \in Nat /\ collected \in Nat /\ issued <= collected + 4
    BY <1>3 DEF DriverInv, LoopOK, PhaseOK
  <2>1. ASSUME pc \in {"mem_w", "mem_a"}, NEW c \in InFlight
        PROVE  c.w # IssueSlot /\ c.a # IssueSlot
    <3>1. PICK j \in Nat : UsesSlotOf(c, j, block) /\ j < issued /\ j > issued - 4
      BY <1>1, <1>3, <2>1
    <3>2. j % 4 # issued % 4
      BY <1>2, <2>0, <3>1
    <3>3. QED
      BY <3>1, <3>2 DEF UsesSlotOf, IssueSlot, QDEPTH
  <2>2. ASSUME pc = "mem_c", NEW c \in InFlight
        PROVE  c.c # CollectSlot
    <3>1. PICK j \in Nat : UsesSlotOf(c, j, block) /\ j < issued /\ j > collected
      BY <1>1, <1>3, <2>2
    <3>2. collected < j /\ collected > j - 4
      BY <2>0, <3>1
    <3>3. collected % 4 # j % 4
      BY <1>2, <2>0, <3>1, <3>2
    <3>4. QED
      BY <3>1, <3>3 DEF UsesSlotOf, CollectSlot, QDEPTH
  <2>3. QED
    BY <2>1, <2>2 DEF SlotSafe
<1>4. QED
  BY <1>3, DriverInvariance, PTL

(* What is in flight at a store to CMD fits in the queue.                  *)
LEMMA RoomForTheCommand ==
    ASSUME DriverInv PROVE NeverDropped
<1> SUFFICES ASSUME pc = "cmd" PROVE ~Regs!fifo_full
  BY DEF NeverDropped
<1>1. /\ issued \in Nat /\ collected \in Nat /\ issued - collected < 4 /\ earlier \in Nat
      /\ accepted = earlier + issued /\ acked >= earlier + collected
  BY DEF DriverInv, LoopOK, PhaseOK, CountsOK, Issuing, Between
<1>2. /\ accepted \in Nat /\ retired \in Nat /\ acked \in Nat /\ acked <= retired
      /\ fifo_cnt \in 0..4 /\ fifo_cnt <= accepted - retired
  BY RP!Counting, RegsAssumptions DEF DriverInv, RP!Outstanding
<1>3. QED
  BY <1>1, <1>2 DEF Regs!fifo_full

(* The driver never looks at queue_full, it only bounds what is in flight  *)
(* (coproc_driver.h:134), and still no store to CMD is dropped.            *)
THEOREM TilesAreAccepted == Spec => []NeverDropped
<1>1. DriverInv => NeverDropped
  BY RoomForTheCommand
<1>2. QED
  BY <1>1, DriverInvariance, PTL
-------------------------------------------------------------------------------
(* What is accumulated.  A command of the block is finished when its done  *)
(* pulse is up; until then its operand buffers hold its operands, and from *)
(* then until it is collected its result buffer holds its result.          *)
TileToken == Nat \X Nat \X Nat
TileResult == TileToken \X TileToken \X Nat

\* What tile i of block b of this call contributes to C.
Result(b, i) == <<<<layer, b, i>>, <<layer, b, i>>, b>>

Finished == retired + (IF done THEN 1 ELSE 0) - earlier

Loaded == {"reg_w", "reg_a", "reg_c", "reg_m", "cmd"}

BuffersOK ==
    pc \notin Between =>
        /\ \A j \in Finished..(issued - 1) :
               w_buf[j % 4] = Token(j) /\ a_buf[j % 4] = Token(j)
        /\ \A j \in collected..(Finished - 1) : c_buf[j % 4] = Result(block, j)
        /\ pc \in Loaded \cup {"mem_a"} => w_buf[issued % 4] = Token(issued)
        /\ pc \in Loaded => a_buf[issued % 4] = Token(issued)

\* How many of c results, of k for each column tile, belong to column tile nt.
Summed(c, nt, k) == IF c <= nt * k THEN 0 ELSE IF c - nt * k < k THEN c - nt * k ELSE k

\* The block that is, or was last, accumulated.
AccBlock == IF pc \in {"block_start", "returned"} THEN block - 1 ELSE block

AccOK ==
    /\ pc = "irq_on" => acc = <<>>
    /\ acc = <<>> \/ acc \in [0..(n_nt - 1) -> Seq(TileResult)]
    /\ pc \notin Between => acc \in [0..(n_nt - 1) -> Seq(TileResult)]
    /\ \A nt \in DOMAIN acc :
           /\ Len(acc[nt]) = Summed(collected, nt, n_kt)
           /\ \A k \in 1..Len(acc[nt]) : acc[nt][k] = Result(AccBlock, nt * n_kt + k - 1)

BufTypes ==
    /\ w_buf \in [Slot -> TileToken \cup {NoToken}]
    /\ a_buf \in [Slot -> TileToken \cup {NoToken}]
    /\ DOMAIN c_buf = Slot

DataInv == DriverInv /\ BufTypes /\ BuffersOK /\ AccOK

(* Where a block is under way, the finished commands lie between those     *)
(* collected and those issued, and what runs is the next one to finish.    *)
LEMMA FinishedBounds ==
    ASSUME DriverInv, pc \notin Between
    PROVE  /\ issued \in Nat /\ collected \in Nat /\ earlier \in Nat
           /\ layer \in Nat /\ block \in Nat
           /\ Finished \in Nat /\ collected <= Finished /\ Finished <= issued
           /\ issued - collected <= 4
           /\ pc \in Issuing => issued - collected < 4
           /\ pc = "mem_c" => collected < Finished
           /\ busy => issued - fifo_cnt - 1 = Finished /\ Finished < issued
<1>1. /\ issued \in Nat /\ collected \in Nat /\ earlier \in Nat /\ block \in Nat
      /\ layer \in Nat /\ accepted = earlier + issued /\ acked >= earlier + collected
      /\ pc = "mem_c" => acked > earlier + collected
      /\ issued - collected <= 4 /\ (pc \in Issuing => issued - collected < 4)
  BY DriverAssumption DEF DriverInv, LoopOK, PhaseOK, CountsOK
<1>2. /\ accepted \in Nat /\ retired \in Nat /\ acked \in Nat /\ acked <= retired
      /\ fifo_cnt \in 0..4
      /\ start \in BOOLEAN /\ busy \in BOOLEAN /\ done \in BOOLEAN
  BY DEF DriverInv, RP!Inv, RP!TypeOK, RP!CountsRetired
<1>3. accepted = retired + fifo_cnt + (IF start THEN 1 ELSE 0) + (IF busy THEN 1 ELSE 0)
                         + (IF done THEN 1 ELSE 0)
  BY DEF DriverInv, RP!Inv, RP!Conservation, RP!Bit
<1>4. busy => ~start /\ ~done
  BY DEF DriverInv, RP!Inv, RP!InFlightExclusive
<1>5. Finished \in Nat /\ collected <= Finished /\ Finished <= issued
      /\ (pc = "mem_c" => collected < Finished)
  BY <1>1, <1>2, <1>3 DEF Finished
<1>6. busy => issued - fifo_cnt - 1 = Finished /\ Finished < issued
  BY <1>1, <1>2, <1>3, <1>4 DEF Finished
<1>7. QED
  BY <1>1, <1>5, <1>6

(* On any edge the results not yet collected stay, and a command that      *)
(* finishes leaves its own result in its own buffer.                       *)
LEMMA ResultsKept ==
    ASSUME DriverInv, BufTypes, BuffersOK, pc \notin Between, AnyCycle, earlier' = earlier
    PROVE  /\ Finished' \in {Finished, Finished + 1} /\ DOMAIN c_buf' = Slot
           /\ \A j \in collected..(Finished' - 1) : c_buf'[j % 4] = Result(block, j)
<1>1. CASE UNCHANGED <<regVars, c_buf>>
  <2>1. Finished' = Finished /\ c_buf' = c_buf
    BY <1>1 DEF Finished, regVars
  <2>2. QED
    BY <2>1 DEF BuffersOK, BufTypes
<1>2. ASSUME NEW e \in BOOLEAN, NEW clear \in BOOLEAN, Regs!FifoEdge(e),
             Regs!RetireEdge(clear), Regs!DatapathEdge, ResultEdge
      PROVE  /\ Finished' \in {Finished, Finished + 1} /\ DOMAIN c_buf' = Slot
             /\ \A j \in collected..(Finished' - 1) : c_buf'[j % 4] = Result(block, j)
  <2>1. retired \in Nat /\ retired' = retired + (IF done THEN 1 ELSE 0)
    BY <1>2 DEF Regs!RetireEdge, Regs!Bit, DriverInv, RP!Inv, RP!TypeOK
  <2>2. Finished' = Finished + (IF done' THEN 1 ELSE 0) /\ Finished \in Nat
    BY <2>1, FinishedBounds DEF Finished
  <2>3. DOMAIN c_buf' = Slot
    BY <1>2 DEF ResultEdge, BufTypes
  <2>4. CASE ~done'
    <3>1. c_buf' = c_buf /\ Finished' = Finished
      BY <1>2, <2>2, <2>4 DEF ResultEdge
    <3>2. QED
      BY <2>3, <3>1 DEF BuffersOK
  <2>5. CASE done'
    <3>1. busy
      BY <1>2, <2>5 DEF Regs!DatapathEdge, Regs!DP!Run, Regs!DP!Accept, Regs!DP!Rest
    <3>2. UsesSlotOf(cmd, Finished, block) /\ Finished < issued
      BY <3>1, FinishedBounds DEF DriverInv, QueueOK
    <3>3. Product = Result(block, Finished)
      BY <3>2, FinishedBounds DEF Product, UsesSlotOf, BuffersOK, Token, Result
    <3>4. c_buf' = [c_buf EXCEPT ![Finished % 4] = Result(block, Finished)]
      BY <1>2, <2>5, <3>2, <3>3 DEF ResultEdge, UsesSlotOf
    <3>5. ASSUME NEW j \in collected..(Finished' - 1)
          PROVE  c_buf'[j % 4] = Result(block, j)
      <4>1. j % 4 \in Slot
        BY FinishedBounds DEF Slot, QDEPTH
      <4>2. CASE j = Finished
        BY <3>4, <4>1, <4>2 DEF BufTypes
      <4>3. CASE j # Finished
        <5>1. j \in collected..(Finished - 1) /\ j % 4 # Finished % 4
          BY <2>2, <2>5, <3>2, <4>3, FinishedBounds
        <5>2. c_buf'[j % 4] = c_buf[j % 4]
          BY <3>4, <4>1, <5>1 DEF BufTypes
        <5>3. QED
          BY <5>1, <5>2 DEF BuffersOK
      <4>4. QED
        BY <4>2, <4>3
    <3>6. QED
      BY <2>2, <2>3, <2>5, <3>5
  <2>6. QED
    BY <2>4, <2>5
<1>3. QED
  BY <1>1, <1>2 DEF AnyCycle

(* Where the operand buffers are not written, what they hold for the       *)
(* unfinished commands stays, with the command being stored among them.    *)
LEMMA OperandsKept ==
    ASSUME DriverInv, BufTypes, BuffersOK, pc \notin Between, AnyCycle,
           UNCHANGED <<w_buf, a_buf, layer, block, earlier>>,
           collected' \in Nat, collected' >= collected,
           \/ /\ issued' = issued
              /\ pc' \in Loaded => pc \in Loaded
              /\ pc' = "mem_a" => pc = "mem_a"
           \/ /\ pc = "cmd" /\ issued' = issued + 1
              /\ pc' \notin Loaded \cup {"mem_a"}
    PROVE  BufTypes' /\ BuffersOK'
<1>1. /\ Finished' \in {Finished, Finished + 1} /\ DOMAIN c_buf' = Slot
      /\ \A j \in collected..(Finished' - 1) : c_buf'[j % 4] = Result(block, j)
  BY ResultsKept
<1>2. /\ issued \in Nat /\ collected \in Nat /\ Finished \in Nat
      /\ collected <= Finished /\ Finished <= issued
  BY FinishedBounds
<1>3. BufTypes'
  BY <1>1 DEF BufTypes
<1>4. \A i : Token(i)' = Token(i)
  BY DEF Token
<1>5. \A j : Result(block, j)' = Result(block, j)
  BY DEF Result
<1>6. \A j \in (Finished')..(issued' - 1) :
         w_buf'[j % 4] = Token(j) /\ a_buf'[j % 4] = Token(j)
  <2> SUFFICES ASSUME NEW j \in (Finished')..(issued' - 1)
               PROVE  w_buf[j % 4] = Token(j) /\ a_buf[j % 4] = Token(j)
    OBVIOUS
  <2>1. CASE j \in Finished..(issued - 1)
    BY <2>1 DEF BuffersOK
  <2>2. CASE j \notin Finished..(issued - 1)
    <3>1. pc = "cmd" /\ j = issued
      BY <1>1, <1>2, <2>2
    <3>2. QED
      BY <3>1 DEF BuffersOK, Loaded
  <2>3. QED
    BY <2>1, <2>2
<1>7. \A j \in (collected')..(Finished' - 1) : c_buf'[j % 4] = Result(block, j)
  <2>1. Finished' \in Nat
    BY <1>1, <1>2
  <2>2. \A a, b, f \in Nat : b >= a => \A j \in b..(f - 1) : j \in a..(f - 1)
    OBVIOUS
  <2>3. QED
    BY <1>1, <1>2, <2>1, <2>2
<1>8. /\ pc' \in Loaded \cup {"mem_a"} => w_buf'[issued' % 4] = Token(issued')
      /\ pc' \in Loaded => a_buf'[issued' % 4] = Token(issued')
  BY DEF BuffersOK
<1>9. QED
  BY <1>3, <1>4, <1>5, <1>6, <1>7, <1>8 DEF BuffersOK

(* The two stores to the operand buffers go to a slot that no unfinished   *)
(* command uses.                                                           *)
LEMMA OperandsWritten ==
    ASSUME DriverInv, BufTypes, BuffersOK, Tick, UNCHANGED progVars,
           \/ MemWriteW(IssueSlot, Token(issued))
           \/ MemWriteA(IssueSlot, Token(issued))
    PROVE  BufTypes' /\ BuffersOK'
<1>0. pc \in {"mem_w", "mem_a"} /\ pc \notin Between /\ pc \in Issuing
  BY DEF MemWriteW, MemWriteA, Between, Issuing
<1>1. /\ Finished' \in {Finished, Finished + 1} /\ DOMAIN c_buf' = Slot
      /\ \A j \in collected..(Finished' - 1) : c_buf'[j % 4] = Result(block, j)
  BY <1>0, ResultsKept, StepsAreCycles DEF progVars
<1>2. /\ issued \in Nat /\ collected \in Nat /\ Finished \in Nat
      /\ collected <= Finished /\ Finished <= issued /\ issued - collected < 4
      /\ layer \in Nat /\ block \in Nat
  BY <1>0, FinishedBounds
<1>3. \A i : Token(i)' = Token(i)
  BY DEF Token, progVars
<1>4. \A j : Result(block, j)' = Result(block, j)
  BY DEF Result, progVars
<1>5. /\ IssueSlot = issued % 4 /\ IssueSlot \in Slot
      /\ Token(issued) \in TileToken
  BY <1>2 DEF IssueSlot, Slot, QDEPTH, Token, TileToken
<1>6. \A j \in Finished..(issued - 1) : j % 4 \in Slot /\ j % 4 # issued % 4
  BY <1>2 DEF Slot, QDEPTH
<1>7. \A j \in (Finished')..(issued - 1) : j \in Finished..(issued - 1)
  BY <1>1, <1>2
<1>8. CASE MemWriteW(IssueSlot, Token(issued))
  <2>1. /\ w_buf' = [w_buf EXCEPT ![issued % 4] = Token(issued)]
        /\ a_buf' = a_buf /\ pc' = "mem_a"
    BY <1>5, <1>8 DEF MemWriteW
  <2>2. BufTypes' /\ w_buf'[issued % 4] = Token(issued)
    BY <1>1, <1>5, <2>1 DEF BufTypes
  <2>3. \A j \in Finished..(issued - 1) : w_buf'[j % 4] = w_buf[j % 4]
    BY <1>6, <2>1 DEF BufTypes
  <2>4. \A j \in (Finished')..(issued - 1) :
           w_buf'[j % 4] = Token(j) /\ a_buf'[j % 4] = Token(j)
    BY <1>0, <1>7, <2>1, <2>3 DEF BuffersOK
  <2>5. QED
    BY <1>1, <1>3, <1>4, <2>1, <2>2, <2>4 DEF BuffersOK, Loaded, progVars
<1>9. CASE MemWriteA(IssueSlot, Token(issued))
  <2>1. /\ a_buf' = [a_buf EXCEPT ![issued % 4] = Token(issued)]
        /\ w_buf' = w_buf /\ pc = "mem_a" /\ pc' = "reg_w"
    BY <1>5, <1>9 DEF MemWriteA
  <2>2. BufTypes' /\ a_buf'[issued % 4] = Token(issued)
    BY <1>1, <1>5, <2>1 DEF BufTypes
  <2>3. \A j \in Finished..(issued - 1) : a_buf'[j % 4] = a_buf[j % 4]
    BY <1>6, <2>1 DEF BufTypes
  <2>4. /\ w_buf'[issued % 4] = Token(issued)
        /\ \A j \in (Finished')..(issued - 1) :
              w_buf'[j % 4] = Token(j) /\ a_buf'[j % 4] = Token(j)
    BY <1>0, <1>7, <2>1, <2>3 DEF BuffersOK
  <2>5. QED
    BY <1>1, <1>3, <1>4, <2>1, <2>2, <2>4 DEF BuffersOK, Loaded, progVars
<1>10. QED
  BY <1>8, <1>9

(* A result is added to the column tile its number falls into, as the next *)
(* of it, and to no other.                                                 *)
LEMMA SummedStep ==
    ASSUME NEW k \in Nat \ {0}, NEW n \in Nat, NEW c \in Nat, c < n * k
    PROVE  /\ c \div k \in 0..(n - 1)
           /\ (c \div k) * k + Summed(c, c \div k, k) = c
           /\ Summed(c + 1, c \div k, k) = Summed(c, c \div k, k) + 1
           /\ \A nt \in 0..(n - 1) :
                 nt # c \div k => Summed(c + 1, nt, k) = Summed(c, nt, k)
<1> DEFINE q == c \div k
           r == c % k
<1>1. q \in Nat /\ r \in 0..(k - 1) /\ c = q * k + r
  <2>1. q \in Int /\ r \in 0..(k - 1) /\ c = k * q + r
    BY Z3
  <2>2. q >= 0
    <3>1. \A x \in Int : x <= -1 => k * x <= -k
      BY Z3
    <3> HIDE DEF q
    <3>2. q <= -1 => k * q <= -k
      BY <2>1, <3>1
    <3>3. k * q > -k
      BY <2>1
    <3>4. QED
      BY <2>1, <3>2, <3>3
  <2>3. k * q = q * k
    BY <2>1, Z3
  <2> HIDE DEF q, r
  <2>4. QED
    BY <2>1, <2>2, <2>3
<1> HIDE DEF q, r
<1>2. q * k \in Nat /\ n * k \in Nat
  BY <1>1, Z3
<1>3. ASSUME NEW a \in Nat, NEW b \in Nat, a < b
      PROVE  a * k + k <= b * k /\ a * k \in Nat /\ b * k \in Nat
  <2>1. PICK d \in Nat : b = a + 1 + d
    <3>1. b - a - 1 \in Nat /\ b = a + 1 + (b - a - 1)
      BY <1>3
    <3>2. QED
      BY <3>1
  <2>2. b * k = a * k + k + d * k /\ a * k \in Nat /\ b * k \in Nat /\ d * k \in Nat
    BY <2>1, Z3
  <2>3. QED
    BY <2>2
<1>4. q < n
  <2>1. CASE n < q
    BY <1>1, <1>2, <1>3, <2>1
  <2>2. CASE n = q
    BY <1>1, <1>2, <2>2
  <2>3. QED
    BY <1>1, <2>1, <2>2
<1>5. /\ q \in 0..(n - 1)
      /\ q * k + Summed(c, q, k) = c
      /\ Summed(c + 1, q, k) = Summed(c, q, k) + 1
  BY <1>1, <1>2, <1>4 DEF Summed
<1>6. ASSUME NEW nt \in 0..(n - 1), nt # q
      PROVE  Summed(c + 1, nt, k) = Summed(c, nt, k)
  <2>1. CASE nt < q
    <3>1. nt * k + k <= q * k /\ nt * k \in Nat
      BY <1>1, <1>3, <2>1
    <3>2. QED
      BY <1>1, <1>2, <3>1 DEF Summed
  <2>2. CASE q < nt
    <3>1. q * k + k <= nt * k /\ nt * k \in Nat
      BY <1>1, <1>3, <2>2
    <3>2. QED
      BY <1>1, <1>2, <3>1 DEF Summed
  <2>3. QED
    BY <1>1, <1>6, <2>1, <2>2
<1>7. QED
  BY <1>5, <1>6 DEF q

(* A step that adds nothing to C.                                          *)
LEMMA AccKept ==
    ASSUME DriverInv, AccOK, UNCHANGED <<acc, layer, collected>>,
           pc' # "irq_on" \/ pc = "irq_on",
           pc' \in Between \/ pc \notin Between,
           acc = <<>> \/ AccBlock' = AccBlock
    PROVE  AccOK'
<1>1. n_nt' = n_nt /\ n_kt' = n_kt
  BY DEF n_nt, n_kt
<1>2. \A b, i : Result(b, i)' = Result(b, i)
  BY DEF Result
<1>3. CASE acc = <<>>
  <2>1. DOMAIN acc = {}
    BY <1>3
  <2>2. QED
    BY <1>1, <2>1 DEF AccOK
<1>4. CASE AccBlock' = AccBlock
  BY <1>1, <1>2, <1>4 DEF AccOK, Result
<1>5. QED
  BY <1>3, <1>4

\* The sequence with one more element, at its end.
LEMMA Appended ==
    ASSUME NEW T, NEW s \in Seq(T), NEW e \in T
    PROVE  /\ Append(s, e) \in Seq(T) /\ Len(s) \in Nat
           /\ Len(Append(s, e)) = Len(s) + 1
           /\ \A k \in 1..Len(Append(s, e)) :
                 Append(s, e)[k] = IF k = Len(s) + 1 THEN e ELSE s[k]
OBVIOUS

(* A result collected is the next one of its column tile.                  *)
LEMMA AccCollects ==
    ASSUME DriverInv, BuffersOK, AccOK, Collect
    PROVE  AccOK'
<1>1. /\ pc = "mem_c" /\ pc \notin Between /\ collected < total
      /\ n_kt \in Nat \ {0} /\ n_nt \in Nat \ {0}
  <2>1. pc = "mem_c" /\ collected < total /\ layer \in DOMAIN Layers
    BY DEF Collect, DriverInv, LoopOK, PhaseOK, Waiting
  <2> DEFINE Shape == [kt : Nat \ {0}, nt : Nat \ {0}]
  <2>2. Layers \in Seq(Shape)
    BY DriverAssumption
  <2> HIDE DEF Shape
  <2>3. Layers[layer] \in Shape
    BY <2>1, <2>2
  <2>4. QED
    BY <2>1, <2>3 DEF Shape, n_kt, n_nt, Between
<1>2. /\ collected \in Nat /\ issued \in Nat /\ layer \in Nat /\ block \in Nat
      /\ collected < Finished /\ Finished \in Nat
  BY <1>1, FinishedBounds
<1> DEFINE q == collected \div n_kt
           e == Result(block, collected)
<1>3. c_buf[CollectSlot] = e
  BY <1>1, <1>2 DEF BuffersOK, CollectSlot, QDEPTH
<1>4. e \in TileResult
  BY <1>2 DEF Result, TileResult, TileToken
<1>5. /\ q \in 0..(n_nt - 1)
      /\ q * n_kt + Summed(collected, q, n_kt) = collected
      /\ Summed(collected + 1, q, n_kt) = Summed(collected, q, n_kt) + 1
      /\ \A nt \in 0..(n_nt - 1) :
            nt # q => Summed(collected + 1, nt, n_kt) = Summed(collected, nt, n_kt)
  <2>1. /\ n_kt \in Nat \ {0} /\ n_nt \in Nat /\ collected \in Nat
        /\ collected < n_nt * n_kt
    BY <1>1, <1>2 DEF total
  <2> HIDE DEF q
  <2>2. q = collected \div n_kt
    BY DEF q
  <2>3. QED
    BY <2>1, <2>2, SummedStep
<1>6. acc \in [0..(n_nt - 1) -> Seq(TileResult)]
  BY <1>1 DEF AccOK
<1>7. /\ acc' = [acc EXCEPT ![q] = Append(acc[q], e)] /\ collected' = collected + 1
      /\ n_nt' = n_nt /\ n_kt' = n_kt /\ block' = block /\ layer' = layer
  BY <1>3 DEF Collect, n_nt, n_kt
<1>8. AccBlock = block /\ AccBlock' = block /\ pc' \notin Between
  BY <1>1, <1>7 DEF AccBlock, Collect, LoopPc, Between
<1> HIDE DEF q, e
<1>9. acc' \in [0..(n_nt - 1) -> Seq(TileResult)]
  BY <1>4, <1>5, <1>6, <1>7, Appended
<1>10. ASSUME NEW nt \in 0..(n_nt - 1)
       PROVE  /\ Len(acc'[nt]) = Summed(collected + 1, nt, n_kt)
              /\ \A k \in 1..Len(acc'[nt]) : acc'[nt][k] = Result(block, nt * n_kt + k - 1)
  <2>1. /\ Len(acc[nt]) = Summed(collected, nt, n_kt)
        /\ \A k \in 1..Len(acc[nt]) : acc[nt][k] = Result(block, nt * n_kt + k - 1)
        /\ acc[nt] \in Seq(TileResult)
    BY <1>6, <1>8 DEF AccOK
  <2>2. CASE nt # q
    BY <1>5, <1>6, <1>7, <2>1, <2>2
  <2>3. CASE nt = q
    <3>1. acc'[nt] = Append(acc[nt], e)
      BY <1>6, <1>7, <2>3
    <3>2. /\ Len(acc'[nt]) = Len(acc[nt]) + 1 /\ Len(acc[nt]) \in Nat
          /\ \A k \in 1..Len(acc'[nt]) :
                acc'[nt][k] = IF k = Len(acc[nt]) + 1 THEN e ELSE acc[nt][k]
      BY <1>4, <2>1, <3>1, Appended
    <3>3. nt * n_kt + Len(acc[nt]) = collected
      BY <1>5, <2>1, <2>3
    <3>4. ASSUME NEW k \in 1..Len(acc'[nt])
          PROVE  acc'[nt][k] = Result(block, nt * n_kt + k - 1)
      <4>1. CASE k = Len(acc[nt]) + 1
        <5>1. nt * n_kt \in Int
          BY <1>1, Z3
        <5>2. nt * n_kt + k - 1 = collected
          BY <3>2, <3>3, <4>1, <5>1
        <5>3. QED
          BY <3>2, <4>1, <5>2 DEF e
      <4>2. CASE k # Len(acc[nt]) + 1
        <5>1. k \in 1..Len(acc[nt])
          BY <3>2, <4>2
        <5>2. QED
          BY <2>1, <3>2, <4>2, <5>1
      <4>3. QED
        BY <4>1, <4>2
    <3>5. QED
      BY <1>5, <2>1, <2>3, <3>2, <3>4
  <2>4. QED
    BY <2>2, <2>3
<1>11. \A b, i : Result(b, i)' = Result(b, i)
  BY <1>7 DEF Result
<1>12. QED
  BY <1>7, <1>8, <1>9, <1>10, <1>11 DEF AccOK, Between

(* At the start of a block nothing is finished and C is zeroed.            *)
LEMMA DataBlockStart ==
    ASSUME DriverInv, BufTypes, AccOK, BlockStart
    PROVE  BufTypes' /\ BuffersOK' /\ AccOK'
<1>1. /\ pc = "block_start" /\ accepted = earlier /\ acked >= earlier
      /\ earlier \in Nat /\ layer \in DOMAIN Layers
  BY DEF BlockStart, DriverInv, LoopOK, CountsOK, Between
<1>2. RP!Outstanding = 0 /\ Tick
  BY <1>1, BetweenIsDrained DEF DriverInv, BlockStart
<1>3. RP!Inv' /\ accepted' = accepted /\ retired' >= retired /\ acked' = acked
  BY <1>2, DrainedStep
<1>4. /\ accepted' \in Nat /\ retired' \in Nat /\ fifo_cnt' \in Nat /\ retired \in Nat
      /\ acked <= retired /\ acked \in Nat
      /\ accepted' = retired' + fifo_cnt' + RP!Bit(start') + RP!Bit(busy') + RP!Bit(done')
  <2>1. retired \in Nat /\ acked \in Nat /\ acked <= retired
    BY RP!Counting, RegsAssumptions DEF DriverInv
  <2>2. accepted' \in Nat /\ retired' \in Nat /\ fifo_cnt' \in Nat
    BY <1>3 DEF RP!Inv, RP!TypeOK
  <2>3. QED
    BY <1>3, <2>1, <2>2 DEF RP!Inv, RP!Conservation
<1>5. retired' = earlier /\ ~done'
  <2>1. /\ RP!Bit(start') \in Nat /\ RP!Bit(busy') \in Nat /\ RP!Bit(done') \in Nat
        /\ done' => RP!Bit(done') > 0
    BY DEF RP!Bit
  <2>2. \A a, r, f, s, b, d \in Nat : a = r + f + s + b + d /\ r >= a => r = a /\ d = 0
    OBVIOUS
  <2>3. retired' >= accepted' /\ accepted' = earlier
    BY <1>1, <1>3, <1>4
  <2>4. retired' = accepted' /\ RP!Bit(done') = 0
    BY <1>4, <2>1, <2>2, <2>3
  <2>5. QED
    BY <2>1, <2>3, <2>4
<1>6. total \in Nat \ {0} /\ n_nt \in Nat \ {0} /\ n_kt \in Nat \ {0}
  <2> DEFINE Shape == [kt : Nat \ {0}, nt : Nat \ {0}]
  <2>1. Layers \in Seq(Shape)
    BY DriverAssumption
  <2> HIDE DEF Shape
  <2>2. Layers[layer] \in Shape
    BY <1>1, <2>1
  <2>3. QED
    BY <1>1, <2>2, TotalPositive DEF Shape, n_kt, n_nt, total
<1>7. /\ pc' = "mem_w" /\ issued' = 0 /\ collected' = 0
      /\ UNCHANGED <<layer, block, earlier, w_buf, a_buf>>
      /\ acc' = [nt \in 0..(n_nt - 1) |-> <<>>]
  BY <1>6 DEF BlockStart, LoopPc, CanIssue, QDEPTH
<1>8. Finished' = 0
  BY <1>1, <1>5, <1>7 DEF Finished
<1>9. BufTypes'
  BY <1>2, <1>7 DEF BufTypes, Tick, Edge, ResultEdge
<1>10. BuffersOK'
  BY <1>7, <1>8 DEF BuffersOK, Loaded
<1>11. ASSUME NEW nt \in 0..(n_nt - 1)
       PROVE  Len(acc'[nt]) = 0 /\ Summed(0, nt, n_kt) = 0
  <2>1. nt * n_kt \in Nat
    BY <1>6, Z3
  <2>2. QED
    BY <1>7, <2>1 DEF Summed
<1>12. n_nt' = n_nt /\ n_kt' = n_kt
  BY <1>7 DEF n_nt, n_kt
<1>13. acc' \in [0..(n_nt - 1) -> Seq(TileResult)]
  BY <1>7
<1>14. QED
  BY <1>7, <1>9, <1>10, <1>11, <1>12, <1>13 DEF AccOK, Between

(* Every step preserves it.                                                *)
LEMMA DataStep ==
    ASSUME DataInv, [Next]_vars
    PROVE  DataInv'
<1> USE DEF DataInv
<1>1. DriverInv'
  BY DriverStep
<1>2. ASSUME AnyCycle, UNCHANGED <<w_buf, a_buf>>, pc \in Between, pc' \in Between
      PROVE  BufTypes' /\ BuffersOK'
  <2>1. DOMAIN c_buf' = Slot
    BY <1>2 DEF BufTypes, AnyCycle, ResultEdge
  <2>2. QED
    BY <1>2, <2>1 DEF BufTypes, BuffersOK
<1>3. ASSUME Tick, UNCHANGED <<pc, w_buf, a_buf, progVars>>
      PROVE  BufTypes' /\ BuffersOK' /\ AccOK'
  <2>1. AnyCycle
    BY <1>3, StepsAreCycles
  <2>2. BufTypes' /\ BuffersOK'
    <3>1. CASE pc \in Between
      BY <1>2, <1>3, <2>1, <3>1
    <3>2. CASE pc \notin Between
      BY <1>3, <2>1, <3>2, FinishedBounds, OperandsKept DEF progVars
    <3>3. QED
      BY <3>1, <3>2
  <2>3. QED
    BY <1>3, <2>2, AccKept DEF AccBlock, progVars
<1>4. CASE EnableIrq
  <2>1. /\ pc = "irq_on" /\ pc' = "block_start" /\ UNCHANGED <<w_buf, a_buf, progVars>>
        /\ AnyCycle
    BY <1>4, StepsAreCycles DEF EnableIrq
  <2>2. BufTypes' /\ BuffersOK'
    BY <1>2, <2>1 DEF Between
  <2>3. AccOK'
    BY <2>1, AccKept DEF AccOK, progVars, Between
  <2>4. QED
    BY <1>1, <2>2, <2>3
<1>5. CASE BlockStart
  BY <1>1, <1>5, DataBlockStart
<1>6. CASE Issue
  <2>1. CASE /\ MemWriteW(IssueSlot, Token(issued)) \/ MemWriteA(IssueSlot, Token(issued))
             /\ UNCHANGED progVars
    <3>1. Tick /\ pc \in {"mem_w", "mem_a"} /\ pc' \in {"mem_a", "reg_w"}
      BY <2>1 DEF MemWriteW, MemWriteA
    <3>2. BufTypes' /\ BuffersOK'
      BY <2>1, <3>1, OperandsWritten
    <3>3. AccOK'
      BY <2>1, <3>1, AccKept DEF AccBlock, progVars, Between
    <3>4. QED
      BY <1>1, <3>2, <3>3
  <2>2. CASE WriteRegs(IssueSlot, block) /\ UNCHANGED progVars
    <3>1. issued \in Nat /\ collected \in Nat /\ block \in Nat /\ block < Blocks
      BY <2>2 DEF WriteRegs, DriverInv, LoopOK, PhaseOK
    <3>2. IssueSlot \in Val /\ block \in Val
      <4>1. IssueSlot \in Slot
        BY <3>1 DEF IssueSlot, QDEPTH, Slot
      <4>2. block \in 0..(Blocks - 1)
        BY <3>1, DriverAssumption
      <4>3. QED
        BY <4>1, <4>2, HostAssumption, DriverAssumption
    <3>3. /\ AnyCycle /\ UNCHANGED <<w_buf, a_buf, progVars>>
          /\ pc \in {"reg_w", "reg_a", "reg_c", "reg_m"}
          /\ pc' \in {"reg_a", "reg_c", "reg_m", "cmd"}
      BY <2>2, <3>2, StepsAreCycles DEF WriteRegs
    <3>4. BufTypes' /\ BuffersOK'
      BY <3>1, <3>3, OperandsKept DEF progVars, Between, Loaded
    <3>5. AccOK'
      BY <3>3, AccKept DEF AccBlock, progVars, Between
    <3>6. QED
      BY <1>1, <3>4, <3>5
  <2>3. CASE /\ StoreCmd /\ issued' = issued + 1
             /\ pc' = LoopPc(issued + 1, collected)
             /\ UNCHANGED <<layer, block, collected, base, acc, earlier>>
    <3>1. /\ AnyCycle /\ UNCHANGED <<w_buf, a_buf, layer, block, earlier, collected, acc>>
          /\ pc = "cmd" /\ pc' \in {"mem_w", "wait_irq", "block_end"}
      BY <2>3, StepsAreCycles DEF StoreCmd, LoopPc
    <3>2. collected \in Nat
      BY DEF DriverInv, LoopOK, PhaseOK
    <3>3. BufTypes' /\ BuffersOK'
      BY <2>3, <3>1, <3>2, OperandsKept DEF Between, Loaded
    <3>4. AccOK'
      BY <3>1, AccKept DEF AccBlock, Between
    <3>5. QED
      BY <1>1, <3>3, <3>4
  <2>4. QED
    BY <1>6, <2>1, <2>2, <2>3 DEF Issue
<1>7. ASSUME UNCHANGED <<w_buf, a_buf, progVars>>, AnyCycle,
             pc \in Waiting, pc' \in Waiting
      PROVE  BufTypes' /\ BuffersOK' /\ AccOK'
  <2>1. /\ pc \notin Between /\ pc' \notin Between /\ pc' \notin Loaded \cup {"mem_a"}
        /\ AccBlock' = AccBlock /\ pc' # "irq_on"
    BY <1>7 DEF Waiting, Between, Loaded, AccBlock, progVars
  <2>2. collected \in Nat
    BY DEF DriverInv, LoopOK, PhaseOK
  <2>3. BufTypes' /\ BuffersOK'
    BY <1>7, <2>1, <2>2, OperandsKept DEF progVars
  <2>4. QED
    BY <1>7, <2>1, <2>3, AccKept DEF progVars
<1>8. CASE WaitIrq \/ ReadStatus
  BY <1>1, <1>7, <1>8, StepsAreCycles DEF WaitIrq, ReadStatus, Waiting
<1>9. CASE ClearIrq
  BY <1>1, <1>7, <1>9, StepsAreCycles DEF ClearIrq, Waiting
<1>10. CASE Collect
  <2>1. /\ pc = "mem_c" /\ pc' \in {"mem_w", "wait_irq", "block_end"} /\ Tick
        /\ collected' = collected + 1
        /\ UNCHANGED <<w_buf, a_buf, layer, block, issued, earlier>>
    BY <1>10 DEF Collect, LoopPc
  <2>2. collected \in Nat
    BY DEF DriverInv, LoopOK, PhaseOK
  <2>3. BufTypes' /\ BuffersOK'
    BY <2>1, <2>2, OperandsKept, StepsAreCycles DEF Between, Loaded
  <2>4. QED
    BY <1>1, <1>10, <2>3, AccCollects
<1>11. CASE BlockEnd
  <2>1. /\ pc = "block_end" /\ pc' \in {"block_start", "returned"} /\ Tick
        /\ block' = block + 1 /\ UNCHANGED <<w_buf, a_buf, layer, collected, acc>>
    BY <1>11 DEF BlockEnd
  <2>2. DOMAIN c_buf' = Slot
    BY <2>1 DEF BufTypes, Tick, Edge, ResultEdge
  <2>3. BufTypes' /\ BuffersOK'
    BY <2>1, <2>2 DEF BufTypes, BuffersOK, Between
  <2>4. AccBlock' = AccBlock
    <3>1. block \in Nat
      BY DEF DriverInv, LoopOK
    <3>2. QED
      BY <2>1, <3>1 DEF AccBlock
  <2>5. AccOK'
    BY <2>1, <2>4, AccKept DEF Between
  <2>6. QED
    BY <1>1, <2>3, <2>5
<1>12. CASE NextLayer
  <2>1. /\ pc = "returned" /\ pc' = "irq_on" /\ Tick /\ acc' = <<>>
        /\ UNCHANGED <<w_buf, a_buf>>
    BY <1>12 DEF NextLayer
  <2>2. BufTypes' /\ BuffersOK'
    BY <1>2, <2>1, StepsAreCycles DEF Between
  <2>3. AccOK'
    <3>1. DOMAIN acc' = {}
      BY <2>1
    <3>2. QED
      BY <2>1, <3>1 DEF AccOK, Between
  <2>4. QED
    BY <1>1, <2>2, <2>3
<1>13. CASE OtherCycle
  BY <1>1, <1>3, <1>13 DEF OtherCycle, Tick
<1>14. CASE UNCHANGED vars
  BY <1>1, <1>3, <1>14 DEF vars, Tick, bufVars
<1>15. QED
  BY <1>4, <1>5, <1>6, <1>8, <1>9, <1>10, <1>11, <1>12, <1>13, <1>14 DEF Next, Drive

(* The inductive invariant of the data.                                    *)
THEOREM DataInvariance == Spec => []DataInv
<1>1. Init => DriverInv
  BY DriverInitially
<1>2. Init => DataInv
  <2> SUFFICES ASSUME Init PROVE DataInv
    OBVIOUS
  <2>1. BufTypes
    BY DEF Init, HostInit, BufTypes
  <2>2. BuffersOK
    BY DEF Init, BuffersOK, Between
  <2>3. AccOK
    <3>1. acc = <<>> /\ DOMAIN acc = {} /\ pc = "irq_on"
      BY DEF Init
    <3>2. QED
      BY <3>1 DEF AccOK, Between
  <2>4. QED
    BY <1>1, <2>1, <2>2, <2>3 DEF DataInv
<1>3. DataInv /\ [Next]_vars => DataInv'
  BY DataStep
<1>4. QED
  BY <1>2, <1>3, PTL DEF Spec

(* C accumulates, for every column tile, each of its partial products once *)
(* and in order, each computed from its own operands and for its own rows  *)
(* (the loops of coproc_matmul_tiled, coproc_driver.h:110-156), for every  *)
(* number of tiles and blocks: the bound of the run plays no part.         *)
THEOREM TilesAccumulateOnce == Spec => []AccumulatesEachTileOnce
<1>1. ASSUME DataInv PROVE AccumulatesEachTileOnce
  <2>1. \A nt \in DOMAIN acc :
           /\ Len(acc[nt]) = Summed(collected, nt, n_kt)
           /\ \A k \in 1..Len(acc[nt]) :
                 acc[nt][k] = <<<<layer, AccBlock, nt * n_kt + k - 1>>,
                                <<layer, AccBlock, nt * n_kt + k - 1>>, AccBlock>>
    BY <1>1 DEF DataInv, AccOK, Result
  <2>2. ASSUME NEW nt \in DOMAIN acc, collected >= (nt + 1) * n_kt
        PROVE  Len(acc[nt]) = n_kt
    <3>1. n_kt \in Nat \ {0} /\ n_nt \in Nat \ {0} /\ collected \in Nat
      <4> DEFINE Shape == [kt : Nat \ {0}, nt : Nat \ {0}]
      <4>1. Layers \in Seq(Shape)
        BY DriverAssumption
      <4> HIDE DEF Shape
      <4>2. Layers[layer] \in Shape
        BY <1>1, <4>1 DEF DataInv, DriverInv, LoopOK
      <4>3. QED
        BY <1>1, <4>2 DEF Shape, n_kt, n_nt, DataInv, DriverInv, LoopOK, PhaseOK
    <3>2. nt \in 0..(n_nt - 1)
      <4>1. acc # <<>>
        BY <2>2
      <4>2. QED
        BY <1>1, <2>2, <4>1 DEF DataInv, AccOK
    <3>3. (nt + 1) * n_kt = nt * n_kt + n_kt /\ nt * n_kt \in Nat
      BY <3>1, <3>2, Z3
    <3>4. Summed(collected, nt, n_kt) = n_kt
      BY <2>2, <3>1, <3>3 DEF Summed
    <3>5. QED
      BY <2>1, <3>4
  <2>3. QED
    BY <2>1, <2>2 DEF AccumulatesEachTileOnce, AccBlock
<1>2. QED
  BY <1>1, DataInvariance, PTL

-------------------------------------------------------------------------------
(* The test program around the driver: its interrupts and its commands.    *)

\* At p, with c results collected in this block, e commands of earlier blocks
\* and k completions acknowledged: n interrupts have been taken.
IrqsOK(p, c, e, k, n) ==
    /\ n \in Nat /\ n >= e
    /\ p \notin Between => n >= e + c
    /\ p \in {"rw1c", "status", "mem_c"} => n >= e + c + 1
    /\ p = "rw1c" => n <= k + 1
    /\ p # "rw1c" => n <= k

Irqs ==
    /\ g_commands_issued = accepted
    /\ IrqsOK(pc, collected, earlier, acked, g_irqs_taken)

\* A wait that gives up ends the program.
ProgramInv == \/ sim /\ pc = "exit"
              \/ DriverInv /\ (sim => Irqs)

\* Enabling and clearing the interrupt, and the stores of a command.
LEMMA IrqsRegWrite ==
    ASSUME DriverInv, Irqs, tb_reg_write
    PROVE  Irqs'
<1>1. /\ RP!Inv /\ accepted \in Nat /\ retired \in Nat /\ acked \in Nat /\ acked <= retired
      /\ earlier \in Nat /\ issued \in Nat /\ collected \in Nat /\ total \in Nat
      /\ g_irqs_taken \in Nat
      /\ pc = "rw1c" => retired > acked
      /\ pc = "cmd" => collected <= issued /\ issued < total /\ issued - collected < 4
  <2>1. layer \in DOMAIN Layers
    BY DEF DriverInv, LoopOK
  <2>2. total \in Nat
    BY <2>1, TotalPositive DEF total, n_nt, n_kt
  <2>3. QED
    BY <2>2, RP!Counting, RegsAssumptions
       DEF DriverInv, LoopOK, PhaseOK, CountsOK, Irqs, IrqsOK, Issuing
<1>2. g_irqs_taken' = g_irqs_taken
      /\ g_commands_issued' = g_commands_issued + (IF pc = "cmd" THEN 1 ELSE 0)
  BY DEF tb_reg_write
<1>3. g_commands_issued \in Nat
  BY <1>1 DEF Irqs
<1>4. CASE EnableIrq
  <2>1. /\ pc = "irq_on" /\ pc' = "block_start" /\ earlier' = earlier
        /\ accepted' = accepted /\ acked' = retired
    BY <1>1, <1>4, IrqStep DEF EnableIrq, progVars
  <2>2. g_commands_issued' = g_commands_issued
    BY <1>2, <1>3, <2>1
  <2>3. QED
    BY <1>1, <1>2, <2>1, <2>2 DEF Irqs, IrqsOK, Between
<1>5. CASE ClearIrq
  <2>1. /\ pc = "rw1c" /\ pc' = "status" /\ earlier' = earlier /\ collected' = collected
        /\ accepted' = accepted /\ acked' = retired
    BY <1>1, <1>5, IrqStep DEF ClearIrq, progVars
  <2>2. g_commands_issued' = g_commands_issued
    BY <1>2, <1>3, <2>1
  <2>3. QED
    BY <1>1, <1>2, <2>1, <2>2 DEF Irqs, IrqsOK, Between
<1>6. CASE WriteRegs(IssueSlot, block) /\ UNCHANGED progVars
  <2>1. IssueSlot \in Val /\ block \in Val
    <3>1. issued % 4 \in 0..3
      BY <1>1
    <3>2. block \in Nat /\ block < Blocks
      BY <1>6 DEF DriverInv, LoopOK, WriteRegs
    <3>3. block \in 0..(Blocks - 1) /\ 0..(Blocks - 1) \subseteq Val
      BY <3>2, DriverAssumption
    <3>4. 0..3 \subseteq Val
      BY HostAssumption DEF Slot, QDEPTH
    <3>5. QED
      BY <3>1, <3>3, <3>4 DEF IssueSlot, QDEPTH
  <2>2. /\ pc \in {"reg_w", "reg_a", "reg_c", "reg_m"} /\ pc' \in {"reg_a", "reg_c", "reg_m", "cmd"}
        /\ accepted' = accepted /\ acked' = acked
        /\ earlier' = earlier /\ collected' = collected
    BY <1>1, <1>6, <2>1, StoreStep DEF WriteRegs, progVars
  <2>3. g_commands_issued' = g_commands_issued
    BY <1>2, <1>3, <2>2
  <2>4. QED
    BY <1>1, <1>2, <2>2, <2>3 DEF Irqs, IrqsOK, Between
<1>7. CASE /\ StoreCmd /\ pc' = LoopPc(issued + 1, collected)
           /\ UNCHANGED <<layer, block, collected, base, acc, earlier>>
  <2>1. pc = "cmd" /\ Regs!WriteCmd
    BY <1>7 DEF StoreCmd
  <2>2. ~Regs!fifo_full
    BY <2>1, RoomForTheCommand DEF NeverDropped
  <2>3. /\ accepted' = accepted + 1 /\ acked' = acked
        /\ earlier' = earlier /\ collected' = collected
    BY <1>1, <1>7, <2>1, <2>2, CommandStep
  <2>4. pc' \in {"mem_w", "wait_irq", "block_end"}
    BY <1>7 DEF LoopPc
  <2>5. g_commands_issued' = g_commands_issued + 1
    BY <1>2, <2>1
  <2>6. QED
    BY <1>1, <1>2, <2>1, <2>3, <2>4, <2>5 DEF Irqs, IrqsOK, Between
<1>8. QED
  BY <1>4, <1>5, <1>6, <1>7 DEF tb_reg_write, Issue, MemWriteW, MemWriteA

\* The operations that store nothing in the registers.
LEMMA IrqsQuiet ==
    ASSUME DriverInv, Irqs, tb_reg_read \/ tb_mem_access
    PROVE  Irqs'
<1>1. /\ RP!Inv /\ accepted \in Nat /\ acked \in Nat
      /\ earlier \in Nat /\ issued \in Nat /\ collected \in Nat
      /\ pc = "block_end" => collected = total
  BY RP!Counting, RegsAssumptions DEF DriverInv, LoopOK, PhaseOK, CountsOK
<1>2. /\ g_irqs_taken' = g_irqs_taken /\ g_commands_issued' = g_commands_issued
      /\ accepted' = accepted /\ acked' = acked
  BY <1>1, TickStep DEF tb_reg_read, tb_mem_access, NoClock, regVars, Tick
<1>3. g_commands_issued' = accepted'
  BY <1>2 DEF Irqs
<1>4. CASE BlockStart
  <2>1. pc' \in {"mem_w", "wait_irq", "block_end"}
    BY <1>4 DEF BlockStart, LoopPc
  <2>2. QED
    BY <1>1, <1>2, <1>3, <1>4, <2>1 DEF BlockStart, Irqs, IrqsOK, Between
<1>5. CASE ReadStatus
  <2>1. /\ pc = "status" /\ pc' \in {"mem_c", "wait_irq"}
        /\ earlier' = earlier /\ collected' = collected
    BY <1>5 DEF ReadStatus, progVars
  <2>2. QED
    BY <1>1, <1>2, <1>3, <2>1 DEF Irqs, IrqsOK, Between
<1>6. CASE Issue /\ pc \in {"mem_w", "mem_a"}
  <2>1. /\ pc' \in {"mem_a", "reg_w"} /\ earlier' = earlier /\ collected' = collected
    BY <1>6 DEF Issue, MemWriteW, MemWriteA, WriteRegs, StoreCmd, progVars
  <2>2. QED
    BY <1>1, <1>2, <1>3, <1>6, <2>1 DEF Irqs, IrqsOK, Between
<1>7. CASE Collect
  <2>1. pc' \in {"mem_w", "wait_irq", "block_end"}
    BY <1>7 DEF Collect, LoopPc
  <2>2. QED
    BY <1>1, <1>2, <1>3, <1>7, <2>1 DEF Collect, Irqs, IrqsOK, Between
<1>8. CASE BlockEnd
  <2>1. /\ pc = "block_end" /\ pc' \in {"block_start", "returned"}
        /\ earlier' = earlier + collected
    BY <1>1, <1>8 DEF BlockEnd
  <2>2. QED
    BY <1>1, <1>2, <1>3, <2>1 DEF Irqs, IrqsOK, Between
<1>9. CASE NextLayer
  <2>1. pc = "returned" /\ pc' = "irq_on" /\ earlier' = earlier
    BY <1>9 DEF NextLayer
  <2>2. QED
    BY <1>1, <1>2, <1>3, <2>1 DEF Irqs, IrqsOK, Between
<1>10. QED
  BY <1>4, <1>5, <1>6, <1>7, <1>8, <1>9 DEF tb_reg_read, tb_mem_access

\* Waiting for the interrupt line, which gives up after GUARD edges.
LEMMA IrqsWait ==
    ASSUME DriverInv, Irqs, tb_wait_irq
    PROVE  /\ pc' = "exit" \/ [Next]_vars
           /\ pc' = "exit" \/ Irqs'
<1>1. /\ RP!Inv /\ accepted \in Nat /\ acked \in Nat
      /\ earlier \in Nat /\ collected \in Nat
  BY RP!Counting, RegsAssumptions DEF DriverInv, LoopOK, PhaseOK, CountsOK
<1>2. /\ pc = "wait_irq" /\ g_commands_issued' = g_commands_issued
      /\ g_irqs_taken \in Nat
  BY DEF tb_wait_irq, Irqs, IrqsOK
<1>3. CASE Regs!irq
  <2>1. /\ UNCHANGED regVars /\ WaitIrq /\ g_irqs_taken' = g_irqs_taken + 1
    BY <1>3 DEF tb_wait_irq, NoClock
  <2>2. /\ pc' = "rw1c" /\ accepted' = accepted /\ acked' = acked
        /\ earlier' = earlier /\ collected' = collected
    BY <2>1 DEF WaitIrq, regVars, progVars
  <2>3. Irqs'
    BY <1>1, <1>2, <2>1, <2>2 DEF Irqs, IrqsOK, Between
  <2>4. QED
    BY <2>1, <2>3 DEF Next, Drive
<1>4. CASE ~Regs!irq
  <2>1. /\ Edge /\ UNCHANGED <<w_buf, a_buf, progVars, g_irqs_taken>>
        /\ pc' = "exit" \/ pc' = pc
    BY <1>4 DEF tb_wait_irq
  <2>2. /\ accepted' = accepted /\ acked' = acked
        /\ earlier' = earlier /\ collected' = collected
        /\ g_irqs_taken' = g_irqs_taken
    BY <1>1, <2>1, TickStep DEF Tick, progVars
  <2>3. pc' = pc => Irqs'
    BY <1>2, <2>2 DEF Irqs
  <2>4. pc' = pc => OtherCycle
    BY <2>1 DEF OtherCycle
  <2>5. QED
    BY <2>1, <2>3, <2>4 DEF Next
<1>5. QED
  BY <1>3, <1>4

(* The other operations of the program are operations of the driver.       *)
LEMMA ProgramDrives ==
    ASSUME tb_reg_write \/ tb_reg_read \/ tb_mem_access
    PROVE  Next
BY DEF tb_reg_write, tb_reg_read, tb_mem_access, Next, Drive

LEMMA ProgramStep == ProgramInv /\ [TbNext]_allVars => ProgramInv'
<1> SUFFICES ASSUME ProgramInv, [TbNext]_allVars
             PROVE  ProgramInv'
  OBVIOUS
<1>1. CASE sim /\ pc = "exit"
  <2>1. UNCHANGED allVars
    BY <1>1 DEF TbNext, tb_reg_write, tb_reg_read, tb_mem_access, tb_wait_irq, Alone,
                EnableIrq, ClearIrq, Issue, MemWriteW, MemWriteA, WriteRegs, StoreCmd,
                BlockStart, ReadStatus, Collect, BlockEnd, NextLayer
  <2>2. QED
    BY <1>1, <2>1 DEF ProgramInv, allVars, vars, tbVars
<1>2. CASE DriverInv /\ sim /\ Irqs
  <2>1. CASE tb_reg_write
    <3>1. DriverInv' /\ Irqs'
      BY <1>2, <2>1, ProgramDrives, DriverStep, IrqsRegWrite
    <3>2. QED
      BY <3>1 DEF ProgramInv
  <2>2. CASE tb_reg_read \/ tb_mem_access
    <3>1. DriverInv' /\ Irqs'
      BY <1>2, <2>2, ProgramDrives, DriverStep, IrqsQuiet
    <3>2. QED
      BY <3>1 DEF ProgramInv
  <2>3. CASE tb_wait_irq
    <3>1. sim'
      BY <1>2, <2>3 DEF tb_wait_irq
    <3>2. pc' = "exit" \/ (DriverInv' /\ Irqs')
      BY <1>2, <2>3, IrqsWait, DriverStep
    <3>3. QED
      BY <3>1, <3>2 DEF ProgramInv
  <2>4. CASE UNCHANGED allVars
    <3>1. DriverInv'
      BY <1>2, <2>4, DriverStep DEF allVars
    <3>2. Irqs'
      BY <1>2, <2>4 DEF allVars, vars, regVars, progVars, tbVars, Irqs
    <3>3. QED
      BY <3>1, <3>2 DEF ProgramInv
  <2>5. QED
    BY <1>2, <2>1, <2>2, <2>3, <2>4 DEF TbNext, Alone
<1>3. CASE DriverInv /\ ~sim
  <2>1. [Next]_vars /\ ~sim'
    BY <1>3 DEF TbNext, tb_reg_write, tb_reg_read, tb_mem_access, tb_wait_irq, Alone,
                allVars, tbVars
  <2>2. DriverInv'
    BY <1>3, <2>1, DriverStep
  <2>3. QED
    BY <2>1, <2>2 DEF ProgramInv
<1>4. QED
  BY <1>1, <1>2, <1>3 DEF ProgramInv

(* The program has taken one interrupt for every command it issued, its    *)
(* own last check (tb_fullstack.cpp:181-184), however long commands take   *)
(* and however often done_count wraps: each wait acknowledges a completion *)
(* no earlier wait has, and no result is collected without a wait.         *)
THEOREM InterruptPerCommand == TbSpec => []OneIrqPerCommand
<1>1. TbInit => ProgramInv
  <2> SUFFICES ASSUME TbInit
               PROVE  ProgramInv
    OBVIOUS
  <2>1. DriverInv
    BY DriverInitially DEF TbInit
  <2>2. /\ pc = "irq_on" /\ earlier = 0 /\ g_irqs_taken = 0 /\ g_commands_issued = 0
    BY DEF TbInit, Init
  <2>3. accepted = 0 /\ acked = 0
    BY HostInitStep DEF TbInit, Init
  <2>4. QED
    BY <2>1, <2>2, <2>3 DEF ProgramInv, Irqs, IrqsOK, Between
<1>2. ProgramInv => OneIrqPerCommand
  <2> SUFFICES ASSUME ProgramInv, sim, pc = "returned"
               PROVE  g_irqs_taken = g_commands_issued
    BY DEF OneIrqPerCommand
  <2>1. /\ accepted = earlier /\ earlier \in Nat /\ g_commands_issued = accepted
        /\ g_irqs_taken \in Nat /\ g_irqs_taken >= earlier /\ g_irqs_taken <= acked
    BY DEF ProgramInv, DriverInv, LoopOK, CountsOK, Between, Irqs, IrqsOK
  <2>2. acked <= retired /\ retired <= accepted /\ acked \in Nat /\ retired \in Nat
    BY RP!Counting, RegsAssumptions DEF ProgramInv, DriverInv, RP!Outstanding
  <2>3. QED
    BY <2>1, <2>2
<1>3. QED
  BY <1>1, <1>2, ProgramStep, PTL DEF TbSpec
===============================================================================
