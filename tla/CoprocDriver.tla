----------------------------- MODULE CoprocDriver -----------------------------
(***************************************************************************)
(* The interrupt-driven tiled matrix product of sw/coproc_driver.h:        *)
(* coproc_matmul_tiled, coproc_issue_tile and coproc_wait_retired, running *)
(* against the register block, called once for each layer of a network     *)
(* (int8_mlp_infer in sw/int8_mlp.h).  A token <<l, b, i>> stands for the  *)
(* operands of tile i of row block b in layer l; the row count field of a  *)
(* command carries the block number, which is what distinguishes the row   *)
(* counts of two blocks.                                                   *)
(***************************************************************************)
EXTENDS CoprocHost

CONSTANTS Layers,      \* by call: tiles along K and along N, [kt |-> , nt |-> ]
          Blocks,      \* row blocks: ceil(M / COPROC_MAX_ROWS)
          U32_MOD      \* 2^32: the width in which done counts are compared

ASSUME DriverAssumption ==
    /\ Layers \in Seq([kt : Nat \ {0}, nt : Nat \ {0}]) /\ Layers # <<>>
    /\ Blocks \in Nat \ {0} /\ 0..(Blocks - 1) \subseteq Val
    /\ U32_MOD \in Nat
    /\ \A l \in DOMAIN Layers : U32_MOD > Layers[l].kt * Layers[l].nt + DC_MOD

VARIABLES layer,              \* which call this is
          block,              \* index of the m0 loop
          issued, collected,
          base,               \* done_count when the block began
          acc,                \* by nt: the tile results added into C, in order
          earlier             \* history: commands of earlier blocks and calls

progVars == <<layer, block, issued, collected, base, acc, earlier>>
vars == <<regVars, bufVars, pc, progVars>>

n_kt == Layers[layer].kt
n_nt == Layers[layer].nt
total == n_nt * n_kt
IssueSlot == issued % QDEPTH
CollectSlot == collected % QDEPTH
Token(i) == <<layer, block, i>>

CanIssue_OneMore(i, c) == i < total /\ i - c <= QDEPTH

CanIssue(i, c) == i < total /\ i - c < QDEPTH

\* Where the two nested while loops go with i issued and c collected.
LoopPc(i, c) == IF c = total THEN "block_end"
                ELSE IF CanIssue(i, c) THEN "mem_w" ELSE "wait_irq"

\* (uint32_t)(dc - base) >= want, with want = collected + 1.
Retired(dc) == (dc - base) % U32_MOD >= collected + 1

-------------------------------------------------------------------------------
EnableIrq_ClearOnly ==
    /\ pc = "irq_on" /\ pc' = "block_start"
    /\ Regs!WriteIrq(FALSE, TRUE) /\ ResultEdge
    /\ UNCHANGED <<w_buf, a_buf, progVars>>

\* IRQ_EN = 1 and clear what an earlier call left pending.
EnableIrq ==
    /\ pc = "irq_on" /\ pc' = "block_start"
    /\ Regs!WriteIrq(TRUE, TRUE) /\ ResultEdge
    /\ UNCHANGED <<w_buf, a_buf, progVars>>

\* Zero the block of C and read the base of done_count.
BlockStart ==
    /\ pc = "block_start" /\ pc' = LoopPc(0, 0)
    /\ base' = done_count /\ issued' = 0 /\ collected' = 0
    /\ acc' = [nt \in 0..(n_nt - 1) |-> <<>>]
    /\ Tick /\ UNCHANGED <<w_buf, a_buf, layer, block, earlier>>

Issue ==
    \/ MemWriteW(IssueSlot, Token(issued)) /\ UNCHANGED progVars
    \/ MemWriteA(IssueSlot, Token(issued)) /\ UNCHANGED progVars
    \/ WriteRegs(IssueSlot, block) /\ UNCHANGED progVars
    \/ /\ StoreCmd /\ issued' = issued + 1
       /\ pc' = LoopPc(issued + 1, collected)
       /\ UNCHANGED <<layer, block, collected, base, acc, earlier>>

\* wait_irq(): spin on IRQ_PENDING.
WaitIrq ==
    /\ pc = "wait_irq" /\ irq_pending /\ pc' = "rw1c"
    /\ Tick /\ UNCHANGED <<w_buf, a_buf, progVars>>

ClearIrq_KeepPending ==
    /\ pc = "rw1c" /\ pc' = "status"
    /\ Regs!WriteIrq(TRUE, FALSE) /\ ResultEdge
    /\ UNCHANGED <<w_buf, a_buf, progVars>>

ClearIrq ==
    /\ pc = "rw1c" /\ pc' = "status"
    /\ Regs!WriteIrq(TRUE, TRUE) /\ ResultEdge
    /\ UNCHANGED <<w_buf, a_buf, progVars>>

ReadStatus ==
    /\ pc = "status"
    /\ pc' = IF Retired(done_count) THEN "mem_c" ELSE "wait_irq"
    /\ Tick /\ UNCHANGED <<w_buf, a_buf, progVars>>

\* Read the result of the oldest command and add it into C.
Collect ==
    /\ pc = "mem_c"
    /\ acc' = [acc EXCEPT ![collected \div n_kt] = Append(@, c_buf[CollectSlot])]
    /\ collected' = collected + 1 /\ pc' = LoopPc(issued, collected + 1)
    /\ Tick /\ UNCHANGED <<w_buf, a_buf, layer, block, issued, base, earlier>>

BlockEnd ==
    /\ pc = "block_end"
    /\ pc' = IF block + 1 < Blocks THEN "block_start" ELSE "returned"
    /\ block' = block + 1 /\ earlier' = earlier + total
    /\ Tick /\ UNCHANGED <<w_buf, a_buf, layer, issued, collected, base, acc>>

\* The next layer is another call, with the first one's results as input.
NextLayer ==
    /\ pc = "returned" /\ layer < Len(Layers)
    /\ layer' = layer + 1 /\ block' = 0 /\ pc' = "irq_on"
    /\ issued' = 0 /\ collected' = 0 /\ base' = 0 /\ acc' = <<>>
    /\ Tick /\ UNCHANGED <<w_buf, a_buf, earlier>>

\* A clock edge between two operations of the driver.
OtherCycle == Edge /\ UNCHANGED <<pc, w_buf, a_buf, progVars>>

Init ==
    /\ HostInit /\ pc = "irq_on" /\ layer = 1 /\ block = 0
    /\ issued = 0 /\ collected = 0 /\ base = 0 /\ acc = <<>> /\ earlier = 0

Drive == EnableIrq \/ BlockStart \/ Issue \/ WaitIrq \/ ClearIrq \/ ReadStatus
         \/ Collect \/ BlockEnd \/ NextLayer

Next == Drive \/ OtherCycle

Spec == Init /\ [][Next]_vars

(* The clock runs, the datapath finishes what it accepts, and the          *)
(* processor keeps executing the driver.                                   *)
FairSpec == /\ Spec
            /\ WF_vars(Next) /\ WF_vars(Drive) /\ WF_vars(Next /\ Regs!DP!Finish)

-------------------------------------------------------------------------------
(* Properties.                                                             *)

(* The operand buffers of a slot are written, and its result buffer is     *)
(* read, only when no command in flight uses the slot: the outstanding     *)
(* limit of line 134 and the wait of line 143 are all that protects them.  *)
SlotSafe ==
    /\ pc \in {"mem_w", "mem_a"} =>
           \A c \in InFlight : c.w # IssueSlot /\ c.a # IssueSlot
    /\ pc = "mem_c" => \A c \in InFlight : c.c # CollectSlot

(* A result is read only after its own command has retired, also after     *)
(* done_count has wrapped, when (uint32_t)(dc - base) is huge and no       *)
(* longer compares anything: what then keeps the driver from running ahead *)
(* is that it takes one interrupt for each result.                         *)
ReadAfterRetired == pc = "mem_c" => retired > earlier + collected

(* C accumulates, for every column tile, each of its n_kt partial products *)
(* once and in order, each computed from its own operands: no command was  *)
(* torn, dropped, overtaken, or read from a buffer already reused.         *)
AccumulatesEachTileOnce ==
    \A nt \in DOMAIN acc :
        LET have == Len(acc[nt])
        IN  /\ \A k \in 1..have :
                   LET i == nt * n_kt + k - 1
                       b == IF pc \in {"block_start", "returned"} THEN block - 1 ELSE block
                   IN  acc[nt][k] = <<<<layer, b, i>>, <<layer, b, i>>, b>>
            /\ collected >= (nt + 1) * n_kt => have = n_kt

(* coproc_wait_retired "waits (via IRQ) until at least `want` commands     *)
(* have retired since `base`" (lines 91-92): once they have, it returns.   *)
WaitReturns ==
    (pc = "wait_irq" /\ retired > earlier + collected) ~> pc # "wait_irq"
===============================================================================
