-------------------------- MODULE CoprocBackend_proof --------------------------
(***************************************************************************)
(* Proofs about the two kinds of program that poll the register block.     *)
(*                                                                         *)
(* The polling host, for every number of rows, chunk size and number of    *)
(* calls: it never stores a command the queue drops, never reads a result  *)
(* before everything it issued has retired, and returns every row of the   *)
(* product in its place. Position slot of a batch is reached with at most  *)
(* slot commands outstanding, because the previous batch was drained to    *)
(* the last one; and what the single STATUS read of the poll loop shows    *)
(* means, by the conservation of commands in the register block, that none *)
(* is left anywhere between the queue and done.                            *)
(*                                                                         *)
(* The register-level test programs, for every size of the array and every *)
(* time a command may take: all their checks pass. At each place in a      *)
(* program it is known how many commands were accepted and which each is,  *)
(* and every clock edge leaves less to do for those outstanding, at a      *)
(* price for each that bounds what it can take: a wait that is longer than *)
(* the prices together ends well.                                          *)
(***************************************************************************)
EXTENDS TbCoproc, SequenceTheorems, WellFoundedInduction, TLAPS

-------------------------------------------------------------------------------
(* The register block, as this host drives it.                             *)

RP == INSTANCE CmdQueueRegs_proof WITH
    Field <- {"w", "a", "c", "m"}, Zero <- 0, MaxCmds <- 0

(* The constants of the instance satisfy its assumptions.                  *)
LEMMA RegsAssumptions ==
    RP!ZeroAssumption /\ RP!DcAssumption /\ RP!MaxCmdsAssumption
BY HostAssumption DEF RP!ZeroAssumption, RP!DcAssumption, RP!MaxCmdsAssumption, Slot, QDEPTH

(* It is the block that its own proofs are about.                          *)
LEMMA SameBlock ==
    /\ Regs!fifo_full <=> RP!fifo_full
    /\ \A e \in BOOLEAN : Regs!FifoEdge(e) => RP!FifoEdge(e)
    /\ \A clear \in BOOLEAN : Regs!RetireEdge(clear) => RP!RetireEdge(clear)
    /\ Regs!DatapathEdge => RP!DatapathEdge
    /\ Regs!IdleCycle => RP!IdleCycle
    /\ Regs!WriteCmd => RP!WriteCmd
<1>1. Regs!fifo_full <=> RP!fifo_full
  BY DEF Regs!fifo_full, RP!fifo_full
<1>2. \A e \in BOOLEAN : Regs!FifoEdge(e) => RP!FifoEdge(e)
  BY DEF Regs!FifoEdge, RP!FifoEdge, Regs!pop, RP!pop, Regs!fifo_empty, RP!fifo_empty,
         Regs!Bit, RP!Bit
<1>3. \A clear \in BOOLEAN : Regs!RetireEdge(clear) => RP!RetireEdge(clear)
  BY DEF Regs!RetireEdge, RP!RetireEdge, Regs!Bit, RP!Bit
<1>4. Regs!DatapathEdge => RP!DatapathEdge
  BY DEF Regs!DatapathEdge, RP!DatapathEdge, Regs!DP!Run, RP!DP!Run, Regs!DP!Finish,
         RP!DP!Finish, Regs!DP!Accept, RP!DP!Accept, Regs!DP!Rest, RP!DP!Rest
<1>5. Regs!IdleCycle => RP!IdleCycle
  BY <1>2, <1>3, <1>4 DEF Regs!IdleCycle, RP!IdleCycle
<1>6. Regs!WriteCmd => RP!WriteCmd
  <2>1. Regs!CanEnqueue = RP!CanEnqueue /\ Regs!CanEnqueue \in BOOLEAN
    BY DEF Regs!CanEnqueue, RP!CanEnqueue, Regs!fifo_full, RP!fifo_full
  <2>2. QED
    BY <1>2, <1>3, <1>4, <2>1 DEF Regs!WriteCmd, RP!WriteCmd
<1>7. QED
  BY <1>1, <1>2, <1>3, <1>4, <1>5, <1>6

LEMMA HostInitStep ==
    ASSUME HostInit
    PROVE  RP!Inv /\ accepted = 0 /\ retired = 0 /\ acked = 0
<1>1. RP!Init
  BY DEF HostInit, Regs!Init, RP!Init, Regs!ZeroCmd, RP!ZeroCmd, Regs!Cmd, RP!Cmd,
         Regs!DP!Init, RP!DP!Init
<1>2. QED
  BY <1>1, RegsAssumptions, RP!InitStep DEF RP!Init

(* A step without a store: nothing is accepted or acknowledged.            *)
LEMMA TickStep ==
    ASSUME RP!Inv, Tick
    PROVE  /\ RP!Inv' /\ hold' = hold
           /\ accepted' = accepted /\ retired' >= retired /\ acked' = acked
<1>1. RP!IdleCycle \/ UNCHANGED RP!vars
  BY SameBlock DEF Tick, Edge, regVars, RP!vars, RP!fifoVars, RP!retireVars
<1>2. QED
  BY <1>1, RegsAssumptions, RP!IdleStep

(* A store to a holding register.                                          *)
LEMMA StoreStep ==
    ASSUME RP!Inv, NEW f \in {"w", "a", "c", "m"}, NEW v \in Val, Store(f, v)
    PROVE  /\ RP!Inv' /\ hold' = [hold EXCEPT ![f] = v]
           /\ accepted' = accepted /\ retired' >= retired /\ acked' = acked
<1>1. RP!WriteField(f, v)
  BY SameBlock DEF Store, Regs!WriteField, RP!WriteField
<1>2. QED
  BY <1>1, RegsAssumptions, RP!FieldStep

(* A store to CMD.                                                         *)
LEMMA CommandStep ==
    ASSUME RP!Inv, Regs!WriteCmd
    PROVE  /\ RP!Inv' /\ hold' = hold
           /\ accepted' = accepted + (IF Regs!fifo_full THEN 0 ELSE 1)
           /\ retired' >= retired /\ acked' = acked
BY SameBlock, RegsAssumptions, RP!CommandStep

\* One clock edge, with or without a store, or none.
AnyCycle ==
    \/ \E e, clear \in BOOLEAN :
          Regs!FifoEdge(e) /\ Regs!RetireEdge(clear) /\ Regs!DatapathEdge /\ ResultEdge
    \/ UNCHANGED <<regVars, c_buf>>

(* Each kind of step is such an edge.                                      *)
LEMMA StepsAreCycles ==
    /\ Tick => AnyCycle
    /\ \A f \in {"w", "a", "c", "m"}, v \in Val : Store(f, v) => AnyCycle
    /\ Regs!WriteCmd /\ ResultEdge => AnyCycle
<1>1. ASSUME NEW e \in BOOLEAN, NEW clear \in BOOLEAN, Regs!FifoEdge(e),
             Regs!RetireEdge(clear), Regs!DatapathEdge, ResultEdge
      PROVE  AnyCycle
  BY <1>1 DEF AnyCycle
<1>2. Tick => AnyCycle
  BY <1>1 DEF Tick, Edge, Regs!IdleCycle, AnyCycle
<1>3. \A f \in {"w", "a", "c", "m"}, v \in Val : Store(f, v) => AnyCycle
  BY <1>1 DEF Store, Regs!WriteField
<1>4. Regs!WriteCmd /\ ResultEdge => AnyCycle
  <2>1. Regs!CanEnqueue \in BOOLEAN
    BY DEF Regs!CanEnqueue, Regs!fifo_full
  <2>2. QED
    BY <1>1, <2>1 DEF Regs!WriteCmd
<1>5. QED
  BY <1>2, <1>3, <1>4

-------------------------------------------------------------------------------
(* The invariant.                                                          *)

Issuing == {"mem_w", "mem_a", "reg_w", "reg_a", "reg_c", "reg_m", "cmd"}

Positions ==
    /\ pc \in Issuing \cup {"poll", "read", "call_end"}
    /\ batch \in Nat /\ batch < NumChunks /\ slot \in Slot
    /\ pc \in Issuing \cup {"read"} => slot < BatchLen
    /\ pc = "poll" => slot = 0

FewOutstanding ==
    /\ pc \in Issuing => RP!Outstanding <= slot
    /\ pc \in {"read", "call_end"} => RP!Outstanding = 0

BackendInv == RP!Inv /\ Positions /\ FewOutstanding

(* There is a chunk, and the chunks cover M with none to spare.            *)
LEMMA NumChunksPositive ==
    /\ NumChunks \in Nat \ {0}
    /\ (NumChunks - 1) * MAX_ROWS <= M /\ M <= NumChunks * MAX_ROWS
<1>1. CASE M = 0
  BY <1>1, BackendAssumption DEF NumChunks
<1>2. CASE M # 0
  <2> DEFINE a == M + MAX_ROWS - 1
             q == a \div MAX_ROWS
             r == a % MAX_ROWS
  <2>1. M \in Nat \ {0} /\ MAX_ROWS \in Nat \ {0} /\ a \in Nat
    BY <1>2, BackendAssumption
  <2>2. a = q * MAX_ROWS + r /\ r \in 0..(MAX_ROWS - 1) /\ q \in Int
    BY <2>1, Z3
  <2>3. NumChunks = q
    BY <1>2 DEF NumChunks
  <2>4. a = M + MAX_ROWS - 1
    OBVIOUS
  <2> HIDE DEF a, q, r
  <2>5. (q - 1) * MAX_ROWS = q * MAX_ROWS - MAX_ROWS
    BY <2>1, <2>2, Z3
  <2>6. q >= 1
    <3>1. SUFFICES ASSUME q <= 0 PROVE FALSE
      BY <2>2
    <3>2. q * MAX_ROWS <= 0
      BY <2>1, <2>2, <3>1, Z3
    <3>3. QED
      BY <2>1, <2>2, <2>4, <3>2
  <2>7. q * MAX_ROWS \in Int
    BY <2>1, <2>2, Z3
  <2>8. (q - 1) * MAX_ROWS <= M
    BY <2>1, <2>2, <2>4, <2>5, <2>7
  <2>9. M <= q * MAX_ROWS
    BY <2>1, <2>2, <2>4, <2>7
  <2>10. QED
    BY <2>2, <2>3, <2>6, <2>8, <2>9
<1>3. QED
  BY <1>1, <1>2

(* Every chunk but the last is full, the last is not empty unless M is 0:  *)
(* no negative row count is ever stored to M_ROWS.                         *)
LEMMA ChunkRows ==
    ASSUME NEW k \in Nat, k < NumChunks
    PROVE  Chunk(k)[2] \in 0..MAX_ROWS
<1>1. /\ NumChunks \in Nat \ {0} /\ (NumChunks - 1) * MAX_ROWS <= M
      /\ M \in Nat /\ MAX_ROWS \in Nat \ {0}
  BY NumChunksPositive, BackendAssumption
<1>2. k * MAX_ROWS <= (NumChunks - 1) * MAX_ROWS
  <2> DEFINE n == NumChunks - 1
  <2>1. k <= n /\ n \in Nat
    BY <1>1
  <2> HIDE DEF n
  <2>2. k * MAX_ROWS <= n * MAX_ROWS
    BY <1>1, <2>1, Z3
  <2>3. QED
    BY <2>2 DEF n
<1>3. k * MAX_ROWS \in Nat /\ (NumChunks - 1) * MAX_ROWS \in Int
  BY <1>1, Z3
<1>4. M - k * MAX_ROWS \in Nat
  BY <1>1, <1>2, <1>3
<1>5. QED
  BY <1>1, <1>4 DEF Chunk, Lesser

LEMMA BatchFits ==
    ASSUME Positions
    PROVE  BatchLen \in 1..4 /\ batch + BatchLen <= NumChunks
BY NumChunksPositive DEF Positions, BatchLen, Lesser, QDEPTH

-------------------------------------------------------------------------------
(* The issuing phase of a batch.                                           *)
LEMMA IssueStep ==
    ASSUME BackendInv, Issue
    PROVE  BackendInv'
<1> USE DEF BackendInv
<1>0. accepted \in Nat /\ retired \in Nat
  BY RP!Counting, RegsAssumptions
<1>1. ASSUME Tick, pc \in Issuing, pc' \in Issuing, UNCHANGED progVars
      PROVE  BackendInv'
  <2>1. RP!Inv' /\ accepted' = accepted /\ retired' >= retired
    BY <1>1, TickStep
  <2>2. RP!Outstanding \in Nat /\ RP!Outstanding' \in Nat /\ RP!Outstanding' <= RP!Outstanding
    BY <2>1, RP!Draining, RegsAssumptions
  <2>3. Positions'
    BY <1>1 DEF Positions, progVars, Issuing, BatchLen
  <2>4. RP!Outstanding' <= slot'
    BY <1>1, <2>2 DEF FewOutstanding, progVars, Positions, Slot, QDEPTH
  <2>5. QED
    BY <1>1, <2>1, <2>3, <2>4 DEF FewOutstanding, Issuing
<1>2. CASE MemWriteW(HostSlot, <<call>>) /\ UNCHANGED progVars
  BY <1>1, <1>2 DEF MemWriteW, Issuing
<1>3. CASE MemWriteA(HostSlot, CurrentChunk) /\ UNCHANGED progVars
  BY <1>1, <1>3 DEF MemWriteA, Issuing
<1>4. CASE WriteRegs(HostSlot, CurrentChunk[2]) /\ UNCHANGED progVars
  <2>1. pc \in Issuing /\ pc' \in Issuing
    BY <1>4 DEF WriteRegs, Issuing
  <2>2. HostSlot \in Val
    BY HostAssumption DEF HostSlot, Positions
  <2>3. CurrentChunk[2] \in Val
    <3>1. batch + slot \in Nat /\ batch + slot < NumChunks
      BY <2>1, BatchFits, NumChunksPositive DEF Positions, Slot, QDEPTH
    <3>2. CurrentChunk[2] \in 0..MAX_ROWS
      BY <3>1, ChunkRows DEF CurrentChunk
    <3>3. QED
      BY <3>2, BackendAssumption
  <2>4. \E f \in {"w", "a", "c", "m"}, v \in Val : Store(f, v)
    BY <1>4, <2>2, <2>3 DEF WriteRegs
  <2>5. RP!Inv' /\ accepted' = accepted /\ retired' >= retired
    BY <2>4, StoreStep
  <2>6. RP!Outstanding \in Nat /\ RP!Outstanding' \in Nat /\ RP!Outstanding' <= RP!Outstanding
    BY <2>5, RP!Draining, RegsAssumptions
  <2>7. Positions'
    BY <1>4, <2>1 DEF Positions, progVars, Issuing, BatchLen
  <2>8. RP!Outstanding' <= slot'
    BY <1>4, <2>1, <2>6 DEF FewOutstanding, progVars, Positions, Slot, QDEPTH
  <2>9. QED
    BY <2>1, <2>5, <2>7, <2>8 DEF FewOutstanding, Issuing
<1>5. CASE /\ StoreCmd
           /\ IF slot + 1 < BatchLen
              THEN slot' = slot + 1 /\ pc' = "mem_w"
              ELSE slot' = 0 /\ pc' = "poll"
           /\ UNCHANGED <<call, batch, Ct>>
  <2>1. pc = "cmd" /\ RP!Inv' /\ accepted' <= accepted + 1 /\ retired' >= retired
    BY <1>0, <1>5, CommandStep DEF StoreCmd
  <2>2. retired' \in Nat /\ accepted' \in Nat
    BY <2>1 DEF RP!Inv, RP!TypeOK
  <2>3. Positions'
    BY <1>5, BatchFits DEF Positions, Issuing, BatchLen, Slot, QDEPTH
  <2>4. pc' \in Issuing => RP!Outstanding' <= slot'
    <3>1. \A a, r, b, s, k \in Nat : a - r <= k /\ b <= a + 1 /\ s >= r => b - s <= k + 1
      OBVIOUS
    <3>2. accepted - retired <= slot /\ slot \in Nat
      BY <2>1 DEF FewOutstanding, RP!Outstanding, Issuing, Positions, Slot, QDEPTH
    <3>3. accepted' - retired' <= slot + 1
      BY <1>0, <2>1, <2>2, <3>1, <3>2
    <3>4. pc' \in Issuing => slot' = slot + 1
      BY <1>5 DEF Issuing
    <3>5. QED
      BY <3>3, <3>4 DEF RP!Outstanding
  <2>5. QED
    BY <1>5, <2>1, <2>3, <2>4 DEF FewOutstanding, Issuing
<1>6. QED
  BY <1>2, <1>3, <1>4, <1>5 DEF Issue

(* What one STATUS read lets through has retired.                          *)
LEMMA PollExitMeansRetired ==
    ASSUME RP!Inv, PollExit
    PROVE  RP!Outstanding = 0
<1>1. fifo_cnt = 0 /\ ~busy /\ ~start /\ ~done
  BY DEF PollExit, Regs!Status, Regs!fifo_empty, Regs!status_busy
<1>2. QED
  BY <1>1 DEF RP!Inv, RP!TypeOK, RP!Conservation, RP!Bit, RP!Outstanding

\* A step without a store while nothing is outstanding.
LEMMA QuietTick ==
    ASSUME RP!Inv, RP!Outstanding = 0, Tick
    PROVE  RP!Inv' /\ RP!Outstanding' = 0
<1>1. RP!Inv' /\ accepted' = accepted /\ retired' >= retired
  BY TickStep
<1>2. QED
  BY <1>1, RP!Draining, RegsAssumptions

(* Every step preserves the invariant.                                     *)
LEMMA BackendStep ==
    ASSUME BackendInv, [Next]_vars
    PROVE  BackendInv'
<1> USE DEF BackendInv
<1>1. CASE Issue
  BY <1>1, IssueStep
<1>2. CASE Poll
  <2>1. RP!Inv' /\ RP!Outstanding' = 0
    BY <1>2, PollExitMeansRetired, QuietTick DEF Poll
  <2>2. Positions'
    BY <1>2, BatchFits DEF Poll, Positions, progVars, Issuing, BatchLen
  <2>3. QED
    BY <1>2, <2>1, <2>2 DEF Poll, FewOutstanding, Issuing
<1>3. CASE ReadBack
  <2>1. RP!Inv' /\ RP!Outstanding' = 0
    BY <1>3, QuietTick DEF ReadBack, FewOutstanding
  <2>2. Positions'
    <3>1. CASE slot + 1 < BatchLen
      BY <1>3, <3>1, BatchFits DEF ReadBack, Positions, Issuing, BatchLen, Slot, QDEPTH
    <3>2. CASE ~(slot + 1 < BatchLen) /\ batch + BatchLen < NumChunks
      <4>1. slot' = 0 /\ batch' = batch + BatchLen /\ pc' = "mem_w"
        BY <1>3, <3>2 DEF ReadBack
      <4>2. batch' \in Nat /\ batch' < NumChunks
        BY <3>2, <4>1, BatchFits DEF Positions
      <4>3. BatchLen' > 0
        <5>1. NumChunks - batch' \in Nat \ {0}
          <6>1. NumChunks \in Nat
            BY NumChunksPositive
          <6>2. \A n, b \in Nat : b < n => n - b \in Nat \ {0}
            OBVIOUS
          <6>3. QED
            BY <4>2, <6>1, <6>2
        <5>2. BatchLen' = Lesser(4, NumChunks - batch')
          BY DEF BatchLen, QDEPTH
        <5>3. QED
          BY <5>1, <5>2 DEF Lesser
      <4>4. QED
        BY <4>1, <4>2, <4>3 DEF Positions, Issuing, Slot, QDEPTH
    <3>3. CASE ~(slot + 1 < BatchLen) /\ ~(batch + BatchLen < NumChunks)
      BY <1>3, <3>3 DEF ReadBack, Positions, Issuing, Slot, QDEPTH
    <3>4. QED
      BY <3>1, <3>2, <3>3
  <2>3. pc' \in {"mem_w", "read", "call_end"} /\ slot' \in Slot /\ (pc' = "mem_w" => slot' = 0)
    BY <1>3, <2>2 DEF ReadBack, Positions
  <2>4. QED
    BY <2>1, <2>2, <2>3 DEF FewOutstanding, Issuing
<1>4. CASE NextCall
  <2>1. RP!Inv' /\ RP!Outstanding' = 0
    BY <1>4, QuietTick DEF NextCall, FewOutstanding
  <2>2. 0 < BatchLen'
    BY <1>4, NumChunksPositive DEF NextCall, BatchLen, Lesser, QDEPTH
  <2>3. Positions'
    BY <1>4, <2>2, NumChunksPositive DEF NextCall, Positions, Issuing, Slot, QDEPTH
  <2>4. QED
    BY <1>4, <2>1, <2>3 DEF NextCall, FewOutstanding, Issuing
<1>5. CASE OtherCycle
  <2>1. Tick /\ pc' = pc /\ UNCHANGED progVars
    BY <1>5 DEF OtherCycle, Tick
  <2>2. RP!Inv' /\ accepted' = accepted /\ retired' >= retired
    BY <2>1, TickStep
  <2>3. Positions'
    BY <2>1 DEF Positions, progVars, BatchLen
  <2>4. pc \in Issuing => RP!Outstanding' <= slot'
    <3>1. RP!Outstanding \in Nat /\ RP!Outstanding' \in Nat /\ RP!Outstanding' <= RP!Outstanding
      BY <2>2, RP!Draining, RegsAssumptions
    <3>2. QED
      BY <2>1, <3>1 DEF FewOutstanding, progVars, Positions, Slot, QDEPTH
  <2>5. pc \in {"read", "call_end"} => RP!Outstanding' = 0
    BY <2>1, QuietTick DEF FewOutstanding
  <2>6. QED
    BY <2>1, <2>2, <2>3, <2>4, <2>5 DEF FewOutstanding
<1>6. CASE UNCHANGED vars
  <2>1. Tick /\ pc' = pc /\ UNCHANGED progVars
    BY <1>6 DEF vars, Tick, bufVars
  <2>2. RP!Inv' /\ accepted' = accepted /\ retired' = retired
    BY <1>6, <2>1, TickStep DEF vars, regVars
  <2>3. QED
    BY <2>1, <2>2 DEF Positions, FewOutstanding, RP!Outstanding, progVars, BatchLen
<1>7. QED
  BY <1>1, <1>2, <1>3, <1>4, <1>5, <1>6 DEF Next, Drive

-------------------------------------------------------------------------------
(* The host starts in it.                                                  *)
LEMMA BackendInitially == Init => BackendInv
<1> SUFFICES ASSUME Init PROVE BackendInv
  OBVIOUS
<1>1. RP!Inv /\ accepted = 0 /\ retired = 0
  BY HostInitStep DEF Init
<1>2. BatchLen > 0
  BY NumChunksPositive DEF Init, BatchLen, Lesser, QDEPTH
<1>3. QED
  BY <1>1, <1>2, NumChunksPositive
     DEF Init, BackendInv, Positions, FewOutstanding, RP!Outstanding, Issuing, Slot, QDEPTH

(* The invariant of the polling host.                                      *)
THEOREM BackendInvariance == Spec => []BackendInv
<1>1. Init => BackendInv
  BY BackendInitially
<1>2. BackendInv /\ [Next]_vars => BackendInv'
  BY BackendStep
<1>3. QED
  BY <1>1, <1>2, PTL DEF Spec

(* The host only counts what it issues and never looks at queue_full       *)
(* (coproc_backend.py:91-108), and still no store to CMD is dropped.       *)
THEOREM StoresAreAccepted == Spec => []NeverDropped
<1>1. BackendInv => NeverDropped
  <2> SUFFICES ASSUME BackendInv, pc = "cmd" PROVE ~Regs!fifo_full
    BY DEF NeverDropped
  <2>1. RP!Outstanding <= slot /\ slot \in 0..3
    BY DEF BackendInv, FewOutstanding, Positions, Issuing, Slot, QDEPTH
  <2>2. fifo_cnt \in 0..4 /\ fifo_cnt <= RP!Outstanding /\ RP!Outstanding \in Int
    BY RP!Counting, RegsAssumptions DEF BackendInv, RP!Outstanding
  <2>3. QED
    BY <2>1, <2>2 DEF Regs!fifo_full
<1>2. QED
  BY <1>1, BackendInvariance, PTL

(* When results are read, everything issued has retired and nothing is in  *)
(* the queue or the datapath: one STATUS read with queue empty and not     *)
(* busy is enough (coproc_mmio.h:44-52).                                   *)
THEOREM PollIsSafe == Spec => []PollSeesAllRetired
<1>1. BackendInv => PollSeesAllRetired
  <2> SUFFICES ASSUME BackendInv, pc = "read"
               PROVE  retired = accepted /\ InFlight = {}
    BY DEF PollSeesAllRetired
  <2>1. RP!Outstanding = 0
    BY DEF BackendInv, FewOutstanding
  <2>2. retired = accepted /\ fifo_cnt = 0 /\ ~start /\ ~busy
    BY <2>1, RP!Counting, RegsAssumptions DEF BackendInv, RP!Outstanding
  <2>3. QED
    BY <2>2 DEF InFlight
<1>2. QED
  BY <1>1, BackendInvariance, PTL
-------------------------------------------------------------------------------
(* What is read back.  Position j of the batch keeps its operands until    *)
(* its command is finished, and its result from then until it is read; the *)
(* rows of the chunks read so far are filled in.                           *)
Active == Issuing \cup {"poll"}
Loaded == {"reg_w", "reg_a", "reg_c", "reg_m", "cmd"}

\* Commands of the batch sent, and finished, so far.
Sent == IF pc \in Issuing THEN slot ELSE BatchLen
Finished == Sent - RP!Outstanding + (IF done THEN 1 ELSE 0)

\* The command of position j of the batch, and what it computes.
CmdAt(c, j) == c.w = j /\ c.a = j /\ c.c = j /\ c.m = Chunk(batch + j)[2]
ResultAt(j) == <<<<call>>, Chunk(batch + j), Chunk(batch + j)[2]>>

QueueOK ==
    pc \in Active =>
        /\ \A i \in 0..3 : i < fifo_cnt =>
               CmdAt(fifo_mem[(fifo_rp + i) % 4], Sent - fifo_cnt + i)
        /\ start \/ busy => CmdAt(cmd, Sent - fifo_cnt - 1)
        /\ RP!Outstanding <= Sent

HoldOK ==
    /\ pc \in {"reg_a", "reg_c", "reg_m", "cmd"} => hold.w = slot
    /\ pc \in {"reg_c", "reg_m", "cmd"} => hold.a = slot
    /\ pc \in {"reg_m", "cmd"} => hold.c = slot
    /\ pc = "cmd" => hold.m = Chunk(batch + slot)[2]

BuffersOK ==
    /\ DOMAIN w_buf = Slot /\ DOMAIN a_buf = Slot /\ DOMAIN c_buf = Slot
    /\ pc \in Active =>
           /\ \A j \in Finished..(Sent - 1) :
                  w_buf[j] = <<call>> /\ a_buf[j] = Chunk(batch + j)
           /\ \A j \in 0..(Finished - 1) : c_buf[j] = ResultAt(j)
    /\ pc \in Loaded \cup {"mem_a"} => w_buf[slot] = <<call>>
    /\ pc \in Loaded => a_buf[slot] = Chunk(batch + slot)
    /\ pc = "read" => \A j \in slot..(BatchLen - 1) : c_buf[j] = ResultAt(j)

RowsRead == IF pc = "call_end" THEN M
            ELSE (batch + (IF pc = "read" THEN slot ELSE 0)) * MAX_ROWS

RowsOK ==
    /\ DOMAIN Ct = 0..(M - 1)
    /\ \A r \in 0..(M - 1) : r < RowsRead => Ct[r] = <<<<call>>, r>>

DataInv == BackendInv /\ QueueOK /\ HoldOK /\ BuffersOK /\ RowsOK

LEMMA FinishedBounds ==
    ASSUME DataInv, pc \in Active
    PROVE  /\ Sent \in 0..4 /\ Finished \in 0..Sent /\ slot \in Slot
           /\ pc \in Issuing => Sent = slot /\ slot < 4
           /\ busy => Sent - fifo_cnt - 1 = Finished /\ Finished < Sent
<1>1. /\ Sent \in 0..4 /\ slot \in Slot /\ (pc \in Issuing => Sent = slot /\ slot < 4)
  BY BatchFits DEF DataInv, BackendInv, Positions, Sent, Slot, QDEPTH
<1>2. /\ accepted \in Nat /\ retired \in Nat /\ fifo_cnt \in 0..4
      /\ start \in BOOLEAN /\ busy \in BOOLEAN /\ done \in BOOLEAN
  BY DEF DataInv, BackendInv, RP!Inv, RP!TypeOK
<1>3. accepted = retired + fifo_cnt + (IF start THEN 1 ELSE 0) + (IF busy THEN 1 ELSE 0)
                         + (IF done THEN 1 ELSE 0)
  BY DEF DataInv, BackendInv, RP!Inv, RP!Conservation, RP!Bit
<1>4. busy => ~start /\ ~done
  BY DEF DataInv, BackendInv, RP!Inv, RP!InFlightExclusive
<1>5. accepted - retired <= Sent
  BY DEF DataInv, QueueOK, RP!Outstanding
<1>6. Finished = Sent - (accepted - retired) + (IF done THEN 1 ELSE 0)
  BY DEF Finished, RP!Outstanding
<1>7. Finished \in 0..Sent
  BY <1>1, <1>2, <1>3, <1>5, <1>6
<1>8. busy => Sent - fifo_cnt - 1 = Finished /\ Finished < Sent
  BY <1>1, <1>2, <1>3, <1>4, <1>6
<1>9. QED
  BY <1>1, <1>7, <1>8

(* On any edge the results of the batch stay, and a command that finishes  *)
(* leaves its own result in its own buffer.                                *)
LEMMA ResultsKept ==
    ASSUME DataInv, pc \in Active, AnyCycle, NEW n \in Nat,
           n = Sent + accepted' - accepted, n <= 4
    PROVE  LET f == n - RP!Outstanding' + (IF done' THEN 1 ELSE 0)
           IN  /\ f \in {Finished, Finished + 1} /\ f <= n /\ DOMAIN c_buf' = Slot
               /\ \A j \in 0..(f - 1) : c_buf'[j] = ResultAt(j)
<1> DEFINE f == n - RP!Outstanding' + (IF done' THEN 1 ELSE 0)
<1>1. /\ Sent \in 0..4 /\ Finished \in 0..Sent /\ accepted \in Nat /\ retired \in Nat
      /\ Finished = Sent - (accepted - retired) + (IF done THEN 1 ELSE 0)
      /\ done \in BOOLEAN
  BY FinishedBounds DEF DataInv, BackendInv, RP!Inv, RP!TypeOK, Finished, RP!Outstanding
<1>2. f = n - (accepted' - retired') + (IF done' THEN 1 ELSE 0)
  BY DEF RP!Outstanding
<1> HIDE DEF f
<1>3. CASE UNCHANGED <<regVars, c_buf>>
  <2>1. UNCHANGED <<accepted, retired, done, c_buf>>
    BY <1>3 DEF regVars
  <2>2. n = Sent
    BY <1>1, <2>1
  <2>3. f = Finished
    BY <1>1, <1>2, <2>1, <2>2
  <2>4. QED
    BY <1>1, <2>1, <2>2, <2>3 DEF DataInv, BuffersOK, f
<1>4. ASSUME NEW e \in BOOLEAN, NEW clear \in BOOLEAN, Regs!FifoEdge(e),
             Regs!RetireEdge(clear), Regs!DatapathEdge, ResultEdge
      PROVE  /\ f \in {Finished, Finished + 1} /\ f <= n /\ DOMAIN c_buf' = Slot
             /\ \A j \in 0..(f - 1) : c_buf'[j] = ResultAt(j)
  <2>1. /\ retired' = retired + (IF done THEN 1 ELSE 0)
        /\ accepted' = accepted + (IF e THEN 1 ELSE 0)
    BY <1>4 DEF Regs!RetireEdge, Regs!FifoEdge, Regs!Bit
  <2>2. f = Finished + (IF done' THEN 1 ELSE 0) /\ n >= Sent
    BY <1>1, <1>2, <2>1
  <2>3. DOMAIN c_buf' = Slot
    BY <1>4 DEF ResultEdge, DataInv, BuffersOK
  <2>4. CASE ~done'
    <3>1. c_buf' = c_buf /\ f = Finished
      BY <1>1, <1>4, <2>2, <2>4 DEF ResultEdge
    <3>2. QED
      BY <1>1, <2>2, <2>3, <3>1 DEF DataInv, BuffersOK
  <2>5. CASE done'
    <3>1. busy
      BY <1>4, <2>5 DEF Regs!DatapathEdge, Regs!DP!Run, Regs!DP!Accept, Regs!DP!Rest
    <3>2. CmdAt(cmd, Finished) /\ Finished < Sent
      BY <3>1, FinishedBounds DEF DataInv, QueueOK
    <3>3. Product = ResultAt(Finished)
      BY <1>1, <3>2 DEF Product, CmdAt, DataInv, BuffersOK, ResultAt
    <3>4. c_buf' = [c_buf EXCEPT ![Finished] = ResultAt(Finished)]
      BY <1>4, <2>5, <3>2, <3>3 DEF ResultEdge, CmdAt
    <3>5. ASSUME NEW j \in 0..(f - 1)
          PROVE  c_buf'[j] = ResultAt(j)
      <4>1. j \in Slot /\ (j = Finished \/ j \in 0..(Finished - 1))
        BY <1>1, <2>2, <2>5, <3>2 DEF Slot, QDEPTH
      <4>2. QED
        BY <1>1, <3>4, <4>1 DEF DataInv, BuffersOK
    <3>6. QED
      BY <1>1, <2>2, <2>3, <2>5, <3>2, <3>5
  <2>6. QED
    BY <2>4, <2>5
<1>5. QED
  BY <1>3, <1>4 DEF AnyCycle, f

(* What is outstanding grows by no more than what is accepted.             *)
LEMMA StillOutstanding ==
    ASSUME accepted \in Nat, retired \in Nat, retired' \in Nat, retired' >= retired,
           NEW n \in Nat, RP!Outstanding <= n, NEW x \in Nat, accepted' = accepted + x
    PROVE  RP!Outstanding' <= n + x
<1>1. \A t \in Nat : t >= retired => (accepted + x) - t <= n + x
  BY DEF RP!Outstanding
<1>2. (accepted + x) - retired' <= n + x
  BY <1>1
<1>3. QED
  BY <1>2 DEF RP!Outstanding

(* While the batch is under way the queue hands its commands on in order.  *)
LEMMA QueueKept ==
    ASSUME DataInv, BackendInv', pc \in Active, UNCHANGED <<call, batch>>,
           NEW e \in BOOLEAN, e => ~Regs!fifo_full /\ pc = "cmd",
           \/ Regs!FifoEdge(e) /\ Regs!DatapathEdge
           \/ UNCHANGED <<regVars, c_buf>> /\ ~e,
           accepted' = accepted + (IF e THEN 1 ELSE 0), retired' >= retired,
           Sent' = Sent + (IF e THEN 1 ELSE 0)
    PROVE  QueueOK'
<1> DEFINE C == [j \in Int |-> {c \in RP!Cmd : CmdAt(c, j)}]
<1>1. /\ hold \in RP!Cmd /\ cmd \in RP!Cmd /\ fifo_mem \in [0..3 -> RP!Cmd]
      /\ fifo_cnt \in 0..4 /\ fifo_rp \in 0..3 /\ Sent \in 0..4 /\ RP!Inv
      /\ accepted \in Nat /\ retired \in Nat
  BY FinishedBounds DEF DataInv, BackendInv, RP!Inv, RP!TypeOK
<1>2. \A i \in 0..3 : i < fifo_cnt => fifo_mem[(fifo_rp + i) % 4] \in C[Sent - fifo_cnt + i]
  BY <1>1 DEF DataInv, QueueOK
<1>3. start \/ busy => cmd \in C[Sent - fifo_cnt - 1]
  BY <1>1 DEF DataInv, QueueOK
<1>4. e => ~Regs!fifo_full /\ hold \in C[Sent]
  <2>1. ASSUME e PROVE CmdAt(hold, Sent)
    BY <1>1, <2>1 DEF DataInv, HoldOK, CmdAt, Sent, Issuing
  <2>2. QED
    BY <1>1, <2>1
<1>5. \A j \in Int : \A c \in C[j] : CmdAt(c, j)
  OBVIOUS
<1> HIDE DEF C
<1>6. Sent' \in Int /\ fifo_cnt' \in Int /\ retired' \in Nat /\ accepted' \in Nat
  BY <1>1 DEF BackendInv, RP!Inv, RP!TypeOK
<1>7. /\ \A i \in 0..3 : i < fifo_cnt' =>
            CmdAt(fifo_mem'[(fifo_rp' + i) % 4], Sent' - fifo_cnt' + i)
      /\ start' \/ busy' => CmdAt(cmd', Sent' - fifo_cnt' - 1)
  <2>1. CASE Regs!FifoEdge(e) /\ Regs!DatapathEdge
    <3>1. /\ \A i \in 0..3 : i < fifo_cnt' =>
                fifo_mem'[(fifo_rp' + i) % 4] \in C[Sent' - fifo_cnt' + i]
          /\ start' \/ busy' => cmd' \in C[Sent' - fifo_cnt' - 1]
      <4>1. RP!Inv /\ Sent \in Int /\ Sent' \in Int
        BY <1>1, <1>6
      <4>2. Sent' = Sent + (IF e THEN 1 ELSE 0)
        OBVIOUS
      <4> HIDE DEF Active
      <4>3. RP!FifoEdge(e) /\ RP!DatapathEdge /\ (e => ~RP!fifo_full /\ hold \in C[Sent])
        BY <1>4, <2>1, SameBlock
      <4>4. QED
        BY <1>2, <1>3, <4>1, <4>2, <4>3, RP!HandedOn, RegsAssumptions
    <3>2. QED
      BY <1>5, <1>6, <3>1
  <2>2. CASE UNCHANGED <<regVars, c_buf>> /\ ~e
    <3>1. UNCHANGED <<fifo_mem, fifo_rp, fifo_cnt, start, busy, cmd>> /\ Sent' = Sent
      BY <1>1, <2>2 DEF regVars
    <3>2. QED
      BY <3>1 DEF DataInv, QueueOK
  <2>3. QED
    BY <2>1, <2>2
<1>8. \A c, j : CmdAt(c, j)' <=> CmdAt(c', j')
  BY DEF CmdAt, Chunk
<1>9. RP!Outstanding' <= Sent'
  <2>1. RP!Outstanding <= Sent
    BY DEF DataInv, QueueOK
  <2>2. Sent \in Nat /\ (IF e THEN 1 ELSE 0) \in Nat
    BY <1>1
  <2>3. QED
    BY <1>1, <1>6, <2>1, <2>2, StillOutstanding
<1>10. QED
  BY <1>7, <1>9 DEF QueueOK, CmdAt, Chunk

(* A step of the batch that writes no operand buffer in use.               *)
LEMMA BuffersKept ==
    ASSUME DataInv, pc \in Active, pc' \in Active, AnyCycle, UNCHANGED <<call, batch>>,
           Sent' = Sent + accepted' - accepted, Sent' \in 0..4,
           DOMAIN w_buf' = Slot, DOMAIN a_buf' = Slot,
           \A j \in 0..(slot - 1) : w_buf'[j] = w_buf[j] /\ a_buf'[j] = a_buf[j],
           \/ Sent' = Sent /\ (pc = "poll" => UNCHANGED <<w_buf, a_buf>>)
           \/ Sent' = Sent + 1 /\ pc = "cmd" /\ UNCHANGED <<w_buf, a_buf>>,
           pc' \in Loaded \cup {"mem_a"} => w_buf'[slot'] = <<call>>,
           pc' \in Loaded => a_buf'[slot'] = Chunk(batch + slot')
    PROVE  BuffersOK'
<1>1. /\ Sent \in 0..4 /\ Finished \in 0..Sent /\ slot \in Slot
      /\ pc \in Issuing => Sent = slot
  BY FinishedBounds
<1>2. Finished' = Sent' - RP!Outstanding' + (IF done' THEN 1 ELSE 0)
  BY DEF Finished
<1>3. /\ Finished' \in {Finished, Finished + 1} /\ Finished' <= Sent' /\ DOMAIN c_buf' = Slot
      /\ \A j \in 0..(Finished' - 1) : c_buf'[j] = ResultAt(j)
  <2> DEFINE f == Sent' - RP!Outstanding' + (IF done' THEN 1 ELSE 0)
  <2>1. /\ f \in {Finished, Finished + 1} /\ f <= Sent' /\ DOMAIN c_buf' = Slot
        /\ \A j \in 0..(f - 1) : c_buf'[j] = ResultAt(j)
    BY ResultsKept
  <2>2. QED
    BY <1>2, <2>1
<1>4. ASSUME NEW j \in (Finished')..(Sent' - 1)
      PROVE  w_buf'[j] = <<call>> /\ a_buf'[j] = Chunk(batch + j)
  <2>1. CASE j \in Finished..(Sent - 1)
    <3>1. w_buf[j] = <<call>> /\ a_buf[j] = Chunk(batch + j)
      BY <2>1 DEF DataInv, BuffersOK
    <3>2. CASE pc = "poll"
      BY <3>1, <3>2, <1>1
    <3>3. CASE pc # "poll"
      <4>1. j \in 0..(slot - 1)
        BY <1>1, <2>1, <3>3 DEF Active
      <4>2. QED
        BY <3>1, <4>1
    <3>4. QED
      BY <3>2, <3>3
  <2>2. CASE j \notin Finished..(Sent - 1)
    <3>1. Sent' = Sent + 1 /\ j = Sent /\ pc = "cmd" /\ UNCHANGED <<w_buf, a_buf>>
      BY <1>1, <1>3, <2>2
    <3>2. j = slot
      BY <1>1, <3>1 DEF Issuing
    <3>3. QED
      BY <3>1, <3>2 DEF DataInv, BuffersOK, Loaded
  <2>3. QED
    BY <2>1, <2>2
<1>5. pc' # "read"
  BY DEF Active, Issuing
<1>6. /\ \A j : Chunk(batch + j)' = Chunk(batch + j')
      /\ \A j \in (Finished')..(Sent' - 1) : w_buf'[j] = <<call'>> /\ a_buf'[j] = Chunk(batch' + j)
      /\ \A j \in 0..(Finished' - 1) : c_buf'[j] = <<<<call'>>, Chunk(batch' + j), Chunk(batch' + j)[2]>>
  BY <1>3, <1>4 DEF Chunk, ResultAt
<1>7. QED
  BY <1>3, <1>5, <1>6 DEF BuffersOK, ResultAt, Chunk

(* Reading a result back fills in the rows of its chunk.                   *)
LEMMA RowsFilled ==
    ASSUME DataInv, ReadBack
    PROVE  RowsOK'
<1> DEFINE k == batch + slot
           row0 == k * MAX_ROWS
           rows == Lesser(MAX_ROWS, M - k * MAX_ROWS)
<1>1. /\ pc = "read" /\ k \in Nat /\ slot \in 0..(BatchLen - 1) /\ slot \in Nat
      /\ batch \in Nat /\ BatchLen \in 1..4 /\ batch + BatchLen <= NumChunks
      /\ M \in Nat /\ MAX_ROWS \in Nat \ {0} /\ NumChunks \in Nat
  BY BatchFits, BackendAssumption, NumChunksPositive
     DEF ReadBack, DataInv, BackendInv, Positions, Slot, QDEPTH
<1>2. c_buf[HostSlot] = <<<<call>>, <<row0, rows>>, rows>>
  BY <1>1 DEF DataInv, BuffersOK, HostSlot, ResultAt, Chunk
<1>3. CurrentChunk = <<row0, rows>>
  BY DEF CurrentChunk, Chunk
<1>4. /\ DOMAIN Ct = 0..(M - 1)
      /\ \A r \in 0..(M - 1) : r < row0 => Ct[r] = <<<<call>>, r>>
  BY <1>1 DEF DataInv, RowsOK, RowsRead
<1>5. row0 \in Nat /\ (k + 1) * MAX_ROWS = row0 + MAX_ROWS
  <2>1. \A x \in Nat, y \in Nat : x * y \in Nat /\ (x + 1) * y = x * y + y
    BY Z3
  <2> HIDE DEF k
  <2>2. QED
    BY <1>1, <2>1
<1>6. Ct' = [r \in DOMAIN Ct |-> IF r >= row0 /\ r < row0 + rows
                                 THEN <<<<call>>, row0 + r - row0>> ELSE Ct[r]]
  <2> HIDE DEF k, row0, rows
  <2>1. QED
    BY <1>2, <1>3 DEF ReadBack, RowOf
<1>7. rows = Lesser(MAX_ROWS, M - row0)
  OBVIOUS
<1> HIDE DEF row0, rows
<1>8. ASSUME NEW r \in 0..(M - 1), r < row0 + MAX_ROWS
      PROVE  Ct'[r] = <<<<call>>, r>>
  <2>1. CASE r < row0
    BY <1>1, <1>4, <1>5, <1>6, <2>1
  <2>2. CASE r >= row0
    <3>1. r < row0 + rows /\ row0 + r - row0 = r
      BY <1>1, <1>5, <1>7, <1>8, <2>2 DEF Lesser
    <3>2. QED
      BY <1>4, <1>6, <2>2, <3>1
  <2>3. QED
    BY <1>1, <1>5, <2>1, <2>2
<1>9. ASSUME NEW r \in 0..(M - 1), r < RowsRead'
      PROVE  r < row0 + MAX_ROWS
  <2>1. CASE slot + 1 < BatchLen
    <3>1. pc' = "read" /\ slot' = slot + 1 /\ batch' = batch
      BY <2>1 DEF ReadBack
    <3>2. RowsRead' = (k + 1) * MAX_ROWS
      <4>1. batch + (slot + 1) = k + 1
        BY <1>1
      <4>2. QED
        BY <3>1, <4>1 DEF RowsRead
    <3>3. QED
      BY <1>5, <1>9, <3>2
  <2>2. CASE ~(slot + 1 < BatchLen) /\ batch + BatchLen < NumChunks
    <3>1. pc' = "mem_w" /\ batch' = batch + BatchLen
      BY <2>2 DEF ReadBack
    <3>2. RowsRead' = (k + 1) * MAX_ROWS
      <4>1. batch + BatchLen + 0 = k + 1
        BY <1>1, <2>2
      <4>2. QED
        BY <3>1, <4>1 DEF RowsRead
    <3>3. QED
      BY <1>5, <1>9, <3>2
  <2>3. CASE ~(slot + 1 < BatchLen) /\ ~(batch + BatchLen < NumChunks)
    <3>1. NumChunks = k + 1
      BY <1>1, <2>3
    <3>2. M <= row0 + MAX_ROWS
      BY <1>5, <3>1, NumChunksPositive
    <3>3. QED
      BY <1>1, <1>5, <3>2
  <2>4. QED
    BY <2>1, <2>2, <2>3
<1>10. call' = call
  BY DEF ReadBack
<1>11. DOMAIN Ct' = 0..(M - 1)
  BY <1>4, <1>6
<1>12. QED
  BY <1>8, <1>9, <1>10, <1>11 DEF RowsOK

(* A step without a store while nothing is outstanding leaves the results. *)
LEMMA QuietBuffers ==
    ASSUME DataInv, Tick, RP!Outstanding = 0
    PROVE  c_buf' = c_buf /\ ~done'
<1>1. ~start /\ ~busy /\ ~done
  BY RP!Counting, RegsAssumptions DEF DataInv, BackendInv
<1>2. CASE Edge
  BY <1>1, <1>2 DEF Edge, ResultEdge, Regs!IdleCycle, Regs!DatapathEdge, Regs!DP!Rest
<1>3. CASE UNCHANGED <<regVars, c_buf>>
  BY <1>1, <1>3 DEF regVars
<1>4. QED
  BY <1>2, <1>3 DEF Tick

(* With nothing sent of a new batch there is nothing to keep.              *)
LEMMA FreshBatch ==
    ASSUME RP!Inv', RP!Outstanding' = 0, pc' = "mem_w", slot' = 0,
           DOMAIN w_buf' = Slot, DOMAIN a_buf' = Slot, DOMAIN c_buf' = Slot
    PROVE  QueueOK' /\ HoldOK' /\ BuffersOK'
<1>1. /\ accepted' \in Nat /\ retired' \in Nat /\ fifo_cnt' \in Nat
      /\ accepted' = retired' + fifo_cnt' + RP!Bit(start') + RP!Bit(busy') + RP!Bit(done')
  BY DEF RP!Inv, RP!TypeOK, RP!Conservation
<1>2. fifo_cnt' = 0 /\ ~start' /\ ~busy' /\ ~done'
  <2>1. /\ RP!Bit(start') \in Nat /\ RP!Bit(busy') \in Nat /\ RP!Bit(done') \in Nat
        /\ start' => RP!Bit(start') > 0
        /\ busy' => RP!Bit(busy') > 0
        /\ done' => RP!Bit(done') > 0
    BY DEF RP!Bit
  <2>2. \A a, r, f, s, b, d \in Nat : a = r + f + s + b + d /\ a - r = 0
            => f = 0 /\ s = 0 /\ b = 0 /\ d = 0
    OBVIOUS
  <2>3. accepted' - retired' = 0
    BY DEF RP!Outstanding
  <2>4. fifo_cnt' = 0 /\ RP!Bit(start') = 0 /\ RP!Bit(busy') = 0 /\ RP!Bit(done') = 0
    BY <1>1, <2>1, <2>2, <2>3
  <2>5. QED
    BY <2>1, <2>4
<1>3. Sent' = 0 /\ Finished' = 0
  BY <1>2 DEF Sent, Finished, Issuing
<1>4. QED
  BY <1>2, <1>3 DEF QueueOK, HoldOK, BuffersOK, Active, Issuing, Loaded

(* A step of the batch other than a store to CMD.                          *)
LEMMA BatchStep ==
    ASSUME DataInv, BackendInv', UNCHANGED progVars,
           \/ pc \in Issuing /\ pc' \in Issuing
           \/ pc = "poll" /\ pc' = "poll",
           Tick \/ \E f \in {"w", "a", "c", "m"}, v \in Val : Store(f, v)
    PROVE  /\ AnyCycle /\ QueueOK' /\ RowsOK'
           /\ pc \in Active /\ pc' \in Active
           /\ Sent' = Sent /\ Sent \in 0..4 /\ slot \in Slot
           /\ Sent' = Sent + accepted' - accepted
<1>1. accepted \in Nat /\ accepted' = accepted /\ retired' >= retired
  BY TickStep, StoreStep, RP!Counting, RegsAssumptions DEF DataInv, BackendInv
<1>2. AnyCycle
  BY StepsAreCycles
<1>3. pc \in Active /\ pc' \in Active
  BY DEF Active
<1>4. Sent' = Sent /\ Sent \in 0..4 /\ slot \in Slot
  BY <1>3, FinishedBounds DEF Sent, Issuing, progVars, BatchLen
<1>5. QueueOK'
  <2>1. \/ Regs!FifoEdge(FALSE) /\ Regs!DatapathEdge
        \/ UNCHANGED <<regVars, c_buf>>
    BY DEF Tick, Edge, Regs!IdleCycle, Store, Regs!WriteField
  <2>2. Sent' = Sent + 0 /\ accepted' = accepted + 0 /\ UNCHANGED <<call, batch>>
    BY <1>1, <1>4 DEF progVars
  <2>3. QED
    BY <1>1, <1>3, <2>1, <2>2, QueueKept
<1>6. RowsRead' = RowsRead
  BY DEF RowsRead, Issuing, progVars
<1>7. RowsOK'
  BY <1>6 DEF RowsOK, DataInv, progVars
<1>8. QED
  BY <1>1, <1>2, <1>3, <1>4, <1>5, <1>7

(* The issue of one chunk.                                                 *)
LEMMA IssueData ==
    ASSUME DataInv, Issue
    PROVE  DataInv'
<1>0. /\ BackendInv' /\ slot \in Slot /\ batch + slot \in Nat /\ batch + slot < NumChunks
      /\ pc \in Issuing /\ BatchLen \in 1..4 /\ slot < BatchLen
  <2>1. pc \in Issuing
    BY DEF Issue, MemWriteW, MemWriteA, WriteRegs, StoreCmd, Issuing
  <2>2. QED
    BY <2>1, IssueStep, BatchFits, NumChunksPositive
       DEF DataInv, BackendInv, Positions, Slot, QDEPTH
<1>1. CASE MemWriteW(HostSlot, <<call>>) /\ UNCHANGED progVars
  <2>1. /\ pc = "mem_w" /\ pc' = "mem_a" /\ Tick /\ UNCHANGED progVars
        /\ w_buf' = [w_buf EXCEPT ![slot] = <<call>>] /\ a_buf' = a_buf
    BY <1>1 DEF MemWriteW, HostSlot
  <2>2. AnyCycle /\ QueueOK' /\ RowsOK' /\ Sent' = Sent /\ Sent \in 0..4
        /\ Sent' = Sent + accepted' - accepted
    BY <1>0, <2>1, BatchStep DEF Issuing
  <2>3. HoldOK'
    BY <2>1 DEF HoldOK
  <2>4. /\ DOMAIN w_buf' = Slot /\ DOMAIN a_buf' = Slot /\ w_buf'[slot] = <<call>>
        /\ \A j \in 0..(slot - 1) : w_buf'[j] = w_buf[j] /\ a_buf'[j] = a_buf[j]
    BY <1>0, <2>1 DEF DataInv, BuffersOK, Slot, QDEPTH
  <2>5. BuffersOK'
    BY <2>1, <2>2, <2>4, BuffersKept DEF progVars, Active, Issuing, Loaded
  <2>6. QED
    BY <1>0, <2>2, <2>3, <2>5 DEF DataInv
<1>2. CASE MemWriteA(HostSlot, CurrentChunk) /\ UNCHANGED progVars
  <2>1. /\ pc = "mem_a" /\ pc' = "reg_w" /\ Tick /\ UNCHANGED progVars
        /\ a_buf' = [a_buf EXCEPT ![slot] = Chunk(batch + slot)] /\ w_buf' = w_buf
    BY <1>2 DEF MemWriteA, HostSlot, CurrentChunk
  <2>2. AnyCycle /\ QueueOK' /\ RowsOK' /\ Sent' = Sent /\ Sent \in 0..4
        /\ Sent' = Sent + accepted' - accepted
    BY <1>0, <2>1, BatchStep DEF Issuing
  <2>3. HoldOK'
    BY <2>1 DEF HoldOK
  <2>4. /\ DOMAIN w_buf' = Slot /\ DOMAIN a_buf' = Slot
        /\ w_buf'[slot] = <<call>> /\ a_buf'[slot] = Chunk(batch + slot)
        /\ \A j \in 0..(slot - 1) : w_buf'[j] = w_buf[j] /\ a_buf'[j] = a_buf[j]
    BY <1>0, <2>1 DEF DataInv, BuffersOK, Slot, QDEPTH
  <2>5. BuffersOK'
    BY <2>1, <2>2, <2>4, BuffersKept DEF progVars, Active, Issuing, Loaded
  <2>6. QED
    BY <1>0, <2>2, <2>3, <2>5 DEF DataInv
<1>3. CASE WriteRegs(HostSlot, CurrentChunk[2]) /\ UNCHANGED progVars
  <2> DEFINE rows == Chunk(batch + slot)[2]
  <2>1. rows \in Val /\ slot \in Val
    <3>1. rows \in 0..MAX_ROWS
      BY <1>0, ChunkRows
    <3> HIDE DEF rows
    <3>2. QED
      BY <1>0, <3>1, BackendAssumption, HostAssumption
  <2>2. /\ \/ pc = "reg_w" /\ pc' = "reg_a" /\ Store("w", slot)
           \/ pc = "reg_a" /\ pc' = "reg_c" /\ Store("a", slot)
           \/ pc = "reg_c" /\ pc' = "reg_m" /\ Store("c", slot)
           \/ pc = "reg_m" /\ pc' = "cmd" /\ Store("m", rows)
        /\ UNCHANGED <<w_buf, a_buf, progVars>>
    BY <1>3 DEF WriteRegs, HostSlot, CurrentChunk
  <2>3. AnyCycle /\ QueueOK' /\ RowsOK' /\ Sent' = Sent /\ Sent \in 0..4
        /\ Sent' = Sent + accepted' - accepted
    BY <1>0, <2>1, <2>2, BatchStep DEF Issuing
  <2>4. HoldOK'
    <3>1. hold \in [{"w", "a", "c", "m"} -> Val] /\ RP!Inv
      BY DEF DataInv, BackendInv, RP!Inv, RP!TypeOK, RP!Cmd
    <3>2. rows' = rows /\ slot' = slot
      BY <2>2 DEF progVars, Chunk
    <3>3. \/ pc = "reg_w" /\ pc' = "reg_a" /\ hold' = [hold EXCEPT !["w"] = slot]
          \/ pc = "reg_a" /\ pc' = "reg_c" /\ hold' = [hold EXCEPT !["a"] = slot]
          \/ pc = "reg_c" /\ pc' = "reg_m" /\ hold' = [hold EXCEPT !["c"] = slot]
          \/ pc = "reg_m" /\ pc' = "cmd" /\ hold' = [hold EXCEPT !["m"] = rows]
      BY <2>1, <2>2, <3>1, StoreStep
    <3> HIDE DEF rows
    <3>4. \/ pc = "reg_w" /\ pc' = "reg_a" /\ hold'.w = slot
          \/ pc = "reg_a" /\ pc' = "reg_c" /\ hold'.w = slot /\ hold'.a = slot
          \/ pc = "reg_c" /\ pc' = "reg_m" /\ hold'.w = slot /\ hold'.a = slot /\ hold'.c = slot
          \/ /\ pc = "reg_m" /\ pc' = "cmd"
             /\ hold'.w = slot /\ hold'.a = slot /\ hold'.c = slot /\ hold'.m = rows
      BY <3>1, <3>3 DEF DataInv, HoldOK
    <3>5. QED
      BY <3>2, <3>4 DEF HoldOK, rows
  <2>5. BuffersOK'
    <3>1. /\ DOMAIN w_buf' = Slot /\ DOMAIN a_buf' = Slot
          /\ w_buf'[slot] = <<call>> /\ a_buf'[slot] = Chunk(batch + slot)
      BY <2>2 DEF DataInv, BuffersOK, Loaded
    <3>2. pc \in Active /\ pc' \in Active /\ pc # "poll"
      BY <2>2 DEF Active, Issuing
    <3> HIDE DEF rows
    <3>3. QED
      BY <2>2, <2>3, <3>1, <3>2, BuffersKept DEF progVars
  <2>6. QED
    BY <1>0, <2>3, <2>4, <2>5 DEF DataInv
<1>4. CASE /\ StoreCmd
           /\ IF slot + 1 < BatchLen
              THEN slot' = slot + 1 /\ pc' = "mem_w"
              ELSE slot' = 0 /\ pc' = "poll"
           /\ UNCHANGED <<call, batch, Ct>>
  <2>1. /\ pc = "cmd" /\ pc' \in {"mem_w", "poll"} /\ Regs!WriteCmd /\ ResultEdge
        /\ UNCHANGED <<w_buf, a_buf, call, batch, Ct>>
    BY <1>4 DEF StoreCmd
  <2>2. pc \in Active /\ pc' \in Active /\ AnyCycle /\ Sent = slot
    BY <2>1, StepsAreCycles DEF Active, Issuing, Sent
  <2>3. ~Regs!fifo_full
    <3>1. RP!Outstanding <= slot /\ slot \in 0..3
      BY <1>0, <2>1 DEF DataInv, BackendInv, FewOutstanding, Issuing, Slot, QDEPTH
    <3>2. fifo_cnt \in 0..4 /\ fifo_cnt <= RP!Outstanding /\ RP!Outstanding \in Int
      BY RP!Counting, RegsAssumptions DEF DataInv, BackendInv, RP!Outstanding
    <3>3. QED
      BY <3>1, <3>2 DEF Regs!fifo_full
  <2>4. Sent' = slot + 1 /\ slot + 1 <= 4
    <3>1. BatchLen' = BatchLen /\ slot \in Nat /\ slot + 1 <= BatchLen /\ BatchLen <= 4
      BY <1>0, <2>1 DEF BatchLen, Slot, QDEPTH
    <3>2. CASE slot + 1 < BatchLen
      <4>1. slot' = slot + 1 /\ pc' \in Issuing
        BY <1>4, <3>2 DEF Issuing
      <4>2. Sent' = slot'
        BY <4>1 DEF Sent
      <4>3. slot + 1 <= 4
        BY <3>1, BatchFits DEF DataInv, BackendInv
      <4>4. QED
        BY <4>1, <4>2, <4>3
    <3>3. CASE ~(slot + 1 < BatchLen)
      <4>1. pc' \notin Issuing /\ BatchLen = slot + 1
        BY <1>0, <1>4, <3>1, <3>3 DEF Issuing
      <4>2. QED
        BY <3>1, <4>1 DEF Sent
    <3>4. QED
      BY <3>2, <3>3
  <2>5. accepted \in Nat /\ accepted' = accepted + 1 /\ retired' >= retired
    BY <2>1, <2>3, CommandStep, RP!Counting, RegsAssumptions DEF DataInv, BackendInv
  <2>6. QueueOK'
    <3>1. Regs!FifoEdge(TRUE) /\ Regs!DatapathEdge
      <4>1. Regs!CanEnqueue = TRUE
        BY <2>3 DEF Regs!CanEnqueue, Regs!fifo_full
      <4>2. QED
        BY <2>1, <4>1 DEF Regs!WriteCmd
    <3>2. /\ accepted' = accepted + (IF TRUE THEN 1 ELSE 0)
          /\ Sent' = Sent + (IF TRUE THEN 1 ELSE 0)
      BY <2>2, <2>4, <2>5
    <3>3. QED
      BY <1>0, <2>1, <2>2, <2>3, <2>5, <3>1, <3>2, QueueKept
  <2>7. HoldOK'
    BY <2>1 DEF HoldOK
  <2>8. BuffersOK'
    <3>1. /\ Sent' = Sent + accepted' - accepted /\ Sent' = Sent + 1 /\ Sent' \in 0..4
          /\ pc' \notin Loaded \cup {"mem_a"}
      BY <1>0, <2>1, <2>2, <2>4, <2>5 DEF Slot, QDEPTH, Loaded
    <3>2. DOMAIN w_buf' = Slot /\ DOMAIN a_buf' = Slot
      BY <2>1 DEF DataInv, BuffersOK
    <3>3. QED
      BY <2>1, <2>2, <3>1, <3>2, BuffersKept
  <2>9. RowsOK'
    <3>1. RowsRead' = RowsRead
      BY <2>1 DEF RowsRead
    <3>2. QED
      BY <2>1, <3>1 DEF RowsOK, DataInv
  <2>10. QED
    BY <1>0, <2>6, <2>7, <2>8, <2>9 DEF DataInv
<1>5. QED
  BY <1>1, <1>2, <1>3, <1>4 DEF Issue

(* Every step preserves the invariant.                                     *)
LEMMA DataStep ==
    ASSUME DataInv, [Next]_vars
    PROVE  DataInv'
<1>0. BackendInv' /\ RP!Inv'
  BY BackendStep DEF DataInv, BackendInv
<1>1. CASE Issue
  BY <1>1, IssueData
<1>2. CASE Poll
  <2>1. /\ pc = "poll" /\ pc' = "read" /\ Tick /\ UNCHANGED <<w_buf, a_buf, progVars>>
        /\ RP!Outstanding = 0 /\ slot = 0
    BY <1>2, PollExitMeansRetired DEF Poll, DataInv, BackendInv, Positions
  <2>2. c_buf' = c_buf /\ ~done
    BY <2>1, QuietBuffers, RP!Counting, RegsAssumptions DEF DataInv, BackendInv
  <2>3. \A j \in 0..(BatchLen - 1) : c_buf[j] = ResultAt(j)
    <3>1. Finished = BatchLen
      BY <2>1, <2>2, BatchFits DEF Finished, Sent, Issuing, DataInv, BackendInv
    <3>2. QED
      BY <2>1, <3>1 DEF DataInv, BuffersOK, Active
  <2>4. BuffersOK'
    <3>1. /\ BatchLen' = BatchLen /\ slot' = 0
          /\ \A j : ResultAt(j)' = ResultAt(j')
      BY <2>1 DEF BatchLen, progVars, ResultAt, Chunk
    <3>2. \A j \in slot'..(BatchLen' - 1) : c_buf'[j] = ResultAt(j)'
      BY <2>1, <2>2, <2>3, <3>1 DEF progVars, ResultAt, Chunk
    <3>3. QED
      BY <2>1, <2>2, <3>2 DEF DataInv, BuffersOK, Active, Issuing, Loaded, ResultAt
  <2>5. QueueOK' /\ HoldOK'
    BY <2>1 DEF QueueOK, HoldOK, Active, Issuing
  <2>6. RowsOK'
    <3>1. RowsRead' = RowsRead
      BY <2>1 DEF RowsRead, progVars
    <3>2. QED
      BY <2>1, <3>1 DEF DataInv, RowsOK, progVars
  <2>7. QED
    BY <1>0, <2>4, <2>5, <2>6 DEF DataInv
<1>3. CASE ReadBack
  <2>1. /\ pc = "read" /\ pc' \in {"read", "mem_w", "call_end"} /\ Tick
        /\ UNCHANGED <<w_buf, a_buf, call>> /\ RP!Outstanding = 0
    BY <1>3 DEF ReadBack, DataInv, BackendInv, FewOutstanding
  <2>2. c_buf' = c_buf /\ RP!Outstanding' = 0
    BY <2>1, QuietBuffers, QuietTick DEF DataInv, BackendInv
  <2>3. RowsOK'
    BY <1>3, RowsFilled
  <2>4. CASE pc' = "mem_w"
    <3>1. slot' = 0
      BY <1>3, <2>4 DEF ReadBack
    <3>2. QueueOK' /\ HoldOK' /\ BuffersOK'
      BY <1>0, <2>1, <2>2, <2>4, <3>1, FreshBatch DEF DataInv, BuffersOK
    <3>3. QED
      BY <1>0, <2>3, <3>2 DEF DataInv
  <2>5. CASE pc' = "read"
    <3>1. slot' = slot + 1 /\ batch' = batch
      BY <1>3, <2>5 DEF ReadBack
    <3>2. /\ BatchLen' = BatchLen /\ slot \in Nat /\ BatchLen \in Nat
          /\ \A j : ResultAt(j)' = ResultAt(j')
      BY <2>1, <3>1, BatchFits
         DEF BatchLen, ResultAt, Chunk, DataInv, BackendInv, Positions, Slot, QDEPTH
    <3>3. \A j \in slot..(BatchLen - 1) : c_buf[j] = ResultAt(j)
      BY <2>1 DEF DataInv, BuffersOK
    <3>4. \A j \in (slot + 1)..(BatchLen - 1) : c_buf'[j] = ResultAt(j)'
      BY <2>1, <2>2, <3>1, <3>2, <3>3 DEF ResultAt, Chunk
    <3>5. BuffersOK'
      BY <2>1, <2>2, <2>5, <3>1, <3>2, <3>4
         DEF DataInv, BuffersOK, Active, Issuing, Loaded, ResultAt
    <3>6. QueueOK' /\ HoldOK'
      BY <2>5 DEF QueueOK, HoldOK, Active, Issuing
    <3>7. QED
      BY <1>0, <2>3, <3>5, <3>6 DEF DataInv
  <2>6. CASE pc' = "call_end"
    <3>1. QueueOK' /\ HoldOK' /\ BuffersOK'
      BY <2>1, <2>2, <2>6
         DEF QueueOK, HoldOK, DataInv, BuffersOK, Active, Issuing, Loaded
    <3>2. QED
      BY <1>0, <2>3, <3>1 DEF DataInv
  <2>7. QED
    BY <2>1, <2>4, <2>5, <2>6
<1>4. CASE NextCall
  <2>1. /\ pc = "call_end" /\ pc' = "mem_w" /\ Tick /\ batch' = 0 /\ slot' = 0
        /\ UNCHANGED <<w_buf, a_buf>> /\ RP!Outstanding = 0
        /\ Ct' = [r \in DOMAIN Ct |-> Unset]
    BY <1>4 DEF NextCall, DataInv, BackendInv, FewOutstanding
  <2>2. c_buf' = c_buf /\ RP!Outstanding' = 0
    BY <2>1, QuietBuffers, QuietTick DEF DataInv, BackendInv
  <2>3. QueueOK' /\ HoldOK' /\ BuffersOK'
    BY <1>0, <2>1, <2>2, FreshBatch DEF DataInv, BuffersOK
  <2>4. RowsOK'
    <3>1. RowsRead' = 0
      BY <2>1, BackendAssumption DEF RowsRead
    <3>2. \A r \in 0..(M - 1) : ~(r < 0)
      BY BackendAssumption
    <3>3. QED
      BY <2>1, <3>1, <3>2 DEF DataInv, RowsOK
  <2>5. QED
    BY <1>0, <2>3, <2>4 DEF DataInv
<1>5. ASSUME Tick, UNCHANGED <<pc, w_buf, a_buf, progVars>>
      PROVE  DataInv'
  <2>1. HoldOK'
    <3>1. hold' = hold
      BY <1>5, TickStep DEF DataInv, BackendInv
    <3>2. QED
      BY <1>5, <3>1 DEF DataInv, HoldOK, progVars, Chunk
  <2>2. CASE pc \in Active
    <3>1. /\ AnyCycle /\ QueueOK' /\ RowsOK' /\ Sent' = Sent /\ Sent \in 0..4
          /\ Sent' = Sent + accepted' - accepted
      BY <1>0, <1>5, <2>2, BatchStep DEF Active
    <3>2. BuffersOK'
      BY <1>5, <2>2, <3>1, BuffersKept DEF progVars, DataInv, BuffersOK
    <3>3. QED
      BY <1>0, <2>1, <3>1, <3>2 DEF DataInv
  <2>3. CASE pc \notin Active
    <3>1. pc \in {"read", "call_end"}
      BY <2>3 DEF DataInv, BackendInv, Positions, Active, Issuing
    <3>2. RP!Outstanding = 0
      BY <3>1 DEF DataInv, BackendInv, FewOutstanding
    <3>3. c_buf' = c_buf
      BY <1>5, <3>2, QuietBuffers
    <3>4. QueueOK' /\ RowsOK'
      BY <1>5, <2>3 DEF QueueOK, DataInv, RowsOK, RowsRead, progVars
    <3>5. BuffersOK'
      BY <1>5, <2>3, <3>3 DEF DataInv, BuffersOK, ResultAt, Chunk, BatchLen, progVars
    <3>6. QED
      BY <1>0, <2>1, <3>4, <3>5 DEF DataInv
  <2>4. QED
    BY <2>2, <2>3
<1>6. CASE OtherCycle
  BY <1>5, <1>6 DEF OtherCycle, Tick
<1>7. CASE UNCHANGED vars
  BY <1>5, <1>7 DEF vars, Tick, bufVars
<1>8. QED
  BY <1>1, <1>2, <1>3, <1>4, <1>6, <1>7 DEF Next, Drive

(* The inductive invariant of the data.                                    *)
THEOREM DataInvariance == Spec => []DataInv
<1>1. Init => DataInv
  <2> SUFFICES ASSUME Init PROVE DataInv
    OBVIOUS
  <2>1. BackendInv /\ accepted = 0 /\ retired = 0 /\ RP!Outstanding = 0
    BY BackendInitially, HostInitStep DEF Init, RP!Outstanding
  <2>2. fifo_cnt = 0 /\ ~start /\ ~busy /\ ~done
    BY <2>1, RP!Counting, RegsAssumptions DEF BackendInv
  <2>3. Sent = 0 /\ Finished = 0
    BY <2>1, <2>2 DEF Init, Sent, Finished, Issuing
  <2>4. QueueOK /\ HoldOK /\ BuffersOK
    BY <2>1, <2>2, <2>3
       DEF Init, HostInit, QueueOK, HoldOK, BuffersOK, Active, Issuing, Loaded
  <2>5. RowsOK
    <3>1. RowsRead = 0
      BY BackendAssumption DEF Init, RowsRead
    <3>2. \A r \in 0..(M - 1) : ~(r < 0)
      BY BackendAssumption
    <3>3. QED
      BY <3>1, <3>2 DEF Init, RowsOK
  <2>6. QED
    BY <2>1, <2>4, <2>5 DEF DataInv
<1>2. DataInv /\ [Next]_vars => DataInv'
  BY DataStep
<1>3. QED
  BY <1>1, <1>2, PTL DEF Spec

(* run_tile returns the product of this call's weights with every row of A *)
(* in its place (coproc_backend.py:83-144), for every number of rows, chunk *)
(* size and call, whatever earlier batches left in the buffers.            *)
THEOREM TileIsExact == Spec => []ResultExact
<1>1. DataInv => ResultExact
  <2> SUFFICES ASSUME DataInv, pc = "call_end", NEW r \in DOMAIN Ct
               PROVE  Ct[r] = <<<<call>>, r>>
    BY DEF ResultExact
  <2>1. r \in 0..(M - 1) /\ r < RowsRead
    BY BackendAssumption DEF DataInv, RowsOK, RowsRead
  <2>2. QED
    BY <2>1 DEF DataInv, RowsOK
<1>2. QED
  BY <1>1, DataInvariance, PTL

-------------------------------------------------------------------------------
(* The register-level test programs.                                       *)

(* There is a least number in a set of numbers.                            *)
LEMMA LeastNumber ==
    ASSUME NEW T \in SUBSET Nat, T # {}
    PROVE  \E n \in T : \A k \in T : n <= k
<1>1. IsWellFoundedOn(OpToRel(<, Nat), Nat)
  BY NatLessThanWellFounded
<1>2. PICK n \in T : \A k \in T : ~(<<k, n>> \in OpToRel(<, Nat))
  BY <1>1, WFMin
<1>3. \A k \in T : ~(k < n)
  BY <1>2 DEF OpToRel
<1>4. QED
  BY <1>3

-------------------------------------------------------------------------------
(* Where the operations of the programs are.                               *)

\* s is a sequence of n elements.
Long(s, n) == s = [i \in 1..n |-> s[i]]

\* s stands at b in p.
StandsAt(p, b, s, n) == \A i \in 1..n : p[b + i] = s[i]

(* Such a sequence is one of the sequences, and has this length.           *)
LEMMA LongIsSeq ==
    ASSUME NEW n \in Nat, NEW s, Long(s, n), NEW S, \A i \in 1..n : s[i] \in S
    PROVE  s \in Seq(S) /\ Len(s) = n
BY DEF Long

(* Its length.                                                             *)
LEMMA LongLen ==
    ASSUME NEW n \in Nat, NEW s, Long(s, n)
    PROVE  Len(s) = n
<1>1. \A i \in 1..n : s[i] \in {s[k] : k \in 1..n}
  OBVIOUS
<1>2. QED
  BY <1>1, LongIsSeq

(* Two sequences, one after the other.                                     *)
LEMMA Joined ==
    ASSUME NEW n \in Nat, NEW k \in Nat, NEW s, NEW t, Long(s, n), Long(t, k)
    PROVE  /\ Long(s \o t, n + k)
           /\ StandsAt(s \o t, 0, s, n) /\ StandsAt(s \o t, n, t, k)
<1> DEFINE S == {s[i] : i \in 1..n} \cup {t[i] : i \in 1..k}
<1>1. s \in Seq(S) /\ Len(s) = n /\ t \in Seq(S) /\ Len(t) = k
  <2>1. (\A i \in 1..n : s[i] \in S) /\ (\A i \in 1..k : t[i] \in S)
    OBVIOUS
  <2> HIDE DEF S
  <2>2. QED
    BY <2>1, LongIsSeq
<1> HIDE DEF S
<1>2. /\ s \o t \in Seq(S) /\ Len(s \o t) = Len(s) + Len(t)
      /\ \A i \in 1..(Len(s) + Len(t)) :
             (s \o t)[i] = IF i <= Len(s) THEN s[i] ELSE t[i - Len(s)]
  BY <1>1, ConcatProperties, Zenon
<1>3. \A i \in 1..(n + k) : (s \o t)[i] = IF i <= n THEN s[i] ELSE t[i - n]
  BY <1>1, <1>2
<1>4. Long(s \o t, n + k)
  <2> DEFINE u == s \o t
  <2>1. u \in Seq(S) /\ Len(u) = n + k
    BY <1>1, <1>2
  <2> HIDE DEF u
  <2>2. u = [i \in 1..(n + k) |-> u[i]]
    BY <2>1
  <2>3. QED
    BY <2>2 DEF Long, u
<1>5. StandsAt(s \o t, 0, s, n)
  <2>1. \A i \in 1..n : 0 + i = i /\ i \in 1..(n + k) /\ i <= n
    OBVIOUS
  <2>2. QED
    BY <1>3, <2>1 DEF StandsAt
<1>6. StandsAt(s \o t, n, t, k)
  <2>1. \A i \in 1..k : n + i \in 1..(n + k) /\ ~(n + i <= n) /\ (n + i) - n = i
    OBVIOUS
  <2>2. QED
    BY <1>3, <2>1 DEF StandsAt
<1>7. QED
  BY <1>4, <1>5, <1>6

(* What stands in a part stands in the whole.                              *)
LEMMA StandsWithin ==
    ASSUME NEW p, NEW b \in Nat, NEW q, NEW m \in Nat, StandsAt(p, b, q, m),
           NEW d \in Nat, NEW s, NEW n \in Nat, StandsAt(q, d, s, n), d + n <= m
    PROVE  StandsAt(p, b + d, s, n)
<1> SUFFICES ASSUME NEW i \in 1..n PROVE p[(b + d) + i] = s[i]
  BY DEF StandsAt
<1>1. d + i \in 1..m /\ (b + d) + i = b + (d + i)
  OBVIOUS
<1>2. QED
  BY <1>1 DEF StandsAt

(* What stands in the first of two keeps its place.                        *)
LEMMA StillStands ==
    ASSUME NEW n \in Nat, NEW k \in Nat, NEW s, NEW t, Long(s, n), Long(t, k),
           NEW d \in Nat, NEW u, NEW m \in Nat, StandsAt(s, d, u, m), d + m <= n
    PROVE  StandsAt(s \o t, d, u, m)
<1>1. StandsAt(s \o t, 0, s, n) /\ 0 \in Nat /\ 0 + d = d
  BY Joined
<1> DEFINE q == s \o t
<1> HIDE DEF q
<1>2. StandsAt(q, 0 + d, u, m)
  BY <1>1, StandsWithin DEF q
<1>3. QED
  BY <1>1, <1>2 DEF q

(* n pieces of L operations: five in an Enqueue, eight in a RunOne.        *)
LEMMA Flattened ==
    ASSUME NEW n \in Nat \ {0}, NEW L \in {5, 8}, NEW seqs, Long(seqs, n),
           \A i \in 1..n : Long(seqs[i], L)
    PROVE  /\ Long(FlattenSeq(seqs), n * L)
           /\ \A i \in 1..n : StandsAt(FlattenSeq(seqs), (i - 1) * L, seqs[i], L)
<1> DEFINE Eq(f) == f = [i \in 1..n |-> IF i = 1 THEN seqs[i] ELSE f[i - 1] \o seqs[i]]
           Piece(x) == seqs[(x - 1) \div L + 1][((x - 1) % L) + 1]
           g == [i \in 1..n |-> [x \in 1..(i * L) |-> Piece(x)]]
<1>1. Len(seqs) = n /\ n # 0
  BY LongLen
<1>2. \A i \in 1..n : \A x \in 1..L : Piece((i - 1) * L + x) = seqs[i][x]
  <2> SUFFICES ASSUME NEW i \in 1..n, NEW x \in 1..L PROVE Piece((i - 1) * L + x) = seqs[i][x]
    OBVIOUS
  <2>1. (((i - 1) * L + x) - 1) \div L = i - 1 /\ ((((i - 1) * L + x) - 1) % L) = x - 1
    <3>1. CASE L = 5
      BY <3>1
    <3>2. CASE L = 8
      BY <3>2
    <3>3. QED
      BY <3>1, <3>2
  <2>2. (i - 1) + 1 = i /\ (x - 1) + 1 = x
    OBVIOUS
  <2>3. QED
    BY <2>1, <2>2
<1> HIDE DEF At
<1>3. ASSUME NEW i \in 1..n, i # 1 PROVE g[i] = g[i - 1] \o seqs[i]
  <2>1. i - 1 \in 1..n /\ (i - 1) * L \in Nat /\ i * L = (i - 1) * L + L /\ L \in Nat
    <3>1. CASE L = 5
      BY <1>3, <3>1
    <3>2. CASE L = 8
      BY <1>3, <3>2
    <3>3. QED
      BY <3>1, <3>2
  <2> DEFINE h == (i - 1) * L
             u == g[i - 1] \o seqs[i]
  <2>2. Long(g[i - 1], h)
    BY <2>1 DEF Long
  <2> HIDE DEF h, u
  <2>3. Long(u, h + L) /\ StandsAt(u, 0, g[i - 1], h) /\ StandsAt(u, h, seqs[i], L)
    BY <2>1, <2>2, Joined DEF h, u
  <2>4. ASSUME NEW x \in 1..(h + L) PROVE u[x] = Piece(x)
    <3>1. CASE x <= h
      <4>1. x \in 1..h /\ 0 + x = x
        BY <2>1, <3>1 DEF h
      <4>2. u[x] = g[i - 1][x]
        BY <2>3, <4>1 DEF StandsAt
      <4>3. QED
        BY <2>1, <4>1, <4>2 DEF h
    <3>2. CASE ~(x <= h)
      <4>1. x - h \in 1..L /\ h + (x - h) = x
        BY <2>1, <3>2 DEF h
      <4>2. u[x] = seqs[i][x - h]
        BY <2>3, <4>1 DEF StandsAt
      <4>3. Piece(h + (x - h)) = seqs[i][x - h]
        BY <1>2, <4>1 DEF h
      <4>4. QED
        BY <4>1, <4>2, <4>3
    <3>3. QED
      BY <3>1, <3>2
  <2>5. u = [x \in 1..(h + L) |-> Piece(x)]
    BY <2>3, <2>4 DEF Long
  <2>6. g[i] = [x \in 1..(h + L) |-> Piece(x)]
    BY <2>1 DEF h
  <2>7. QED
    BY <2>5, <2>6 DEF u
<1>4. g[1] = seqs[1]
  <2>1. 1 \in 1..n /\ 1 * L = L /\ L \in Nat /\ (1 - 1) * L = 0
    OBVIOUS
  <2>2. \A x \in 1..L : 0 + x = x
    BY <2>1
  <2>3. \A x \in 1..L : Piece(x) = seqs[1][x]
    BY <1>2, <2>1, <2>2
  <2>4. g[1] = [x \in 1..L |-> Piece(x)]
    BY <2>1
  <2>5. seqs[1] = [x \in 1..L |-> seqs[1][x]]
    BY <2>1 DEF Long
  <2>6. QED
    BY <2>3, <2>4, <2>5
<1>5. Eq(g)
  <2>1. \A i \in 1..n : g[i] = IF i = 1 THEN seqs[i] ELSE g[i - 1] \o seqs[i]
    BY <1>3, <1>4
  <2>2. g = [i \in 1..n |-> g[i]]
    OBVIOUS
  <2> HIDE DEF g
  <2>3. QED
    BY <2>1, <2>2
<1> DEFINE f == CHOOSE h : Eq(h)
<1>6. Eq(f)
  BY <1>5
<1>7. FlattenSeq(seqs) = f[n]
  BY <1>1 DEF FlattenSeq
<1> HIDE DEF f, g
<1>8. /\ \A i \in 1..n : f[i] = IF i = 1 THEN seqs[i] ELSE f[i - 1] \o seqs[i]
      /\ \A i \in 1..n : g[i] = IF i = 1 THEN seqs[i] ELSE g[i - 1] \o seqs[i]
  BY <1>5, <1>6
<1> DEFINE T == {i \in 1..n : f[i] # g[i]}
<1>9. T = {}
  <2>1. SUFFICES ASSUME T # {} PROVE FALSE
    OBVIOUS
  <2>2. PICK i \in T : \A k \in T : i <= k
    <3>1. T \in SUBSET Nat
      OBVIOUS
    <3>2. QED
      BY <2>1, <3>1, LeastNumber
  <2>3. i \in 1..n /\ f[i] # g[i] /\ i # 1
    BY <1>8, <2>2
  <2>4. i - 1 \in 1..n /\ i - 1 \notin T
    BY <2>2, <2>3
  <2>5. f[i - 1] = g[i - 1]
    BY <2>4
  <2>6. QED
    BY <1>8, <2>3, <2>5
<1>10. FlattenSeq(seqs) = [x \in 1..(n * L) |-> Piece(x)]
  <2>1. n \in 1..n
    OBVIOUS
  <2>2. f[n] = g[n]
    BY <1>9, <2>1
  <2>3. QED
    BY <1>7, <2>1, <2>2 DEF g
<1> DEFINE r == FlattenSeq(seqs)
<1> HIDE DEF r
<1>11. Long(r, n * L)
  BY <1>10 DEF Long, r
<1>12. ASSUME NEW i \in 1..n PROVE StandsAt(r, (i - 1) * L, seqs[i], L)
  <2>1. \A x \in 1..L : (i - 1) * L + x \in 1..(n * L)
    <3>1. CASE L = 5
      BY <3>1
    <3>2. CASE L = 8
      BY <3>2
    <3>3. QED
      BY <3>1, <3>2
  <2>2. \A x \in 1..L : r[(i - 1) * L + x] = Piece((i - 1) * L + x)
    BY <1>10, <2>1 DEF r
  <2>3. QED
    BY <1>2, <2>2 DEF StandsAt
<1>13. QED
  BY <1>11, <1>12 DEF r

(* The five operations of Enqueue.                                         *)
LEMMA EnqueueOps ==
    ASSUME NEW w, NEW a, NEW c, NEW ms
    PROVE  /\ Long(Enqueue(w, a, c, ms), 5)
           /\ Enqueue(w, a, c, ms)[1] = <<"store", "w", {w}>>
           /\ Enqueue(w, a, c, ms)[2] = <<"store", "a", {a}>>
           /\ Enqueue(w, a, c, ms)[3] = <<"store", "c", {c}>>
           /\ Enqueue(w, a, c, ms)[4] = <<"store", "m", ms>>
           /\ Enqueue(w, a, c, ms)[5] = <<"cmd">>
BY DEF Enqueue, Long

(* The eight operations of RunOne.                                         *)
LEMMA RunOneOps ==
    ASSUME NEW c, NEW ms, NEW t
    PROVE  LET s == RunOne(c, ms, t)
           IN  /\ Long(s, 8) /\ s[1] = <<"load", 0>>
               /\ StandsAt(s, 1, Enqueue(0, 0, c, ms), 5)
               /\ s[7] = <<"poll", t>> /\ s[8] = <<"check", c>>
<1> DEFINE a == << <<"load", 0>> >>
           e == Enqueue(0, 0, c, ms)
           z == << <<"poll", t>>, <<"check", c>> >>
           s == (a \o e) \o z
<1>1. Long(a, 1) /\ Long(e, 5) /\ Long(z, 2)
  <2>1. Long(a, 1) /\ Long(z, 2)
    BY DEF Long
  <2>2. QED
    BY <2>1, EnqueueOps
<1>2. a[1] = <<"load", 0>> /\ z[1] = <<"poll", t>> /\ z[2] = <<"check", c>>
  OBVIOUS
<1>3. RunOne(c, ms, t) = s
  BY DEF RunOne
<1> HIDE DEF a, e, z
<1>4. Long(a \o e, 6) /\ StandsAt(a \o e, 0, a, 1) /\ StandsAt(a \o e, 1, e, 5)
  <2>1. Long(a \o e, 1 + 5) /\ StandsAt(a \o e, 0, a, 1) /\ StandsAt(a \o e, 1, e, 5)
    BY <1>1, Joined
  <2>2. QED
    BY <2>1
<1>5. Long(s, 6 + 2) /\ StandsAt(s, 6, z, 2)
  BY <1>1, <1>4, Joined
<1>6. StandsAt(s, 0, a, 1) /\ StandsAt(s, 1, e, 5)
  <2>1. StandsAt(s, 0, a, 1)
    BY <1>1, <1>4, StillStands
  <2>2. StandsAt(s, 1, e, 5)
    BY <1>1, <1>4, StillStands
  <2>3. QED
    BY <2>1, <2>2
<1> HIDE DEF s
<1>7. s[0 + 1] = a[1] /\ s[6 + 1] = z[1] /\ s[6 + 2] = z[2]
  BY <1>5, <1>6 DEF StandsAt
<1>8. Long(s, 8)
  BY <1>5
<1>9. QED
  BY <1>2, <1>3, <1>6, <1>7, <1>8 DEF e

FourRows == <<3, 5, 2, 6>>

(* The operations of FourBackToBack, one by one.                           *)
LEMMA FourOps ==
    ASSUME NEW t
    PROVE  LET s == FourBackToBack(t)
           IN  /\ Long(s, 31)
               /\ \A i \in 1..4 : s[i] = <<"load", i - 1>>
               /\ \A i \in 0..3 : StandsAt(s, 5 * i + 4, Enqueue(i, i, i, {FourRows[i + 1]}), 5)
               /\ s[25] = <<"status">> /\ s[26] = <<"poll", t>> /\ s[27] = <<"advanced", 4>>
               /\ \A i \in 0..3 : s[28 + i] = <<"check", i>>
<1> DEFINE a == [i \in 1..4 |-> <<"load", i - 1>>]
           q == [i \in 1..4 |-> Enqueue(i - 1, i - 1, i - 1, {FourRows[i]})]
           e == FlattenSeq(q)
           z == << <<"status">>, <<"poll", t>>, <<"advanced", 4>> >>
           c == [i \in 1..4 |-> <<"check", i - 1>>]
           s == ((a \o e) \o z) \o c
<1>1. Long(a, 4) /\ Long(q, 4) /\ Long(z, 3) /\ Long(c, 4)
  BY DEF Long
<1>2. /\ \A i \in 1..4 : a[i] = <<"load", i - 1>>
      /\ z[1] = <<"status">> /\ z[2] = <<"poll", t>> /\ z[3] = <<"advanced", 4>>
      /\ \A i \in 1..4 : c[i] = <<"check", i - 1>>
      /\ \A i \in 1..4 : q[i] = Enqueue(i - 1, i - 1, i - 1, {FourRows[i]})
  OBVIOUS
<1>3. FourBackToBack(t) = s
  BY DEF FourBackToBack, FourRows
<1> HIDE DEF a, q, z, c
<1>4. Long(e, 20) /\ \A i \in 1..4 : StandsAt(e, (i - 1) * 5, q[i], 5)
  <2>1. \A i \in 1..4 : Long(q[i], 5)
    BY <1>2, EnqueueOps
  <2>2. Long(e, 4 * 5) /\ \A i \in 1..4 : StandsAt(e, (i - 1) * 5, q[i], 5)
    <3>1. 4 \in Nat \ {0} /\ 5 \in {5, 8}
      OBVIOUS
    <3>2. QED
      BY <1>1, <2>1, <3>1, Flattened, Zenon
  <2>3. QED
    BY <2>2
<1> HIDE DEF e
<1>5. Long(a \o e, 24) /\ StandsAt(a \o e, 0, a, 4) /\ StandsAt(a \o e, 4, e, 20)
  <2>1. Long(a \o e, 4 + 20) /\ StandsAt(a \o e, 0, a, 4) /\ StandsAt(a \o e, 4, e, 20)
    BY <1>1, <1>4, Joined
  <2>2. QED
    BY <2>1
<1> DEFINE u == (a \o e) \o z
<1>6. /\ Long(u, 27) /\ StandsAt(u, 0, a, 4) /\ StandsAt(u, 4, e, 20) /\ StandsAt(u, 24, z, 3)
  <2>1. Long(u, 24 + 3) /\ StandsAt(u, 24, z, 3)
    BY <1>1, <1>5, Joined
  <2>2. StandsAt(u, 0, a, 4)
    BY <1>1, <1>5, StillStands
  <2>3. StandsAt(u, 4, e, 20)
    BY <1>1, <1>5, StillStands
  <2>4. QED
    BY <2>1, <2>2, <2>3
<1> HIDE DEF u
<1>7. /\ Long(s, 31) /\ StandsAt(s, 0, a, 4) /\ StandsAt(s, 4, e, 20)
      /\ StandsAt(s, 24, z, 3) /\ StandsAt(s, 27, c, 4)
  <2>1. s = u \o c
    BY DEF u
  <2>2. Long(u \o c, 27 + 4) /\ StandsAt(u \o c, 27, c, 4)
    BY <1>1, <1>6, Joined
  <2>3. StandsAt(u \o c, 0, a, 4)
    BY <1>1, <1>6, StillStands
  <2>4. StandsAt(u \o c, 4, e, 20)
    BY <1>1, <1>6, StillStands
  <2>5. StandsAt(u \o c, 24, z, 3)
    BY <1>1, <1>6, StillStands
  <2>6. QED
    BY <2>1, <2>2, <2>3, <2>4, <2>5
<1> HIDE DEF s
<1>8. \A i \in 0..3 : StandsAt(s, 5 * i + 4, Enqueue(i, i, i, {FourRows[i + 1]}), 5)
  <2> SUFFICES ASSUME NEW i \in 0..3
               PROVE  StandsAt(s, 5 * i + 4, Enqueue(i, i, i, {FourRows[i + 1]}), 5)
    OBVIOUS
  <2>1. i + 1 \in 1..4 /\ (i + 1) - 1 = i /\ ((i + 1) - 1) * 5 = 5 * i /\ 4 + 5 * i = 5 * i + 4
        /\ 5 * i \in Nat /\ 5 * i + 5 <= 20
    OBVIOUS
  <2>2. StandsAt(e, 5 * i, q[i + 1], 5)
    BY <1>4, <2>1
  <2>3. StandsAt(s, 4 + 5 * i, q[i + 1], 5)
    BY <1>7, <2>1, <2>2, StandsWithin
  <2>4. q[i + 1] = Enqueue(i, i, i, {FourRows[i + 1]})
    BY <1>2, <2>1
  <2>5. QED
    BY <2>1, <2>3, <2>4
<1>9. /\ \A i \in 1..4 : s[0 + i] = a[i] /\ s[27 + i] = c[i]
      /\ s[24 + 1] = z[1] /\ s[24 + 2] = z[2] /\ s[24 + 3] = z[3]
  BY <1>7 DEF StandsAt
<1>10. /\ \A i \in 1..4 : s[i] = <<"load", i - 1>>
       /\ s[25] = <<"status">> /\ s[26] = <<"poll", t>> /\ s[27] = <<"advanced", 4>>
  BY <1>2, <1>9
<1>11. \A i \in 0..3 : s[28 + i] = <<"check", i>>
  <2>1. \A i \in 0..3 : i + 1 \in 1..4 /\ (i + 1) - 1 = i /\ 27 + (i + 1) = 28 + i
    OBVIOUS
  <2>2. QED
    BY <1>2, <1>9, <2>1
<1>12. QED
  BY <1>3, <1>7, <1>8, <1>10, <1>11

\* The operations of QueueFull, one by one.
FullAre(s, m, t) ==
    /\ Long(s, 38) /\ s[1] = <<"load", 0>>
    /\ StandsAt(s, 1, Enqueue(0, 0, 0, {m}), 5)
    /\ \A i \in 0..3 : StandsAt(s, 5 * i + 6, Enqueue(0, 0, 0, {1}), 5)
    /\ s[27] = <<"status">> /\ s[28] = <<"full">> /\ s[29] = <<"save">>
    /\ StandsAt(s, 29, Enqueue(0, 0, 0, {1}), 5)
    /\ s[35] = <<"status">> /\ s[36] = <<"full">>
    /\ s[37] = <<"poll", t>> /\ s[38] = <<"advanced", 5>>

(* They are.                                                               *)
LEMMA FullOps ==
    ASSUME NEW m, NEW t
    PROVE  FullAre(QueueFull(m, t), m, t)
<1> DEFINE a == << <<"load", 0>> >>
           l == Enqueue(0, 0, 0, {m})
           q == [i \in 1..4 |-> Enqueue(0, 0, 0, {1})]
           e == FlattenSeq(q)
           z == << <<"status">>, <<"full">>, <<"save">> >>
           o == Enqueue(0, 0, 0, {1})
           y == << <<"status">>, <<"full">>, <<"poll", t>>, <<"advanced", 5>> >>
           s == ((((a \o l) \o e) \o z) \o o) \o y
<1>1. Long(a, 1) /\ Long(q, 4) /\ Long(z, 3) /\ Long(y, 4) /\ Long(l, 5) /\ Long(o, 5)
  <2>1. Long(a, 1) /\ Long(q, 4) /\ Long(z, 3) /\ Long(y, 4)
    BY DEF Long
  <2>2. QED
    BY <2>1, EnqueueOps
<1>2. /\ a[1] = <<"load", 0>>
      /\ z[1] = <<"status">> /\ z[2] = <<"full">> /\ z[3] = <<"save">>
      /\ y[1] = <<"status">> /\ y[2] = <<"full">> /\ y[3] = <<"poll", t>>
      /\ y[4] = <<"advanced", 5>> /\ \A i \in 1..4 : q[i] = o
  OBVIOUS
<1>3. QueueFull(m, t) = s
  BY DEF QueueFull
<1> HIDE DEF a, l, q, z, o, y
<1>4. Long(e, 20) /\ \A i \in 1..4 : StandsAt(e, (i - 1) * 5, o, 5)
  <2>1. \A i \in 1..4 : Long(q[i], 5)
    BY <1>1, <1>2
  <2>2. Long(e, 4 * 5) /\ \A i \in 1..4 : StandsAt(e, (i - 1) * 5, q[i], 5)
    <3>1. 4 \in Nat \ {0} /\ 5 \in {5, 8}
      OBVIOUS
    <3>2. QED
      BY <1>1, <2>1, <3>1, Flattened, Zenon
  <2>3. QED
    BY <1>2, <2>2
<1> HIDE DEF e
<1> DEFINE u == a \o l
           v == u \o e
           w == v \o z
           x == w \o o
<1>5. Long(u, 6) /\ StandsAt(u, 0, a, 1) /\ StandsAt(u, 1, l, 5)
  <2>1. Long(u, 1 + 5) /\ StandsAt(u, 0, a, 1) /\ StandsAt(u, 1, l, 5)
    BY <1>1, Joined
  <2>2. QED
    BY <2>1
<1> HIDE DEF u
<1>6. Long(v, 26) /\ StandsAt(v, 0, a, 1) /\ StandsAt(v, 1, l, 5) /\ StandsAt(v, 6, e, 20)
  <2>1. Long(v, 6 + 20) /\ StandsAt(v, 6, e, 20)
    BY <1>4, <1>5, Joined
  <2>2. StandsAt(v, 0, a, 1) /\ StandsAt(v, 1, l, 5)
    BY <1>4, <1>5, StillStands
  <2>3. QED
    BY <2>1, <2>2
<1> HIDE DEF v
<1>7. /\ Long(w, 29) /\ StandsAt(w, 0, a, 1) /\ StandsAt(w, 1, l, 5) /\ StandsAt(w, 6, e, 20)
      /\ StandsAt(w, 26, z, 3)
  <2>1. Long(w, 26 + 3) /\ StandsAt(w, 26, z, 3)
    BY <1>1, <1>6, Joined
  <2>2. StandsAt(w, 0, a, 1) /\ StandsAt(w, 1, l, 5) /\ StandsAt(w, 6, e, 20)
    BY <1>1, <1>6, StillStands
  <2>3. QED
    BY <2>1, <2>2
<1> HIDE DEF w
<1>8. /\ Long(x, 34) /\ StandsAt(x, 0, a, 1) /\ StandsAt(x, 1, l, 5) /\ StandsAt(x, 6, e, 20)
      /\ StandsAt(x, 26, z, 3) /\ StandsAt(x, 29, o, 5)
  <2>1. Long(x, 29 + 5) /\ StandsAt(x, 29, o, 5)
    BY <1>1, <1>7, Joined
  <2>2. /\ StandsAt(x, 0, a, 1) /\ StandsAt(x, 1, l, 5) /\ StandsAt(x, 6, e, 20)
        /\ StandsAt(x, 26, z, 3)
    BY <1>1, <1>7, StillStands
  <2>3. QED
    BY <2>1, <2>2
<1> HIDE DEF x
<1>9. /\ Long(s, 38) /\ StandsAt(s, 0, a, 1) /\ StandsAt(s, 1, l, 5) /\ StandsAt(s, 6, e, 20)
      /\ StandsAt(s, 26, z, 3) /\ StandsAt(s, 29, o, 5) /\ StandsAt(s, 34, y, 4)
  <2>1. s = x \o y
    BY DEF u, v, w, x
  <2>2. Long(x \o y, 34 + 4) /\ StandsAt(x \o y, 34, y, 4)
    BY <1>1, <1>8, Joined
  <2>3. /\ StandsAt(x \o y, 0, a, 1) /\ StandsAt(x \o y, 1, l, 5) /\ StandsAt(x \o y, 6, e, 20)
        /\ StandsAt(x \o y, 26, z, 3) /\ StandsAt(x \o y, 29, o, 5)
    BY <1>1, <1>8, StillStands
  <2>4. QED
    BY <2>1, <2>2, <2>3
<1> HIDE DEF s
<1>10. \A i \in 0..3 : StandsAt(s, 5 * i + 6, o, 5)
  <2> SUFFICES ASSUME NEW i \in 0..3 PROVE StandsAt(s, 5 * i + 6, o, 5)
    OBVIOUS
  <2>1. i + 1 \in 1..4 /\ ((i + 1) - 1) * 5 = 5 * i /\ 6 + 5 * i = 5 * i + 6
        /\ 5 * i \in Nat /\ 5 * i + 5 <= 20
    OBVIOUS
  <2>2. StandsAt(e, 5 * i, o, 5)
    BY <1>4, <2>1
  <2>3. StandsAt(s, 6 + 5 * i, o, 5)
    BY <1>9, <2>1, <2>2, StandsWithin
  <2>4. QED
    BY <2>1, <2>3
<1>11. /\ s[0 + 1] = a[1] /\ s[26 + 1] = z[1] /\ s[26 + 2] = z[2] /\ s[26 + 3] = z[3]
       /\ s[34 + 1] = y[1] /\ s[34 + 2] = y[2] /\ s[34 + 3] = y[3] /\ s[34 + 4] = y[4]
  BY <1>9 DEF StandsAt
<1>12. /\ s[1] = <<"load", 0>>
       /\ s[27] = <<"status">> /\ s[28] = <<"full">> /\ s[29] = <<"save">>
       /\ s[35] = <<"status">> /\ s[36] = <<"full">>
       /\ s[37] = <<"poll", t>> /\ s[38] = <<"advanced", 5>>
  BY <1>2, <1>11
<1>13. QED
  BY <1>3, <1>9, <1>10, <1>12 DEF l, o, FullAre

(* The operations of Interrupt, one by one.                                *)
LEMMA InterruptOps ==
    ASSUME NEW t
    PROVE  LET s == Interrupt(t)
           IN  /\ Long(s, 14) /\ s[1] = <<"write_irq">> /\ s[2] = <<"read_irq", BOOLEAN>>
               /\ s[3] = <<"load", 0>> /\ StandsAt(s, 3, Enqueue(0, 0, 0, {2}), 5)
               /\ s[9] = <<"wait_irq", t>> /\ s[10] = <<"read_irq", {TRUE}>>
               /\ s[11] = <<"write_irq">> /\ s[12] = <<"tick">> /\ s[13] = <<"irq_low">>
               /\ s[14] = <<"read_irq", {FALSE}>>
<1> DEFINE a == << <<"write_irq">>, <<"read_irq", BOOLEAN>>, <<"load", 0>> >>
           e == Enqueue(0, 0, 0, {2})
           z == << <<"wait_irq", t>>, <<"read_irq", {TRUE}>>, <<"write_irq">>,
                   <<"tick">>, <<"irq_low">>, <<"read_irq", {FALSE}>> >>
           u == a \o e
           s == u \o z
<1>1. Long(a, 3) /\ Long(e, 5) /\ Long(z, 6)
  <2>1. Long(a, 3) /\ Long(z, 6)
    BY DEF Long
  <2>2. QED
    BY <2>1, EnqueueOps
<1>2. /\ a[1] = <<"write_irq">> /\ a[2] = <<"read_irq", BOOLEAN>> /\ a[3] = <<"load", 0>>
      /\ z[1] = <<"wait_irq", t>> /\ z[2] = <<"read_irq", {TRUE}>> /\ z[3] = <<"write_irq">>
      /\ z[4] = <<"tick">> /\ z[5] = <<"irq_low">> /\ z[6] = <<"read_irq", {FALSE}>>
  OBVIOUS
<1>3. Interrupt(t) = s
  BY DEF Interrupt
<1> HIDE DEF a, e, z
<1>4. Long(u, 8) /\ StandsAt(u, 0, a, 3) /\ StandsAt(u, 3, e, 5)
  <2>1. Long(u, 3 + 5) /\ StandsAt(u, 0, a, 3) /\ StandsAt(u, 3, e, 5)
    BY <1>1, Joined
  <2>2. QED
    BY <2>1
<1> HIDE DEF u
<1>5. Long(s, 14) /\ StandsAt(s, 0, a, 3) /\ StandsAt(s, 3, e, 5) /\ StandsAt(s, 8, z, 6)
  <2>1. Long(s, 8 + 6) /\ StandsAt(s, 8, z, 6)
    BY <1>1, <1>4, Joined
  <2>2. StandsAt(s, 0, a, 3) /\ StandsAt(s, 3, e, 5)
    BY <1>1, <1>4, StillStands
  <2>3. QED
    BY <2>1, <2>2
<1> HIDE DEF s
<1>6. /\ s[0 + 1] = a[1] /\ s[0 + 2] = a[2] /\ s[0 + 3] = a[3]
      /\ s[8 + 1] = z[1] /\ s[8 + 2] = z[2] /\ s[8 + 3] = z[3]
      /\ s[8 + 4] = z[4] /\ s[8 + 5] = z[5] /\ s[8 + 6] = z[6]
  BY <1>5 DEF StandsAt
<1>7. /\ s[1] = <<"write_irq">> /\ s[2] = <<"read_irq", BOOLEAN>> /\ s[3] = <<"load", 0>>
      /\ s[9] = <<"wait_irq", t>> /\ s[10] = <<"read_irq", {TRUE}>>
      /\ s[11] = <<"write_irq">> /\ s[12] = <<"tick">> /\ s[13] = <<"irq_low">>
      /\ s[14] = <<"read_irq", {FALSE}>>
  <2>1. /\ s[1] = a[1] /\ s[2] = a[2] /\ s[3] = a[3] /\ s[9] = z[1] /\ s[10] = z[2]
        /\ s[11] = z[3] /\ s[12] = z[4] /\ s[13] = z[5] /\ s[14] = z[6]
    BY <1>6
  <2>2. QED
    BY <1>2, <2>1, Zenon
<1>8. QED
  BY <1>3, <1>5, <1>7 DEF e

(* The reset and two idle edges.                                           *)
LEMMA PowerUpOps ==
    /\ Long(PowerUp, 4) /\ PowerUp[1] = <<"rst">> /\ PowerUp[2] = <<"rst">>
    /\ PowerUp[3] = <<"tick">> /\ PowerUp[4] = <<"tick">>
BY DEF PowerUp, Long

(* The lengths of the tests.                                               *)
LEMMA Lengths ==
    /\ Long(PowerUp, 4)
    /\ \A t : Long(FourBackToBack(t), 31) /\ Long(Interrupt(t), 14)
    /\ \A m, t : Long(QueueFull(m, t), 38)
<1>1. Long(PowerUp, 4)
  BY PowerUpOps
<1>2. ASSUME NEW t PROVE Long(FourBackToBack(t), 31)
  BY FourOps, Zenon
<1>3. ASSUME NEW t PROVE Long(Interrupt(t), 14)
  BY InterruptOps, Zenon
<1>4. ASSUME NEW m, NEW t PROVE Long(QueueFull(m, t), 38)
  BY FullOps DEF FullAre
<1>5. QED
  BY <1>1, <1>2, <1>3, <1>4

(* Where each test stands in the program of tb_mmio.cpp.                   *)
LEMMA MmioOps ==
    LET p == Program["mmio"]
    IN  /\ Len(p) = 87 /\ StandsAt(p, 0, PowerUp, 4)
        /\ StandsAt(p, 4, FourBackToBack(5000), 31)
        /\ StandsAt(p, 35, QueueFull(500, 5000), 38)
        /\ StandsAt(p, 73, Interrupt(500), 14)
<1> DEFINE f == FourBackToBack(5000)
           q == QueueFull(500, 5000)
           h == Interrupt(500)
           u == PowerUp \o f
           v == u \o q
           p == v \o h
<1>1. Long(PowerUp, 4) /\ Long(f, 31) /\ Long(q, 38) /\ Long(h, 14)
  BY Lengths
<1>2. Program["mmio"] = p
  BY DEF Program, MmioProgram
<1> HIDE DEF f, q, h
<1>3. Long(u, 35) /\ StandsAt(u, 0, PowerUp, 4) /\ StandsAt(u, 4, f, 31)
  <2>1. Long(u, 4 + 31) /\ StandsAt(u, 0, PowerUp, 4) /\ StandsAt(u, 4, f, 31)
    BY <1>1, Joined
  <2>2. QED
    BY <2>1
<1> HIDE DEF u
<1>4. Long(v, 73) /\ StandsAt(v, 0, PowerUp, 4) /\ StandsAt(v, 4, f, 31) /\ StandsAt(v, 35, q, 38)
  <2>1. Long(v, 35 + 38) /\ StandsAt(v, 35, q, 38)
    BY <1>1, <1>3, Joined
  <2>2. StandsAt(v, 0, PowerUp, 4) /\ StandsAt(v, 4, f, 31)
    BY <1>1, <1>3, StillStands
  <2>3. QED
    BY <2>1, <2>2
<1> HIDE DEF v
<1>5. /\ Long(p, 87) /\ StandsAt(p, 0, PowerUp, 4) /\ StandsAt(p, 4, f, 31)
      /\ StandsAt(p, 35, q, 38) /\ StandsAt(p, 73, h, 14)
  <2>1. Long(p, 73 + 14) /\ StandsAt(p, 73, h, 14)
    BY <1>1, <1>4, Joined
  <2>2. StandsAt(p, 0, PowerUp, 4) /\ StandsAt(p, 4, f, 31) /\ StandsAt(p, 35, q, 38)
    BY <1>1, <1>4, StillStands
  <2>3. QED
    BY <2>1, <2>2
<1> HIDE DEF p
<1>6. Len(p) = 87
  BY <1>5, LongLen
<1>7. QED
  BY <1>2, <1>5, <1>6 DEF f, q, h

\* The row counts of the boundary test.
Bound(k) == <<1, 255>>[k + 1]

(* Where each test stands in the program of tb_coproc_axi.cpp.             *)
LEMMA AxiOps ==
    LET p == Program["axi"]
    IN  /\ Len(p) = 263 /\ StandsAt(p, 0, PowerUp, 4)
        /\ StandsAt(p, 4, FourBackToBack(200000), 31)
        /\ \A k \in 0..1 :
              StandsAt(p, 8 * k + 35, RunOne(k, {Bound(k)}, 3 * Bound(k) + 20000), 8)
        /\ StandsAt(p, 51, QueueFull(200, 200000), 38)
        /\ StandsAt(p, 89, Interrupt(5000), 14)
        /\ \A k \in 0..19 : StandsAt(p, 8 * k + 103, RunOne(k % 3, RandRows, 20003), 8)
<1> DEFINE f == FourBackToBack(200000)
           B(k) == RunOne(k, {Bound(k)}, 3 * Bound(k) + 20000)
           bs == [t \in 1..2 |-> LET m == <<1, 255>>[t] IN RunOne(t - 1, {m}, 3 * m + 20000)]
           b == FlattenSeq(bs)
           q == QueueFull(200, 200000)
           h == Interrupt(5000)
           O(k) == RunOne(k % 3, RandRows, 20003)
           os == [i \in 1..20 |-> RunOne((i - 1) % 3, RandRows, 20003)]
           o == FlattenSeq(os)
           u == PowerUp \o f
           v == u \o b
           w == v \o q
           x == w \o h
           p == x \o o
<1>1. Long(PowerUp, 4) /\ Long(f, 31) /\ Long(q, 38) /\ Long(h, 14)
  BY Lengths
<1>2. Program["axi"] = p
  <2>1. Program["axi"] = AxiProgram
    BY DEF Program
  <2>2. b = Boundary
    BY DEF Boundary
  <2>3. o = Overlapping
    BY DEF Overlapping
  <2> HIDE DEF b, o
  <2>4. AxiProgram = p
    BY <2>2, <2>3 DEF AxiProgram
  <2>5. QED
    BY <2>1, <2>4
<1>3. /\ Long(bs, 2) /\ \A k \in 0..1 : bs[k + 1] = B(k)
      /\ Long(os, 20) /\ \A k \in 0..19 : os[k + 1] = O(k)
  <2>1. \A k \in 0..1 : k + 1 \in 1..2 /\ (k + 1) - 1 = k
    OBVIOUS
  <2>2. \A k \in 0..19 : k + 1 \in 1..20 /\ (k + 1) - 1 = k
    OBVIOUS
  <2>3. Long(bs, 2) /\ Long(os, 20)
    BY DEF Long
  <2>4. QED
    BY <2>1, <2>2, <2>3 DEF Bound
<1>4. (\A t \in 1..2 : Long(bs[t], 8)) /\ (\A i \in 1..20 : Long(os[i], 8))
  BY RunOneOps
<1> HIDE DEF f, q, h, bs, os, B, O
<1>5. Long(b, 16) /\ \A k \in 0..1 : StandsAt(b, 8 * k, B(k), 8)
  <2>1. Long(b, 2 * 8) /\ \A t \in 1..2 : StandsAt(b, (t - 1) * 8, bs[t], 8)
    <3>1. 2 \in Nat \ {0} /\ 8 \in {5, 8}
      OBVIOUS
    <3>2. QED
      BY <1>3, <1>4, <3>1, Flattened, Zenon
  <2>2. \A k \in 0..1 : k + 1 \in 1..2 /\ ((k + 1) - 1) * 8 = 8 * k
    OBVIOUS
  <2>3. QED
    BY <1>3, <2>1, <2>2
<1>6. Long(o, 160) /\ \A k \in 0..19 : StandsAt(o, 8 * k, O(k), 8)
  <2>1. Long(o, 20 * 8) /\ \A i \in 1..20 : StandsAt(o, (i - 1) * 8, os[i], 8)
    <3>1. 20 \in Nat \ {0} /\ 8 \in {5, 8}
      OBVIOUS
    <3>2. QED
      BY <1>3, <1>4, <3>1, Flattened, Zenon
  <2>2. \A k \in 0..19 : k + 1 \in 1..20 /\ ((k + 1) - 1) * 8 = 8 * k
    OBVIOUS
  <2>3. QED
    BY <1>3, <2>1, <2>2
<1> HIDE DEF b, o
<1>7. Long(u, 35) /\ StandsAt(u, 0, PowerUp, 4) /\ StandsAt(u, 4, f, 31)
  <2>1. Long(u, 4 + 31) /\ StandsAt(u, 0, PowerUp, 4) /\ StandsAt(u, 4, f, 31)
    BY <1>1, Joined
  <2>2. QED
    BY <2>1
<1> HIDE DEF u
<1>8. Long(v, 51) /\ StandsAt(v, 0, PowerUp, 4) /\ StandsAt(v, 4, f, 31) /\ StandsAt(v, 35, b, 16)
  <2>1. Long(v, 35 + 16) /\ StandsAt(v, 35, b, 16)
    BY <1>5, <1>7, Joined
  <2>2. StandsAt(v, 0, PowerUp, 4) /\ StandsAt(v, 4, f, 31)
    BY <1>5, <1>7, StillStands
  <2>3. QED
    BY <2>1, <2>2
<1> HIDE DEF v
<1>9. /\ Long(w, 89) /\ StandsAt(w, 0, PowerUp, 4) /\ StandsAt(w, 4, f, 31)
      /\ StandsAt(w, 35, b, 16) /\ StandsAt(w, 51, q, 38)
  <2>1. Long(w, 51 + 38) /\ StandsAt(w, 51, q, 38)
    BY <1>1, <1>8, Joined
  <2>2. StandsAt(w, 0, PowerUp, 4) /\ StandsAt(w, 4, f, 31) /\ StandsAt(w, 35, b, 16)
    BY <1>1, <1>8, StillStands
  <2>3. QED
    BY <2>1, <2>2
<1> HIDE DEF w
<1>10. /\ Long(x, 103) /\ StandsAt(x, 0, PowerUp, 4) /\ StandsAt(x, 4, f, 31)
       /\ StandsAt(x, 35, b, 16) /\ StandsAt(x, 51, q, 38) /\ StandsAt(x, 89, h, 14)
  <2>1. Long(x, 89 + 14) /\ StandsAt(x, 89, h, 14)
    BY <1>1, <1>9, Joined
  <2>2. /\ StandsAt(x, 0, PowerUp, 4) /\ StandsAt(x, 4, f, 31) /\ StandsAt(x, 35, b, 16)
        /\ StandsAt(x, 51, q, 38)
    BY <1>1, <1>9, StillStands
  <2>3. QED
    BY <2>1, <2>2
<1> HIDE DEF x
<1>11. /\ Long(p, 263) /\ StandsAt(p, 0, PowerUp, 4) /\ StandsAt(p, 4, f, 31)
       /\ StandsAt(p, 35, b, 16) /\ StandsAt(p, 51, q, 38) /\ StandsAt(p, 89, h, 14)
       /\ StandsAt(p, 103, o, 160)
  <2>1. Long(p, 103 + 160) /\ StandsAt(p, 103, o, 160)
    BY <1>6, <1>10, Joined
  <2>2. /\ StandsAt(p, 0, PowerUp, 4) /\ StandsAt(p, 4, f, 31) /\ StandsAt(p, 35, b, 16)
        /\ StandsAt(p, 51, q, 38) /\ StandsAt(p, 89, h, 14)
    BY <1>6, <1>10, StillStands
  <2>3. QED
    BY <2>1, <2>2
<1> HIDE DEF p
<1>12. ASSUME NEW k \in 0..1 PROVE StandsAt(p, 8 * k + 35, B(k), 8)
  <2>1. 8 * k \in Nat /\ 8 * k + 8 <= 16 /\ 35 + 8 * k = 8 * k + 35
    OBVIOUS
  <2>2. StandsAt(p, 35 + 8 * k, B(k), 8)
    BY <1>5, <1>11, <2>1, StandsWithin
  <2>3. QED
    BY <2>1, <2>2
<1>13. ASSUME NEW k \in 0..19 PROVE StandsAt(p, 8 * k + 103, O(k), 8)
  <2>1. 8 * k \in Nat /\ 8 * k + 8 <= 160 /\ 103 + 8 * k = 8 * k + 103
    OBVIOUS
  <2>2. StandsAt(p, 103 + 8 * k, O(k), 8)
    BY <1>6, <1>11, <2>1, StandsWithin
  <2>3. QED
    BY <2>1, <2>2
<1>14. Len(p) = 263
  <2>1. PICK n \in Nat : n = 263
    OBVIOUS
  <2>2. Long(p, n)
    BY <1>11, <2>1
  <2>3. Len(p) = n
    BY <2>2, LongLen
  <2>4. QED
    BY <2>1, <2>3
<1>15. QED
  BY <1>2, <1>11, <1>12, <1>13, <1>14 DEF f, q, h, B, O

-------------------------------------------------------------------------------
(* A clock edge, and how long the commands take.                           *)

\* Most cycles the memory adds to a command on this top.
Lag == IF top = "axi" THEN Slack ELSE 0

\* Most cycles a command of m rows takes, from the head of the queue to the
\* edge that counts it.
Price(m) == m + 4 * N + 5 + Lag

\* The command that reads and writes these regions.
Asks(r, c, m) == [w |-> r, a |-> r, c |-> c, m |-> m]

\* Of C[i], which the i-th command is one of: none costs more than p.
Fine(C, p) == \A i \in Int : \A x \in C[i] : x.m \in Nat /\ Price(x.m) <= p

\* Every command in the queue or in the datapath is the one its number says.
InLine(C) ==
    /\ \A i \in 0..3 : i < fifo_cnt => fifo_mem[(fifo_rp + i) % 4] \in C[accepted - fifo_cnt + i]
    /\ start \/ busy => cmd \in C[accepted - fifo_cnt - 1]

Timely == elapsed \in Nat /\ (busy => elapsed <= MaxLatency)

\* Edges until everything accepted has been counted, at p for each command
\* still in the queue.
Rest == IF start THEN MaxLatency + 3
        ELSE IF busy THEN MaxLatency - elapsed + 2
        ELSE IF done THEN 1 ELSE 0
Work(p) == fifo_cnt * p + Rest

\* An edge of the register block with a timed datapath.
Ticked(e, clear) ==
    /\ Regs!FifoEdge(e) /\ Regs!RetireEdge(clear) /\ Regs!DatapathEdge
    /\ ResultEdge /\ Timed /\ UNCHANGED <<w_buf, a_buf, top>>

(* What an edge does to the flags and counters.                            *)
LEMMA TickedRegs ==
    ASSUME RP!Inv, NEW e \in BOOLEAN, NEW clear \in BOOLEAN, e => ~Regs!fifo_full,
           Ticked(e, clear), hold' \in RP!Cmd, irq_en' \in BOOLEAN
    PROVE  /\ RP!Inv'
           /\ accepted' = accepted + (IF e THEN 1 ELSE 0)
           /\ retired' = retired + (IF done THEN 1 ELSE 0)
           /\ acked' = IF clear THEN retired ELSE acked
           /\ fifo_cnt' = fifo_cnt + (IF e THEN 1 ELSE 0) - (IF start' THEN 1 ELSE 0)
           /\ start' <=> ~busy /\ ~start /\ fifo_cnt # 0
           /\ ~start' => cmd' = cmd
           /\ busy' => start \/ busy
           /\ start => busy' /\ ~done'
           /\ done' <=> busy /\ ~busy'
<1>1. /\ RP!FifoEdge(e) /\ RP!RetireEdge(clear) /\ RP!DatapathEdge
      /\ (e => ~RP!fifo_full)
  BY SameBlock DEF Ticked
<1>2. RP!Inv' /\ acked' = IF clear THEN retired ELSE acked
  BY <1>1, RegsAssumptions, RP!BusCycle
<1>3. fifo_cnt \in 0..4 /\ ~(start /\ busy) /\ start \in BOOLEAN /\ busy \in BOOLEAN
  BY DEF RP!Inv, RP!TypeOK, RP!InFlightExclusive
<1>4. /\ accepted' = accepted + (IF e THEN 1 ELSE 0)
      /\ retired' = retired + (IF done THEN 1 ELSE 0)
  BY <1>1 DEF RP!FifoEdge, RP!RetireEdge, RP!Bit
<1>5. start' <=> ~busy /\ ~start /\ fifo_cnt # 0
  BY <1>1 DEF RP!FifoEdge, RP!pop, RP!fifo_empty
<1>6. /\ fifo_cnt' = fifo_cnt + (IF e THEN 1 ELSE 0) - (IF start' THEN 1 ELSE 0)
      /\ ~start' => cmd' = cmd
  BY <1>1 DEF RP!FifoEdge, RP!Bit
<1>7. /\ busy' => start \/ busy
      /\ start => busy' /\ ~done'
      /\ done' <=> busy /\ ~busy'
  BY <1>1, <1>3 DEF RP!DatapathEdge, RP!DP!Run, RP!DP!Finish, RP!DP!Accept, RP!DP!Rest
<1>8. QED
  BY <1>2, <1>4, <1>5, <1>6, <1>7

(* Every command accepted is in one place.                                 *)
LEMMA Places ==
    ASSUME RP!Inv
    PROVE  /\ accepted \in Nat /\ retired \in Nat /\ fifo_cnt \in 0..4
           /\ start \in BOOLEAN /\ busy \in BOOLEAN /\ done \in BOOLEAN
           /\ ~(start /\ busy) /\ ~(start /\ done) /\ ~(busy /\ done)
           /\ accepted - retired = fifo_cnt + (IF start \/ busy \/ done THEN 1 ELSE 0)
BY DEF RP!Inv, RP!TypeOK, RP!InFlightExclusive, RP!Conservation, RP!Bit

(* The commands in line stay in line, and in time.                         *)
LEMMA TickedLine ==
    ASSUME RP!Inv, NEW e \in BOOLEAN, NEW clear \in BOOLEAN, e => ~Regs!fifo_full,
           Ticked(e, clear), hold' \in RP!Cmd, irq_en' \in BOOLEAN,
           NEW C, NEW p, Fine(C, p), InLine(C), Timely, e => hold \in C[accepted]
    PROVE  InLine(C)' /\ Timely'
<1>1. RP!FifoEdge(e) /\ RP!DatapathEdge /\ (e => ~RP!fifo_full)
  BY SameBlock DEF Ticked
<1>2. accepted' = accepted + (IF e THEN 1 ELSE 0) /\ accepted \in Int
  BY TickedRegs, Places
<1>3. accepted' \in Int
  BY <1>2
<1>4. /\ \A i \in 0..3 : i < fifo_cnt' =>
               fifo_mem'[(fifo_rp' + i) % 4] \in C[accepted' - fifo_cnt' + i]
      /\ start' \/ busy' => cmd' \in C[accepted' - fifo_cnt' - 1]
  BY <1>1, <1>2, <1>3, RegsAssumptions, RP!HandedOn DEF InLine
<1>5. InLine(C)'
  BY <1>4 DEF InLine
<1>6. Timely'
  <2>1. elapsed' = (IF busy THEN elapsed + 1 ELSE 0) /\ (busy /\ busy' => elapsed < MaxLatency)
    BY DEF Ticked, Timed, TakesTime
  <2>2. elapsed' \in Nat
    BY <2>1 DEF Timely
  <2>3. ASSUME busy' PROVE elapsed' <= MaxLatency'
    <3>1. start \/ busy
      BY <2>3, TickedRegs
    <3>2. ~start'
      BY <3>1, TickedRegs
    <3>3. cmd' = cmd /\ top' = top
      BY <3>2, TickedRegs DEF Ticked
    <3>4. MaxLatency' = MaxLatency
      BY <3>3 DEF MaxLatency, Latency
    <3>5. cmd \in C[accepted - fifo_cnt - 1] /\ accepted - fifo_cnt - 1 \in Int
      BY <3>1, Places DEF InLine
    <3>6. MaxLatency \in Nat
      BY <3>5, TbAssumption DEF Fine, MaxLatency, Latency
    <3>7. CASE busy
      BY <2>1, <2>3, <3>4, <3>6, <3>7 DEF Timely
    <3>8. CASE ~busy
      BY <2>1, <3>4, <3>6, <3>8
    <3>9. QED
      BY <3>7, <3>8
  <2>4. QED
    BY <2>2, <2>3 DEF Timely
<1>7. QED
  BY <1>5, <1>6

(* c commands of p each and a rest, of at most n commands.                 *)
LEMMA Owed ==
    ASSUME NEW c \in 0..4, NEW n \in 1..5, NEW p \in Nat \ {0}, NEW r \in Nat, r <= p,
           c <= n, r > 0 => c + 1 <= n
    PROVE  c * p + r \in Nat /\ c * p + r <= n * p /\ (c * p + r = 0 <=> c = 0 /\ r = 0)
<1>1. c = 0 \/ c = 1 \/ c = 2 \/ c = 3 \/ c = 4
  OBVIOUS
<1>2. n = 1 \/ n = 2 \/ n = 3 \/ n = 4 \/ n = 5
  OBVIOUS
<1>3. QED
  BY <1>1, <1>2

(* How much is left, at most.                                              *)
LEMMA WorkBounds ==
    ASSUME RP!Inv, NEW C, NEW p \in Nat \ {0}, Fine(C, p), InLine(C), Timely
    PROVE  /\ Work(p) \in Nat
           /\ Work(p) = 0 <=> PollExit
           /\ \A n \in 1..5 : accepted - retired <= n => Work(p) <= n * p
<1>1. /\ accepted \in Nat /\ retired \in Nat /\ fifo_cnt \in 0..4
      /\ start \in BOOLEAN /\ busy \in BOOLEAN /\ done \in BOOLEAN
      /\ ~(start /\ busy) /\ ~(start /\ done) /\ ~(busy /\ done)
      /\ accepted - retired = fifo_cnt + (IF start \/ busy \/ done THEN 1 ELSE 0)
  BY Places
<1>2. start \/ busy => MaxLatency \in Nat /\ MaxLatency + 4 <= p
  <2>1. SUFFICES ASSUME start \/ busy PROVE MaxLatency \in Nat /\ MaxLatency + 4 <= p
    OBVIOUS
  <2>2. cmd \in C[accepted - fifo_cnt - 1] /\ accepted - fifo_cnt - 1 \in Int
    BY <1>1, <2>1 DEF InLine
  <2>3. cmd.m \in Nat /\ Price(cmd.m) <= p
    BY <2>2 DEF Fine
  <2>4. QED
    BY <2>3, TbAssumption DEF MaxLatency, Latency, Price, Lag
<1>3. Rest \in Nat /\ Rest <= p /\ (Rest = 0 <=> ~start /\ ~busy /\ ~done)
  BY <1>1, <1>2 DEF Rest, Timely
<1>4. ASSUME NEW n \in 1..5, accepted - retired <= n
      PROVE  /\ fifo_cnt * p + Rest \in Nat /\ fifo_cnt * p + Rest <= n * p
             /\ fifo_cnt * p + Rest = 0 <=> fifo_cnt = 0 /\ Rest = 0
  <2>1. fifo_cnt <= n /\ (Rest > 0 => fifo_cnt + 1 <= n)
    BY <1>1, <1>3, <1>4
  <2>2. QED
    BY <1>1, <1>3, <2>1, Owed
<1>5. 5 \in 1..5 /\ accepted - retired <= 5
  BY <1>1
<1>6. PollExit <=> fifo_cnt = 0 /\ ~start /\ ~busy /\ ~done
  BY DEF PollExit, Regs!Status, Regs!fifo_empty, Regs!status_busy
<1>7. QED
  BY <1>3, <1>4, <1>5, <1>6 DEF Work

(* An edge that accepts nothing leaves less to do, until all is done.      *)
LEMMA WorkDone ==
    ASSUME RP!Inv, NEW clear \in BOOLEAN, Ticked(FALSE, clear), hold' \in RP!Cmd,
           irq_en' \in BOOLEAN,
           NEW C, NEW p \in Nat \ {0}, Fine(C, p), InLine(C), Timely, ~PollExit
    PROVE  Work(p)' \in Nat /\ Work(p)' < Work(p)
<1>1. /\ accepted \in Nat /\ retired \in Nat /\ fifo_cnt \in 0..4
      /\ start \in BOOLEAN /\ busy \in BOOLEAN /\ done \in BOOLEAN
      /\ ~(start /\ busy) /\ ~(start /\ done) /\ ~(busy /\ done)
  BY Places
<1>2. /\ RP!Inv' /\ fifo_cnt' = fifo_cnt + 0 - (IF start' THEN 1 ELSE 0)
      /\ start' <=> ~busy /\ ~start /\ fifo_cnt # 0
      /\ ~start' => cmd' = cmd
      /\ busy' => start \/ busy
      /\ start => busy' /\ ~done'
      /\ done' <=> busy /\ ~busy'
  BY TickedRegs
<1>3. /\ start' \in BOOLEAN /\ busy' \in BOOLEAN /\ done' \in BOOLEAN
      /\ ~(start' /\ busy') /\ ~(start' /\ done') /\ ~(busy' /\ done')
      /\ fifo_cnt' \in 0..4 /\ accepted' \in Nat
  BY <1>2 DEF RP!Inv, RP!TypeOK, RP!InFlightExclusive
<1>4. InLine(C)' /\ Timely'
  BY TickedLine
<1>5. start \/ busy => MaxLatency \in Nat
  <2>1. SUFFICES ASSUME start \/ busy PROVE MaxLatency \in Nat
    OBVIOUS
  <2>2. cmd \in C[accepted - fifo_cnt - 1] /\ accepted - fifo_cnt - 1 \in Int
    BY <1>1, <2>1 DEF InLine
  <2>3. QED
    BY <2>2, TbAssumption DEF Fine, MaxLatency, Latency
<1>6. start' => MaxLatency' \in Nat /\ MaxLatency' + 4 <= p
  <2>1. SUFFICES ASSUME start' PROVE MaxLatency' \in Nat /\ MaxLatency' + 4 <= p
    OBVIOUS
  <2>2. cmd' \in C[accepted' - fifo_cnt' - 1] /\ accepted' - fifo_cnt' - 1 \in Int
    BY <1>3, <1>4, <2>1 DEF InLine
  <2>3. cmd'.m \in Nat /\ Price(cmd'.m) <= p /\ top' = top
    BY <2>2 DEF Fine, Ticked
  <2>4. QED
    BY <2>3, TbAssumption DEF MaxLatency, Latency, Price, Lag
<1>7. /\ elapsed' = (IF busy THEN elapsed + 1 ELSE 0) /\ elapsed \in Nat
      /\ busy => elapsed <= MaxLatency
      /\ busy /\ busy' => elapsed < MaxLatency
  BY DEF Ticked, Timed, TakesTime, Timely
<1>8. CASE start
  <2>1. ~start' /\ busy' /\ fifo_cnt' = fifo_cnt /\ MaxLatency' = MaxLatency /\ elapsed' = 0
    BY <1>1, <1>2, <1>7, <1>8 DEF MaxLatency, Latency, Ticked
  <2>2. Rest' = Rest - 1 /\ Rest' \in Nat /\ Rest \in Nat
    BY <1>5, <1>8, <2>1 DEF Rest
  <2>3. fifo_cnt * p \in Nat /\ Work(p)' = fifo_cnt * p + Rest' /\ Work(p) = fifo_cnt * p + Rest
    BY <1>1, <2>1 DEF Work
  <2>4. QED
    BY <2>2, <2>3
<1>9. CASE busy
  <2>1. ~start' /\ ~start /\ fifo_cnt' = fifo_cnt /\ MaxLatency' = MaxLatency
    BY <1>1, <1>2, <1>9 DEF MaxLatency, Latency, Ticked
  <2>2. Rest' < Rest /\ Rest' \in Nat /\ Rest \in Nat
    BY <1>2, <1>3, <1>5, <1>7, <1>9, <2>1 DEF Rest
  <2>3. fifo_cnt * p \in Nat /\ Work(p)' = fifo_cnt * p + Rest' /\ Work(p) = fifo_cnt * p + Rest
    BY <1>1, <2>1 DEF Work
  <2>4. QED
    BY <2>2, <2>3
<1>10. CASE ~start /\ ~busy /\ fifo_cnt # 0
  <2>1. start' /\ ~busy' /\ ~done' /\ fifo_cnt' = fifo_cnt - 1
    BY <1>1, <1>2, <1>3, <1>10
  <2>2. Rest' \in Nat /\ Rest' < p /\ Rest \in Nat
    BY <1>6, <1>10, <2>1 DEF Rest
  <2>3. /\ (fifo_cnt - 1) * p \in Nat /\ fifo_cnt * p = (fifo_cnt - 1) * p + p
        /\ Work(p)' = (fifo_cnt - 1) * p + Rest' /\ Work(p) = fifo_cnt * p + Rest
    <3>1. fifo_cnt = 1 \/ fifo_cnt = 2 \/ fifo_cnt = 3 \/ fifo_cnt = 4
      BY <1>1, <1>10
    <3>2. QED
      BY <2>1, <3>1 DEF Work
  <2>4. QED
    BY <2>2, <2>3
<1>11. CASE ~start /\ ~busy /\ fifo_cnt = 0
  <2>1. done
    BY <1>11 DEF PollExit, Regs!Status, Regs!fifo_empty, Regs!status_busy
  <2>2. ~start' /\ ~busy' /\ ~done' /\ fifo_cnt' = 0
    <3>1. ~start' /\ ~busy' /\ ~done'
      BY <1>2, <1>11
    <3>2. QED
      BY <1>2, <1>3, <1>11, <3>1
  <2>3. Rest = 1 /\ Rest' = 0 /\ 0 * p = 0
    BY <1>11, <2>1, <2>2 DEF Rest
  <2>4. QED
    BY <1>11, <2>2, <2>3 DEF Work
<1>12. QED
  BY <1>1, <1>8, <1>9, <1>10, <1>11

\* Of the commands from A on, every one that has finished has left what
\* golden() computed for it in its region F[j].
Answered(A, F) ==
    \A j \in Int : A <= j /\ j < retired + (IF done THEN 1 ELSE 0) => c_buf[F[j]] = want[F[j]]

\* What golden() has computed for the commands from A on, and keeps.
Computed(A, C, F) ==
    \A j \in Int : A <= j /\ j < accepted =>
        /\ F[j] \in Slot /\ want'[F[j]] = want[F[j]]
        /\ \A x \in C[j] : x.c = F[j] /\ want[F[j]] = <<w_buf[x.w], a_buf[x.a], x.m>>

(* The answers given stay right, and the next one is right when it comes.  *)
LEMMA TickedAnswers ==
    ASSUME RP!Inv, NEW e \in BOOLEAN, NEW clear \in BOOLEAN, e => ~Regs!fifo_full,
           Ticked(e, clear), hold' \in RP!Cmd, irq_en' \in BOOLEAN,
           NEW C, InLine(C), NEW F, NEW A \in Int, A <= retired, DOMAIN c_buf = Slot,
           Computed(A, C, F), Answered(A, F)
    PROVE  Answered(A, F)' /\ DOMAIN c_buf' = Slot
<1>1. /\ accepted \in Nat /\ retired \in Nat /\ fifo_cnt \in 0..4
      /\ start \in BOOLEAN /\ busy \in BOOLEAN /\ done \in BOOLEAN
      /\ ~(start /\ busy) /\ ~(start /\ done) /\ ~(busy /\ done)
      /\ accepted - retired = fifo_cnt + (IF start \/ busy \/ done THEN 1 ELSE 0)
  BY Places
<1>2. retired' = retired + (IF done THEN 1 ELSE 0) /\ (done' <=> busy /\ ~busy')
  BY TickedRegs
<1>3. CASE done'
  <2>1. busy /\ ~done /\ retired' = retired /\ retired = accepted - fifo_cnt - 1
        /\ retired < accepted
    BY <1>1, <1>2, <1>3
  <2>2. cmd \in C[retired]
    BY <2>1 DEF InLine
  <2>3. /\ cmd.c = F[retired] /\ F[retired] \in Slot
        /\ want[F[retired]] = Product /\ want'[F[retired]] = want[F[retired]]
    BY <1>1, <2>1, <2>2 DEF Product, Computed
  <2>4. c_buf' = [c_buf EXCEPT ![F[retired]] = want[F[retired]]]
    BY <1>3, <2>3 DEF Ticked, ResultEdge
  <2>5. DOMAIN c_buf' = Slot /\ c_buf'[F[retired]] = want'[F[retired]]
    BY <2>3, <2>4
  <2>6. ASSUME NEW j \in Int, A <= j, j < retired
        PROVE  c_buf'[F[j]] = want'[F[j]]
    <3>1. c_buf[F[j]] = want[F[j]]
      BY <1>1, <2>1, <2>6 DEF Answered
    <3>2. F[j] \in Slot /\ want'[F[j]] = want[F[j]]
      BY <1>1, <2>1, <2>6 DEF Computed
    <3>3. QED
      BY <2>3, <2>4, <3>1, <3>2
  <2>7. \A j \in Int : j < retired' + 1 => j < retired \/ j = retired
    BY <1>1, <2>1
  <2>8. QED
    BY <1>3, <2>5, <2>6, <2>7 DEF Answered
<1>4. CASE ~done'
  <2>1. c_buf' = c_buf
    BY <1>4 DEF Ticked, ResultEdge
  <2>2. ASSUME NEW j \in Int, A <= j, j < retired'
        PROVE  c_buf'[F[j]] = want'[F[j]]
    <3>1. j < retired + (IF done THEN 1 ELSE 0) /\ j < accepted
      BY <1>1, <1>2, <2>2
    <3>2. QED
      BY <2>1, <2>2, <3>1 DEF Answered, Computed
  <2>3. \A j \in Int : j < retired' + 0 => j < retired'
    BY <1>1, <1>2
  <2>4. QED
    BY <1>4, <2>1, <2>2, <2>3 DEF Answered
<1>5. QED
  BY <1>3, <1>4

(* The action of each kind of operation.                                   *)
LEMMA ActionOf ==
    ASSUME pc = "tb", TbStep
    PROVE  /\ op[1] = "rst" => ResetTick
           /\ op[1] = "tick" => PlainTick
           /\ op[1] = "load" => Load
           /\ op[1] = "store" => MmioWrite
           /\ op[1] = "cmd" => MmioCommand
           /\ op[1] = "write_irq" => MmioWriteIrq
           /\ op[1] = "read_irq" => ReadIrq
           /\ op[1] = "status" => ReadStatus
           /\ op[1] = "poll" => PollDrained
           /\ op[1] = "wait_irq" => WaitIrq
           /\ op[1] = "irq_low" => IrqLow
           /\ op[1] \in {"full", "advanced", "check"} => Verify
           /\ op[1] = "save" => Save
BY DEF TbStep, At, ResetTick, PlainTick, Load, MmioWrite, MmioCommand, MmioWriteIrq, ReadIrq,
       ReadStatus, PollDrained, WaitIrq, IrqLow, Verify, Save

(* The accesses are edges.                                                 *)
LEMMA Accesses ==
    ASSUME RP!Inv
    PROVE  /\ NoAccess => /\ Ticked(FALSE, FALSE) /\ hold' = hold /\ irq_en' = irq_en
                          /\ hold' \in RP!Cmd /\ irq_en' \in BOOLEAN
           /\ \A f \in {"w", "a", "c", "m"}, v \in Val :
                  Store(f, v) /\ Timed /\ UNCHANGED <<w_buf, a_buf, top>> =>
                      /\ Ticked(FALSE, FALSE) /\ hold' = [hold EXCEPT ![f] = v]
                      /\ irq_en' = irq_en /\ hold' \in RP!Cmd /\ irq_en' \in BOOLEAN
           /\ Regs!WriteCmd /\ ResultEdge /\ Timed /\ UNCHANGED <<w_buf, a_buf, top>> =>
                  /\ Ticked(~Regs!fifo_full, FALSE) /\ hold' = hold /\ irq_en' = irq_en
                  /\ hold' \in RP!Cmd /\ irq_en' \in BOOLEAN
           /\ Regs!WriteIrq(TRUE, TRUE) /\ ResultEdge /\ Timed /\ UNCHANGED <<w_buf, a_buf, top>> =>
                  /\ Ticked(FALSE, TRUE) /\ hold' = hold /\ irq_en' = TRUE
                  /\ hold' \in RP!Cmd /\ irq_en' \in BOOLEAN
<1>1. hold \in RP!Cmd /\ irq_en \in BOOLEAN
  BY DEF RP!Inv, RP!TypeOK
<1>2. ASSUME NoAccess PROVE Ticked(FALSE, FALSE) /\ hold' = hold /\ irq_en' = irq_en
  BY <1>2 DEF NoAccess, Edge, Regs!IdleCycle, Ticked
<1>3. ASSUME NEW f \in {"w", "a", "c", "m"}, NEW v \in Val, Store(f, v), Timed,
             UNCHANGED <<w_buf, a_buf, top>>
      PROVE  /\ Ticked(FALSE, FALSE) /\ hold' = [hold EXCEPT ![f] = v]
             /\ irq_en' = irq_en /\ hold' \in RP!Cmd
  BY <1>1, <1>3 DEF Store, Regs!WriteField, Ticked, RP!Cmd
<1>4. ASSUME Regs!WriteCmd, ResultEdge, Timed, UNCHANGED <<w_buf, a_buf, top>>
      PROVE  Ticked(~Regs!fifo_full, FALSE) /\ hold' = hold /\ irq_en' = irq_en
  BY <1>4 DEF Regs!WriteCmd, Regs!CanEnqueue, Ticked
<1>5. ASSUME Regs!WriteIrq(TRUE, TRUE), ResultEdge, Timed, UNCHANGED <<w_buf, a_buf, top>>
      PROVE  Ticked(FALSE, TRUE) /\ hold' = hold /\ irq_en' = TRUE
  BY <1>5 DEF Regs!WriteIrq, Ticked
<1>6. QED
  BY <1>1, <1>2, <1>3, <1>4, <1>5

-------------------------------------------------------------------------------
(* One operation of a program.                                             *)

Ready ==
    /\ RP!Inv /\ Timely /\ top \in {"mmio", "axi"}
    /\ DOMAIN c_buf = Slot /\ DOMAIN want = Slot /\ all_pass

Looks == {"full", "advanced", "check", "save", "load", "irq_low"}

(* Every operation but a CMD store and a reset leaves the line of commands *)
(* to the datapath.                                                        *)
LEMMA TickedCalm ==
    ASSUME Ready, NEW C, NEW p, Fine(C, p), InLine(C), NEW clear \in BOOLEAN,
           Ticked(FALSE, clear), hold' \in RP!Cmd, irq_en' \in BOOLEAN
    PROVE  /\ RP!Inv' /\ Timely' /\ InLine(C)' /\ top' = top /\ DOMAIN c_buf' = Slot
           /\ accepted' = accepted /\ retired' >= retired
           /\ accepted = retired => retired' = retired
           /\ acked' = IF clear THEN retired ELSE acked
<1>1. RP!Inv /\ Timely /\ DOMAIN c_buf = Slot
  BY DEF Ready
<1>2. /\ accepted \in Nat /\ retired \in Nat /\ fifo_cnt \in 0..4
      /\ accepted - retired = fifo_cnt + (IF start \/ busy \/ done THEN 1 ELSE 0)
  BY <1>1, Places
<1>3. /\ RP!Inv' /\ accepted' = accepted + 0
      /\ retired' = retired + (IF done THEN 1 ELSE 0)
      /\ acked' = IF clear THEN retired ELSE acked
  BY <1>1, TickedRegs
<1>4. InLine(C)' /\ Timely'
  BY <1>1, TickedLine
<1>5. top' = top /\ DOMAIN c_buf' = Slot
  BY <1>1 DEF Ticked, ResultEdge
<1>6. accepted = retired => ~done
  BY <1>2
<1>7. QED
  BY <1>2, <1>3, <1>4, <1>5, <1>6

(* Nor does an operation that takes no edge.                               *)
LEMMA StillCalm ==
    ASSUME Ready, NEW C, InLine(C), UNCHANGED <<regVars, top, elapsed, c_buf>>
    PROVE  /\ RP!Inv' /\ Timely' /\ InLine(C)' /\ top' = top /\ DOMAIN c_buf' = Slot
           /\ accepted' = accepted /\ retired' = retired /\ acked' = acked
           /\ hold' = hold /\ irq_en' = irq_en
<1>1. UNCHANGED RP!vars
  BY DEF regVars, RP!vars, RP!fifoVars, RP!retireVars
<1>2. RP!Inv'
  BY <1>1, RegsAssumptions, RP!IdleStep DEF Ready
<1>3. Timely' /\ InLine(C)'
  BY DEF Ready, Timely, InLine, regVars, MaxLatency, Latency
<1>4. QED
  BY <1>2, <1>3 DEF Ready, regVars

(* Both, by the kind of operation.                                         *)
LEMMA CalmStep ==
    ASSUME Ready, NEW C, NEW p, Fine(C, p), InLine(C), pc = "tb", TbStep,
           op[1] \in {"tick", "store", "write_irq", "read_irq", "status", "poll", "wait_irq"}
                     \cup Looks,
           op[1] = "store" => op[2] \in {"w", "a", "c", "m"} /\ op[3] \subseteq Val
    PROVE  /\ RP!Inv' /\ Timely' /\ InLine(C)' /\ top' = top /\ DOMAIN c_buf' = Slot
           /\ accepted' = accepted /\ retired' >= retired
           /\ accepted = retired => retired' = retired
           /\ op[1] # "write_irq" => acked' = acked /\ irq_en' = irq_en
           /\ op[1] = "write_irq" => acked' = retired /\ irq_en' = TRUE
           /\ op[1] # "store" => hold' = hold
           /\ op[1] = "store" => \E v \in op[3] : hold' = [hold EXCEPT ![op[2]] = v]
<1>1. RP!Inv /\ retired \in Nat
  BY Places DEF Ready
<1>2. CASE op[1] = "store"
  <2>1. PICK v \in op[3] : Store(op[2], v) /\ Timed /\ UNCHANGED <<w_buf, a_buf, top>>
    BY <1>2, ActionOf DEF MmioWrite
  <2>2. op[2] \in {"w", "a", "c", "m"} /\ v \in Val
    BY <1>2
  <2>3. /\ Ticked(FALSE, FALSE) /\ hold' = [hold EXCEPT ![op[2]] = v]
        /\ irq_en' = irq_en /\ hold' \in RP!Cmd /\ irq_en' \in BOOLEAN
    BY <1>1, <2>1, <2>2, Accesses
  <2>4. QED
    BY <1>2, <2>3, TickedCalm
<1>3. CASE op[1] = "write_irq"
  <2>1. Regs!WriteIrq(TRUE, TRUE) /\ ResultEdge /\ Timed /\ UNCHANGED <<w_buf, a_buf, top>>
    BY <1>3, ActionOf DEF MmioWriteIrq
  <2>2. /\ Ticked(FALSE, TRUE) /\ hold' = hold
        /\ irq_en' = TRUE /\ hold' \in RP!Cmd /\ irq_en' \in BOOLEAN
    BY <1>1, <2>1, Accesses
  <2>3. QED
    BY <1>3, <2>2, TickedCalm
<1>4. CASE NoAccess /\ op[1] # "store" /\ op[1] # "write_irq"
  <2>1. /\ Ticked(FALSE, FALSE) /\ hold' = hold /\ irq_en' = irq_en
        /\ hold' \in RP!Cmd /\ irq_en' \in BOOLEAN
    BY <1>1, <1>4, Accesses
  <2>2. QED
    BY <1>4, <2>1, TickedCalm
<1>5. CASE UNCHANGED <<regVars, top, elapsed, c_buf>> /\ op[1] # "store" /\ op[1] # "write_irq"
  BY <1>1, <1>5, StillCalm
<1>6. CASE op[1] \in {"tick", "read_irq", "status", "poll", "wait_irq"}
  <2>1. NoAccess \/ UNCHANGED <<regVars, top, elapsed, c_buf>>
    BY <1>6, ActionOf DEF PlainTick, ReadIrq, ReadStatus, PollDrained, WaitIrq, vars, bufVars
  <2>2. QED
    BY <1>4, <1>5, <1>6, <2>1
<1>7. CASE op[1] \in Looks
  <2>1. UNCHANGED <<regVars, top, elapsed, c_buf>>
    BY <1>7, ActionOf DEF Looks, Load, Verify, Save, IrqLow, bufVars
  <2>2. QED
    BY <1>5, <1>7, <2>1 DEF Looks
<1>8. QED
  BY <1>2, <1>3, <1>6, <1>7

(* What the operations do to the program's own variables.                  *)
LEMMA Bookkeeping ==
    ASSUME pc = "tb", TbStep,
           op[1] \in {"tick", "store", "write_irq", "read_irq", "status", "poll", "wait_irq"}
                     \cup Looks
    PROVE  /\ want' = want
           /\ op[1] # "load" => w_buf' = w_buf /\ a_buf' = a_buf
           /\ op[1] \notin {"status", "poll"} => status' = status
           /\ op[1] \in {"status", "poll"} => status' = Regs!Status
           /\ op[1] # "save" => dc_before' = dc_before
           /\ op[1] = "save" => dc_before' = status.done_count
           /\ op[1] \notin {"poll", "wait_irq"} => Advance
           /\ op[1] \in {"tick", "load", "store", "write_irq", "status", "save"} =>
                  all_pass' = all_pass
           /\ op[1] = "read_irq" => Pass(irq_pending \in op[2])
           /\ op[1] = "irq_low" => Pass(~Regs!irq)
           /\ op[1] = "full" => Pass(status.qfull)
           /\ op[1] = "advanced" => Pass(status.done_count - dc_before = op[2])
           /\ op[1] = "check" => Pass(c_buf[op[2]] = want[op[2]])
<1>1. CASE op[1] = "tick"
  BY <1>1, ActionOf DEF PlainTick, NoAccess
<1>2. CASE op[1] = "store"
  BY <1>2, ActionOf DEF MmioWrite
<1>3. CASE op[1] = "write_irq"
  BY <1>3, ActionOf DEF MmioWriteIrq
<1>4. CASE op[1] = "read_irq"
  BY <1>4, ActionOf DEF ReadIrq, NoAccess
<1>5. CASE op[1] = "status"
  BY <1>5, ActionOf DEF ReadStatus, NoAccess
<1>6. CASE op[1] = "poll"
  BY <1>6, ActionOf DEF PollDrained, NoAccess
<1>7. CASE op[1] = "wait_irq"
  BY <1>7, ActionOf DEF WaitIrq, NoAccess, vars, bufVars
<1>8. CASE op[1] = "load"
  BY <1>8, ActionOf DEF Load
<1>9. CASE op[1] \in {"full", "advanced", "check"}
  BY <1>9, ActionOf DEF Verify, At, bufVars
<1>10. CASE op[1] = "save"
  BY <1>10, ActionOf DEF Save, bufVars
<1>11. CASE op[1] = "irq_low"
  BY <1>11, ActionOf DEF IrqLow, bufVars
<1>12. QED
  BY <1>1, <1>2, <1>3, <1>4, <1>5, <1>6, <1>7, <1>8, <1>9, <1>10, <1>11 DEF Looks

(* A CMD store adds the held command to the line if there is room.         *)
LEMMA CommandLine ==
    ASSUME Ready, NEW C, NEW p, Fine(C, p), InLine(C), pc = "tb", TbStep, op[1] = "cmd",
           ~Regs!fifo_full => hold \in C[accepted]
    PROVE  /\ RP!Inv' /\ Timely' /\ InLine(C)' /\ top' = top /\ DOMAIN c_buf' = Slot
           /\ accepted' = accepted + (IF Regs!fifo_full THEN 0 ELSE 1)
           /\ retired' = retired + (IF done THEN 1 ELSE 0) /\ acked' = acked
           /\ hold' = hold /\ irq_en' = irq_en /\ w_buf' = w_buf /\ a_buf' = a_buf
           /\ want' = [want EXCEPT ![hold.c] = <<w_buf[hold.w], a_buf[hold.a], hold.m>>]
           /\ status' = status /\ dc_before' = dc_before /\ Advance /\ all_pass' = all_pass
           /\ Ticked(~Regs!fifo_full, FALSE) /\ hold' \in RP!Cmd /\ irq_en' \in BOOLEAN
<1>1. RP!Inv /\ Timely /\ DOMAIN c_buf = Slot
  BY DEF Ready
<1>2. /\ Regs!WriteCmd /\ ResultEdge /\ Timed /\ UNCHANGED <<w_buf, a_buf, top>>
      /\ want' = [want EXCEPT ![hold.c] = <<w_buf[hold.w], a_buf[hold.a], hold.m>>]
      /\ status' = status /\ dc_before' = dc_before /\ Advance /\ all_pass' = all_pass
  BY ActionOf DEF MmioCommand
<1>3. /\ Ticked(~Regs!fifo_full, FALSE) /\ hold' = hold /\ irq_en' = irq_en
      /\ hold' \in RP!Cmd /\ irq_en' \in BOOLEAN
  BY <1>1, <1>2, Accesses
<1> DEFINE e == ~Regs!fifo_full
<1>4. e \in BOOLEAN /\ (e => ~Regs!fifo_full) /\ (e => hold \in C[accepted])
  BY DEF Regs!fifo_full
<1>5. /\ RP!Inv' /\ accepted' = accepted + (IF e THEN 1 ELSE 0)
      /\ retired' = retired + (IF done THEN 1 ELSE 0) /\ acked' = acked
  <2> HIDE DEF e
  <2>1. Ticked(e, FALSE) /\ FALSE \in BOOLEAN
    BY <1>3 DEF e
  <2>2. QED
    BY <1>1, <1>3, <1>4, <2>1, TickedRegs
<1>6. InLine(C)' /\ Timely'
  <2> HIDE DEF e
  <2>1. Ticked(e, FALSE) /\ FALSE \in BOOLEAN
    BY <1>3 DEF e
  <2>2. QED
    BY <1>1, <1>3, <1>4, <2>1, TickedLine
<1>7. DOMAIN c_buf' = Slot
  BY <1>1, <1>2 DEF ResultEdge
<1>8. QED
  BY <1>2, <1>3, <1>5, <1>6, <1>7

\* The first k fields of the next command are in the holding registers.
Held(k, r, c, ms) ==
    /\ k >= 1 => hold.w = r
    /\ k >= 2 => hold.a = r
    /\ k >= 3 => hold.c = c
    /\ k >= 4 => hold.m \in ms

Idle(n) == accepted = n /\ retired = n

(* The five stores of an Enqueue.                                          *)
LEMMA EnqueueOp ==
    ASSUME NEW r, NEW c, NEW ms, NEW d \in Nat,
           StandsAt(Program[top], d, Enqueue(r, r, c, ms), 5), NEW k \in 1..5, step = d + k
    PROVE  /\ k = 1 => op = <<"store", "w", {r}>>
           /\ k = 2 => op = <<"store", "a", {r}>>
           /\ k = 3 => op = <<"store", "c", {c}>>
           /\ k = 4 => op = <<"store", "m", ms>>
           /\ k = 5 => op = <<"cmd">>
<1>1. op = Enqueue(r, r, c, ms)[k]
  BY DEF StandsAt, op
<1> DEFINE s == Enqueue(r, r, c, ms)
<1>2. /\ s[1] = <<"store", "w", {r}>> /\ s[2] = <<"store", "a", {r}>>
      /\ s[3] = <<"store", "c", {c}>> /\ s[4] = <<"store", "m", ms>> /\ s[5] = <<"cmd">>
  BY DEF Enqueue
<1> HIDE DEF s
<1>3. op = s[k]
  BY <1>1 DEF s
<1>4. QED
  BY <1>2, <1>3, Zenon

(* Each of the first four puts its field into the holding registers.       *)
LEMMA EnqueueField ==
    ASSUME Ready, NEW C, NEW p, Fine(C, p), InLine(C), pc = "tb", TbStep,
           NEW r \in Slot, NEW c \in Slot, NEW ms \in SUBSET Val, NEW d \in Nat,
           StandsAt(Program[top], d, Enqueue(r, r, c, ms), 5), NEW k \in 1..4, step = d + k,
           Held(k - 1, r, c, ms)
    PROVE  /\ op[1] = "store" /\ op[2] \in {"w", "a", "c", "m"} /\ op[3] \subseteq Val
           /\ Held(k, r, c, ms)'
<1>1. Slot \subseteq Val /\ k \in 1..5
  BY HostAssumption
<1>2. \/ k = 1 /\ op = <<"store", "w", {r}>>
      \/ k = 2 /\ op = <<"store", "a", {r}>>
      \/ k = 3 /\ op = <<"store", "c", {c}>>
      \/ k = 4 /\ op = <<"store", "m", ms>>
  BY <1>1, EnqueueOp
<1>3. op[1] = "store" /\ op[2] \in {"w", "a", "c", "m"} /\ op[3] \subseteq Val
  BY <1>1, <1>2
<1>4. PICK v \in op[3] : hold' = [hold EXCEPT ![op[2]] = v]
  BY <1>3, CalmStep
<1>5. hold \in [{"w", "a", "c", "m"} -> Val]
  BY DEF Ready, RP!Inv, RP!TypeOK, RP!Cmd
<1>6. Held(k, r, c, ms)'
  <2>1. CASE k = 1 /\ op = <<"store", "w", {r}>>
    BY <1>4, <1>5, <2>1 DEF Held
  <2>2. CASE k = 2 /\ op = <<"store", "a", {r}>>
    BY <1>4, <1>5, <2>2 DEF Held
  <2>3. CASE k = 3 /\ op = <<"store", "c", {c}>>
    BY <1>4, <1>5, <2>3 DEF Held
  <2>4. CASE k = 4 /\ op = <<"store", "m", ms>>
    BY <1>4, <1>5, <2>4 DEF Held
  <2>5. QED
    BY <1>2, <2>1, <2>2, <2>3, <2>4
<1>7. QED
  BY <1>3, <1>6

(* The fifth finds the whole command there.                                *)
LEMMA EnqueueCommand ==
    ASSUME Ready, NEW r, NEW c, NEW ms, NEW d \in Nat,
           StandsAt(Program[top], d, Enqueue(r, r, c, ms), 5), step = d + 5,
           Held(4, r, c, ms)
    PROVE  op[1] = "cmd" /\ \E x \in ms : hold = Asks(r, c, x)
<1>1. op = <<"cmd">>
  BY EnqueueOp
<1>2. hold \in [{"w", "a", "c", "m"} -> Val]
  BY DEF Ready, RP!Inv, RP!TypeOK, RP!Cmd
<1>3. hold.w = r /\ hold.a = r /\ hold.c = c /\ hold.m \in ms
  BY DEF Held
<1>4. hold = Asks(r, c, hold.m)
  BY <1>2, <1>3 DEF Asks
<1>5. QED
  BY <1>1, <1>3, <1>4

(* Where nothing is in line, nothing is out of line.                       *)
LEMMA NothingInLine ==
    ASSUME RP!Inv, accepted = retired, NEW C
    PROVE  InLine(C)
BY Places DEF InLine

(* Every operation but a CMD store and a reset leaves an idle block idle.  *)
LEMMA IdleStep ==
    ASSUME Ready, NEW n, Idle(n), pc = "tb", TbStep,
           op[1] \in {"tick", "store", "write_irq", "read_irq", "status", "wait_irq"} \cup Looks,
           op[1] = "store" => op[2] \in {"w", "a", "c", "m"} /\ op[3] \subseteq Val
    PROVE  /\ RP!Inv' /\ Timely' /\ top' = top /\ DOMAIN c_buf' = Slot /\ DOMAIN want' = Slot
           /\ Idle(n)'
           /\ op[1] # "write_irq" => acked' = acked /\ irq_en' = irq_en
           /\ op[1] = "write_irq" => acked' = n /\ irq_en' = TRUE
           /\ op[1] # "store" => hold' = hold
<1> DEFINE C == [i \in Int |-> {}]
<1>1. Fine(C, 0)
  BY DEF Fine
<1>2. InLine(C)
  BY NothingInLine DEF Ready, Idle
<1> HIDE DEF C
<1>3. op[1] \in {"tick", "store", "write_irq", "read_irq", "status", "poll", "wait_irq"} \cup Looks
  OBVIOUS
<1>4. /\ RP!Inv' /\ Timely' /\ top' = top /\ DOMAIN c_buf' = Slot
      /\ accepted' = accepted /\ (accepted = retired => retired' = retired)
      /\ op[1] # "write_irq" => acked' = acked /\ irq_en' = irq_en
      /\ op[1] = "write_irq" => acked' = retired /\ irq_en' = TRUE
      /\ op[1] # "store" => hold' = hold
  BY <1>1, <1>2, <1>3, CalmStep
<1>5. DOMAIN want' = Slot
  BY <1>3, Bookkeeping DEF Ready
<1>6. QED
  BY <1>4, <1>5 DEF Idle

(* The count the program reads is that of this test: it has not come round. *)
LEMMA CountRead ==
    ASSUME RP!Inv, retired < 12
    PROVE  Regs!Status.done_count = retired
<1>1. done_count = retired % DC_MOD /\ retired \in Nat
  BY DEF RP!Inv, RP!TypeOK, RP!CountsRetired
<1>2. DC_MOD \in Nat /\ retired < DC_MOD
  BY <1>1, TbAssumption, HostAssumption
<1>3. retired % DC_MOD = retired
  BY <1>1, <1>2
<1>4. QED
  BY <1>1, <1>3 DEF Regs!Status

(* poll_drained gives up only after more edges than there can be left.     *)
LEMMA PollStep ==
    ASSUME Ready, NEW C, NEW p \in Nat \ {0}, Fine(C, p), InLine(C), pc = "tb", TbStep,
           NEW t \in Nat, op = <<"poll", t>>, cycles \in Nat, cycles + Work(p) < t
    PROVE  /\ all_pass' /\ status' = Regs!Status
           /\ \/ Advance /\ accepted = retired
              \/ /\ step' = step /\ pc' = pc
                 /\ cycles' \in Nat /\ cycles' + (fifo_cnt' * p + Rest') < t
<1>1. RP!Inv /\ Timely /\ all_pass
  BY DEF Ready
<1>2. PollDrained /\ op[1] = "poll" /\ op[2] = t
  BY ActionOf
<1>3. status' = Regs!Status
  BY <1>2 DEF PollDrained
<1>4. drained <=> PollExit
  BY <1>3 DEF drained, PollExit
<1>5. Work(p) \in Nat /\ (Work(p) = 0 <=> PollExit)
  BY <1>1, WorkBounds
<1>6. CASE PollExit
  <2>1. Advance /\ Pass(drained)
    BY <1>2, <1>4, <1>6 DEF PollDrained
  <2>2. accepted = retired
    <3>1. RP!Outstanding = 0 /\ accepted \in Nat /\ retired \in Nat
      BY <1>1, <1>6, PollExitMeansRetired, Places
    <3>2. QED
      BY <3>1 DEF RP!Outstanding
  <2>3. QED
    BY <1>1, <1>3, <1>4, <1>6, <2>1, <2>2 DEF Pass
<1>7. CASE ~PollExit
  <2>1. cycles + 1 < t
    BY <1>5, <1>7
  <2>2. cycles' = cycles + 1 /\ step' = step /\ pc' = pc /\ all_pass' = all_pass
    BY <1>2, <1>4, <1>7, <2>1 DEF PollDrained
  <2>3. /\ Ticked(FALSE, FALSE) /\ hold' \in RP!Cmd /\ irq_en' \in BOOLEAN
    BY <1>1, <1>2, Accesses DEF PollDrained
  <2>4. Work(p)' \in Nat /\ Work(p)' < Work(p)
    BY <1>1, <1>7, <2>3, WorkDone
  <2>5. cycles' + Work(p)' < t /\ cycles' \in Nat
    BY <1>5, <2>2, <2>4
  <2>6. Work(p)' = fifo_cnt' * p + Rest'
    BY DEF Work
  <2>7. QED
    BY <1>1, <1>3, <2>2, <2>5, <2>6
<1>8. QED
  BY <1>6, <1>7

\* What is left is bounded by what is outstanding.
Bounded(p) ==
    /\ fifo_cnt * p + Rest \in Nat
    /\ \A n \in 1..5 : accepted - retired <= n => fifo_cnt * p + Rest <= n * p

(* The same bounds after a step.                                           *)
LEMMA WorkAfter ==
    ASSUME NEW C, NEW p \in Nat \ {0}
    PROVE  RP!Inv' /\ Fine(C, p)' /\ InLine(C)' /\ Timely' => Bounded(p)'
<1>1. RP!Inv /\ Fine(C, p) /\ InLine(C) /\ Timely => Bounded(p)
  BY WorkBounds DEF Work, Bounded
<1>2. QED
  BY <1>1, PTL

InPlaces ==
    /\ accepted \in Nat /\ retired \in Nat /\ fifo_cnt \in 0..4
    /\ start \in BOOLEAN /\ busy \in BOOLEAN /\ done \in BOOLEAN
    /\ ~(start /\ busy) /\ ~(start /\ done) /\ ~(busy /\ done)
    /\ accepted - retired = fifo_cnt + (IF start \/ busy \/ done THEN 1 ELSE 0)

(* Every command accepted is in one place after a step, too.               *)
LEMMA PlacesAfter == RP!Inv' => InPlaces'
<1>1. RP!Inv => InPlaces
  BY Places DEF InPlaces
<1>2. QED
  BY <1>1, PTL

(* The invariant of the block holds after a reset.                         *)
LEMMA InitAfter == RP!Init' => RP!Inv'
<1>1. RP!Init => RP!Inv
  BY RegsAssumptions, RP!InitStep
<1>2. QED
  BY <1>1, PTL

(* A price does not change while a program runs.                           *)
LEMMA SamePrice ==
    ASSUME top' = top
    PROVE  /\ \A m : Price(m)' = Price(m)
           /\ \A C, p : Fine(C, p) => Fine(C, p)'
BY DEF Price, Lag, Fine

-------------------------------------------------------------------------------
(* The tests, one by one.                                                  *)

InPowerUp == step \in 1..4 /\ Idle(0) /\ dc_before = 0

(* Resets and idle edges: nothing has been accepted yet.                   *)
LEMMA PowerUpStep ==
    ASSUME Ready, InPowerUp, StandsAt(Program[top], 0, PowerUp, 4), pc = "tb", TbStep
    PROVE  Ready' /\ Idle(0)' /\ dc_before' = 0 /\ top' = top /\ step' = step + 1
<1>1. op = PowerUp[step]
  BY DEF InPowerUp, StandsAt, op
<1>2. op = <<"rst">> \/ op = <<"tick">>
  BY <1>1, PowerUpOps DEF InPowerUp
<1>3. CASE op = <<"rst">>
  <2>1. /\ Regs!Reset /\ elapsed' = 0 /\ Advance
        /\ UNCHANGED <<bufVars, progVars, top, status, dc_before, want, all_pass>>
    BY <1>3, ActionOf DEF ResetTick
  <2>2. fifo_mem \in [0..3 -> RP!Cmd]
    BY DEF Ready, RP!Inv, RP!TypeOK
  <2>3. RP!Init'
    BY <2>1, <2>2 DEF Regs!Reset, RP!Init, Regs!ZeroCmd, RP!ZeroCmd, Regs!DP!Reset, RP!DP!Init
  <2>4. RP!Inv'
    BY <2>3, InitAfter
  <2>5. accepted' = 0 /\ retired' = 0 /\ ~busy'
    BY <2>1 DEF Regs!Reset, Regs!DP!Reset
  <2>6. QED
    BY <2>1, <2>4, <2>5 DEF Ready, Timely, Idle, InPowerUp, bufVars, Advance
<1>4. CASE op = <<"tick">>
  <2>1. op[1] = "tick"
    BY <1>4
  <2>2. /\ RP!Inv' /\ Timely' /\ top' = top /\ DOMAIN c_buf' = Slot /\ DOMAIN want' = Slot
        /\ Idle(0)'
    BY <2>1, IdleStep DEF InPowerUp
  <2>3. Advance /\ all_pass' = all_pass /\ dc_before' = dc_before
    BY <2>1, Bookkeeping
  <2>4. QED
    BY <2>2, <2>3 DEF Ready, InPowerUp, Advance
<1>5. QED
  BY <1>2, <1>3, <1>4

\* Every command is this one.
Only(c, x) == [i \in Int |-> {Asks(0, c, x)}]
Always(c) == [i \in Int |-> c]

\* One command, from the A-th on: loading and issuing it, waiting for it, and
\* comparing.
InOne(b, A, c, ms, m, t) ==
    \/ step = b + 1 /\ Idle(A)
    \/ \E k \in 1..5 : step = b + 1 + k /\ Idle(A) /\ Held(k - 1, 0, c, ms)
    \/ /\ step = b + 7 /\ accepted = A + 1 /\ A <= retired
       /\ \E x \in ms : InLine(Only(c, x)) /\ want[c] = <<w_buf[0], a_buf[0], x>>
       /\ Answered(A, Always(c))
       /\ cycles \in Nat /\ cycles + Work(Price(m)) < t
    \/ step = b + 8 /\ Idle(A + 1) /\ c_buf[c] = want[c]

(* A line of one command no dearer than p.                                 *)
LEMMA OnlyFine ==
    ASSUME NEW c, NEW m \in Nat, NEW x \in Nat, x <= m
    PROVE  Fine(Only(c, x), Price(m)) /\ Price(m) \in Nat \ {0}
BY TbAssumption DEF Fine, Only, Asks, Price, Lag

(* Every step of RunOne, and the one that leaves it, passes.               *)
LEMMA OneStep ==
    ASSUME Ready, pc = "tb", TbStep,
           NEW b \in Nat, NEW A \in Nat, NEW c \in Slot, NEW ms \in SUBSET Val, NEW m \in Nat,
           NEW t \in Nat, \A x \in ms : x \in Nat /\ x <= m, Price(m) < t,
           InOne(b, A, c, ms, m, t), StandsAt(Program[top], b, RunOne(c, ms, t), 8)
    PROVE  /\ Ready' /\ top' = top
           /\ InOne(b, A, c, ms, m, t)' \/ (step' = b + 9 /\ Idle(A + 1)')
<1> DEFINE s == RunOne(c, ms, t)
<1>1. /\ s[1] = <<"load", 0>> /\ StandsAt(s, 1, Enqueue(0, 0, c, ms), 5)
      /\ s[7] = <<"poll", t>> /\ s[8] = <<"check", c>>
  BY RunOneOps
<1> HIDE DEF s
<1>2. StandsAt(Program[top], b, s, 8)
  BY DEF s
<1>3. \A i \in 1..8 : Program[top][b + i] = s[i]
  BY <1>2 DEF StandsAt
<1>4. StandsAt(Program[top], b + 1, Enqueue(0, 0, c, ms), 5)
  BY <1>1, <1>2, StandsWithin
<1>5. RP!Inv /\ Timely /\ all_pass /\ 0 \in Slot /\ DOMAIN want = Slot /\ DOMAIN c_buf = Slot
  BY DEF Ready, Slot, QDEPTH
<1>6. CASE step = b + 1 /\ Idle(A)
  <2>1. op = <<"load", 0>>
    BY <1>1, <1>3, <1>6 DEF op
  <2>2. op[1] = "load" /\ "load" \in Looks
    BY <2>1 DEF Looks
  <2>3. /\ RP!Inv' /\ Timely' /\ top' = top /\ DOMAIN c_buf' = Slot /\ DOMAIN want' = Slot
        /\ Idle(A)'
    BY <1>6, <2>2, IdleStep
  <2>4. Advance /\ all_pass' = all_pass
    BY <2>2, Bookkeeping
  <2>5. step' = b + 1 + 1 /\ 1 \in 1..5
    BY <1>6, <2>4 DEF Advance
  <2>6. Held(1 - 1, 0, c, ms)'
    BY DEF Held
  <2>7. InOne(b, A, c, ms, m, t)'
    BY <2>3, <2>5, <2>6 DEF InOne
  <2>8. QED
    BY <1>5, <2>3, <2>4, <2>7 DEF Ready
<1>7. ASSUME NEW k \in 1..4, step = b + 1 + k, Idle(A), Held(k - 1, 0, c, ms)
      PROVE  Ready' /\ top' = top /\ InOne(b, A, c, ms, m, t)'
  <2> DEFINE C == [i \in Int |-> {}]
  <2>1. Fine(C, 0) /\ InLine(C)
    BY <1>5, <1>7, NothingInLine DEF Fine, Idle
  <2> HIDE DEF C
  <2>2. /\ op[1] = "store" /\ op[2] \in {"w", "a", "c", "m"} /\ op[3] \subseteq Val
        /\ Held(k, 0, c, ms)'
    BY <1>4, <1>5, <1>7, <2>1, EnqueueField
  <2>3. /\ RP!Inv' /\ Timely' /\ top' = top /\ DOMAIN c_buf' = Slot /\ DOMAIN want' = Slot
        /\ Idle(A)'
    BY <1>7, <2>2, IdleStep
  <2>4. Advance /\ all_pass' = all_pass
    BY <2>2, Bookkeeping
  <2>5. k + 1 \in 1..5 /\ (k + 1) - 1 = k /\ step' = b + 1 + (k + 1)
    BY <1>7, <2>4 DEF Advance
  <2>6. InOne(b, A, c, ms, m, t)'
    BY <2>2, <2>3, <2>5 DEF InOne
  <2>7. QED
    BY <1>5, <2>3, <2>4, <2>6 DEF Ready
<1>8. CASE step = b + 1 + 5 /\ Idle(A) /\ Held(5 - 1, 0, c, ms)
  <2>1. op[1] = "cmd" /\ \E x \in ms : hold = Asks(0, c, x)
    BY <1>4, <1>8, EnqueueCommand
  <2>2. PICK x \in ms : hold = Asks(0, c, x)
    BY <2>1
  <2> DEFINE C == Only(c, x)
  <2>0. PICK p \in Nat \ {0} : p = Price(m)
    BY <2>2, OnlyFine
  <2>3. Fine(C, p) /\ p \in Nat \ {0} /\ InLine(C)
    BY <1>5, <1>8, <2>0, OnlyFine, NothingInLine DEF Idle
  <2>4. accepted \in Int /\ hold \in C[accepted]
    BY <1>5, <2>2, Places DEF Only
  <2>5. /\ fifo_cnt = 0 /\ ~start /\ ~busy /\ ~done
    BY <1>5, <1>8, Places DEF Idle
  <2>6. ~Regs!fifo_full
    BY <2>5 DEF Regs!fifo_full
  <2> HIDE DEF C
  <2>7. /\ RP!Inv' /\ Timely' /\ InLine(C)' /\ top' = top /\ DOMAIN c_buf' = Slot
        /\ accepted' = accepted + 1 /\ retired' = retired + 0
        /\ w_buf' = w_buf /\ a_buf' = a_buf
        /\ want' = [want EXCEPT ![hold.c] = <<w_buf[hold.w], a_buf[hold.a], hold.m>>]
        /\ Advance /\ all_pass' = all_pass /\ Ticked(~Regs!fifo_full, FALSE)
        /\ hold' \in RP!Cmd /\ irq_en' \in BOOLEAN
    BY <2>1, <2>3, <2>4, <2>5, <2>6, CommandLine
  <2>8. DOMAIN want' = Slot /\ want'[c] = <<w_buf'[0], a_buf'[0], x>>
    BY <1>5, <2>2, <2>7 DEF Asks
  <2>9. accepted' = A + 1 /\ retired' = A /\ step' = b + 7 /\ cycles' = 0
    BY <1>8, <2>7 DEF Idle, Advance
  <2>10. Answered(A, Always(c))'
    <3>1. ~done'
      <4> DEFINE e == ~Regs!fifo_full
      <4>1. e \in BOOLEAN /\ FALSE \in BOOLEAN /\ (e => ~Regs!fifo_full) /\ Ticked(e, FALSE)
        BY <2>7 DEF Regs!fifo_full
      <4> HIDE DEF e
      <4>2. QED
        BY <1>5, <2>5, <2>7, <4>1, TickedRegs
    <3>2. \A j \in Int : ~(A <= j /\ j < A)
      OBVIOUS
    <3>3. QED
      BY <2>9, <3>1, <3>2 DEF Answered
  <2>11. cycles' \in Nat /\ cycles' + Work(Price(m))' < t
    <3>1. Fine(C, p)' /\ Price(m)' = p
      BY <2>0, <2>3, <2>7, SamePrice
    <3>2. fifo_cnt' * p + Rest' \in Nat /\ fifo_cnt' * p + Rest' <= 1 * p
      <4>1. 1 \in 1..5 /\ accepted' - retired' <= 1
        BY <2>9
      <4>2. Bounded(p)'
        BY <2>3, <2>7, <3>1, WorkAfter
      <4>3. QED
        BY <4>1, <4>2 DEF Bounded
    <3>3. Work(Price(m))' = fifo_cnt' * p + Rest'
      BY <3>1 DEF Work
    <3>4. p < t /\ p \in Nat
      BY <2>0
    <3>5. QED
      BY <2>9, <3>2, <3>3, <3>4
  <2>12. InLine(Only(c, x))'
    BY <2>7 DEF C
  <2>13. accepted' = A + 1 /\ A <= retired' /\ step' = b + 7
    BY <2>9
  <2>14. InOne(b, A, c, ms, m, t)'
    BY <2>8, <2>10, <2>11, <2>12, <2>13 DEF InOne
  <2>15. QED
    BY <1>5, <2>7, <2>8, <2>14 DEF Ready
<1>9. ASSUME NEW x \in ms, step = b + 7, accepted = A + 1, A <= retired,
             InLine(Only(c, x)), want[c] = <<w_buf[0], a_buf[0], x>>, Answered(A, Always(c)),
             cycles \in Nat, cycles + Work(Price(m)) < t
      PROVE  Ready' /\ top' = top /\ InOne(b, A, c, ms, m, t)'
  <2> DEFINE C == Only(c, x)
  <2>0. PICK p \in Nat \ {0} : p = Price(m)
    BY <1>9, OnlyFine
  <2>1. op = <<"poll", t>> /\ op[1] = "poll"
    BY <1>1, <1>3, <1>9 DEF op
  <2>2. Fine(C, p) /\ p \in Nat \ {0} /\ InLine(C) /\ cycles + Work(p) < t
    BY <1>9, <2>0, OnlyFine
  <2>3. \A j \in Int : \A y \in C[j] : y = Asks(0, c, x)
    BY DEF Only
  <2> HIDE DEF C
  <2>4. /\ all_pass'
        /\ \/ Advance /\ accepted = retired
           \/ /\ step' = step /\ pc' = pc
              /\ cycles' \in Nat /\ cycles' + (fifo_cnt' * p + Rest') < t
    BY <1>9, <2>1, <2>2, PollStep
  <2>5. /\ RP!Inv' /\ Timely' /\ InLine(C)' /\ top' = top /\ DOMAIN c_buf' = Slot
        /\ accepted' = accepted /\ retired' >= retired
        /\ accepted = retired => retired' = retired
    BY <2>1, <2>2, CalmStep
  <2>6. want' = want /\ w_buf' = w_buf /\ a_buf' = a_buf
    BY <2>1, Bookkeeping
  <2>7. Ready'
    BY <1>5, <2>4, <2>5, <2>6 DEF Ready
  <2>8. Answered(A, Always(c))'
    <3>1. Ticked(FALSE, FALSE) /\ hold' \in RP!Cmd /\ irq_en' \in BOOLEAN
      BY <1>5, <2>1, ActionOf, Accesses DEF PollDrained
    <3>6. PICK F : F = Always(c)
      OBVIOUS
    <3>2. \A j \in Int : F[j] = c
      BY <3>6 DEF Always
    <3>3. Computed(A, C, F)
      BY <1>9, <2>3, <2>6, <3>2 DEF Asks, Computed
    <3>4. Answered(A, F)
      BY <1>9, <3>6
    <3>5. Answered(A, F)'
      <4>1. FALSE \in BOOLEAN /\ (FALSE => ~Regs!fifo_full) /\ A \in Int
        OBVIOUS
      <4>2. QED
        BY <1>5, <1>9, <2>2, <3>1, <3>3, <3>4, <4>1, TickedAnswers, Zenon
    <3>7. QED
      BY <3>5, <3>6
  <2>9. CASE Advance /\ accepted = retired
    <3>1. step' = b + 8
      BY <1>9, <2>9 DEF Advance
    <3>2. Idle(A + 1)'
      BY <1>9, <2>5, <2>9 DEF Idle
    <3>3. c_buf'[c] = want'[c]
      <4>1. A \in Int /\ A < retired' + (IF done' THEN 1 ELSE 0)
        BY <3>2, <2>5, PlacesAfter DEF Idle, InPlaces
      <4>2. c_buf'[Always(c)[A]] = want'[Always(c)[A]]
        BY <2>8, <4>1 DEF Answered
      <4>3. QED
        BY <4>1, <4>2 DEF Always
    <3>4. InOne(b, A, c, ms, m, t)'
      BY <3>1, <3>2, <3>3 DEF InOne
    <3>5. QED
      BY <2>5, <2>7, <3>4
  <2>10. CASE /\ step' = step /\ pc' = pc
              /\ cycles' \in Nat /\ cycles' + (fifo_cnt' * p + Rest') < t
    <3>1. cycles' \in Nat /\ cycles' + Work(Price(m))' < t
      BY <2>0, <2>5, <2>10, SamePrice DEF Work
    <3>2. step' = b + 7 /\ accepted' = A + 1 /\ A <= retired'
      <4>1. retired \in Nat /\ retired' \in Nat
        BY <1>5, <2>5, Places, PlacesAfter DEF InPlaces
      <4>2. QED
        BY <1>9, <2>5, <2>10, <4>1
    <3>3. InLine(Only(c, x))' /\ want'[c] = <<w_buf'[0], a_buf'[0], x>>
      BY <1>9, <2>5, <2>6 DEF C
    <3>4. InOne(b, A, c, ms, m, t)'
      BY <2>8, <3>1, <3>2, <3>3 DEF InOne
    <3>5. QED
      BY <2>5, <2>7, <3>4
  <2>11. QED
    BY <2>4, <2>9, <2>10
<1>10. CASE step = b + 8 /\ Idle(A + 1) /\ c_buf[c] = want[c]
  <2>1. op = <<"check", c>>
    BY <1>1, <1>3, <1>10 DEF op
  <2>2. op[1] = "check" /\ op[2] = c /\ "check" \in Looks
    BY <2>1 DEF Looks
  <2>3. /\ RP!Inv' /\ Timely' /\ top' = top /\ DOMAIN c_buf' = Slot /\ DOMAIN want' = Slot
        /\ Idle(A + 1)'
    BY <1>10, <2>2, IdleStep
  <2>4. Advance /\ Pass(c_buf[c] = want[c])
    BY <2>2, Bookkeeping
  <2>5. step' = b + 9
    BY <1>10, <2>4 DEF Advance
  <2>6. QED
    BY <1>5, <1>10, <2>3, <2>4, <2>5 DEF Ready, Pass
<1>11. QED
  <2>1. ASSUME NEW k \in 1..5, step = b + 1 + k, Idle(A), Held(k - 1, 0, c, ms)
        PROVE  /\ Ready' /\ top' = top
               /\ InOne(b, A, c, ms, m, t)' \/ (step' = b + 9 /\ Idle(A + 1)')
    <3>1. CASE k = 5
      BY <1>8, <2>1, <3>1
    <3>2. CASE k # 5
      <4>1. k \in 1..4
        BY <3>2
      <4>2. QED
        BY <1>7, <2>1, <4>1
    <3>3. QED
      BY <3>1, <3>2
  <2>2. QED
    BY <1>6, <1>9, <1>10, <2>1 DEF InOne

(* The operations that take an edge without a store to CMD or IRQ.         *)
LEMMA PlainEdge ==
    ASSUME Ready, pc = "tb", TbStep, op[1] \in {"tick", "store", "read_irq", "status", "poll"},
           op[1] = "store" => op[2] \in {"w", "a", "c", "m"} /\ op[3] \subseteq Val
    PROVE  Ticked(FALSE, FALSE) /\ hold' \in RP!Cmd /\ irq_en' \in BOOLEAN
<1>1. RP!Inv
  BY DEF Ready
<1>2. CASE op[1] = "store"
  <2>1. PICK v \in op[3] : Store(op[2], v) /\ Timed /\ UNCHANGED <<w_buf, a_buf, top>>
    BY <1>2, ActionOf DEF MmioWrite
  <2>2. op[2] \in {"w", "a", "c", "m"} /\ v \in Val
    BY <1>2
  <2>3. QED
    BY <1>1, <2>1, <2>2, Accesses
<1>3. CASE op[1] # "store"
  <2>1. NoAccess
    BY <1>3, ActionOf DEF PlainTick, ReadIrq, ReadStatus, PollDrained
  <2>2. QED
    BY <1>1, <2>1, Accesses
<1>4. QED
  BY <1>2, <1>3

FourLine == [i \in Int |-> IF i \in 0..3 THEN {Asks(i, i, FourRows[i + 1])} ELSE {}]
Own == [i \in Int |-> i]

\* The first n commands have been accepted, each with its own regions.
Issued(n) ==
    /\ accepted = n /\ InLine(FourLine) /\ Answered(0, Own)
    /\ \A i \in 0..3 : i < n => want[i] = <<w_buf[i], a_buf[i], FourRows[i + 1]>>

InFour(b, t) ==
    /\ dc_before = 0
    /\ \/ \E i \in 1..4 : step = b + i /\ Idle(0)
       \/ \E i \in 0..3, k \in 1..5 :
             step = b + 5 * i + 4 + k /\ Issued(i) /\ Held(k - 1, i, i, {FourRows[i + 1]})
       \/ step = b + 25 /\ Issued(4)
       \/ step = b + 26 /\ Issued(4) /\ cycles \in Nat /\ cycles + Work(Price(6)) < t
       \/ /\ \E i \in 27..31 : step = b + i
          /\ Idle(4) /\ status.done_count = 4 /\ \A j \in 0..3 : c_buf[j] = want[j]

(* None of the four commands is dearer than the one of six rows.           *)
LEMMA FourFine == Fine(FourLine, Price(6)) /\ Price(6) \in Nat \ {0}
<1>1. \A i \in 0..3 : FourRows[i + 1] \in Nat /\ FourRows[i + 1] <= 6
  BY DEF FourRows
<1>2. Lag \in Nat /\ N \in Nat
  BY TbAssumption DEF Lag
<1>3. ASSUME NEW i \in Int, NEW x \in FourLine[i] PROVE x.m \in Nat /\ Price(x.m) <= Price(6)
  <2>1. i \in 0..3 /\ x = Asks(i, i, FourRows[i + 1])
    BY <1>3 DEF FourLine
  <2>2. x.m = FourRows[i + 1]
    BY <2>1 DEF Asks
  <2>3. QED
    BY <1>1, <1>2, <2>1, <2>2 DEF Price
<1>4. QED
  BY <1>2, <1>3 DEF Fine, Price

(* The commands of this test and what is expected of them.                 *)
LEMMA FourComputed ==
    ASSUME NEW n \in 0..4, Issued(n), \A i \in 0..3 : i < n => want'[i] = want[i]
    PROVE  Computed(0, FourLine, Own)
<1> SUFFICES ASSUME NEW j \in Int, 0 <= j, j < accepted
             PROVE  /\ Own[j] \in Slot /\ want'[Own[j]] = want[Own[j]]
                    /\ \A x \in FourLine[j] :
                           x.c = Own[j] /\ want[Own[j]] = <<w_buf[x.w], a_buf[x.a], x.m>>
  BY DEF Computed
<1>1. j \in 0..3 /\ j < n /\ Own[j] = j /\ j \in Slot
  BY DEF Issued, Own, Slot, QDEPTH
<1>2. \A x \in FourLine[j] : x.w = j /\ x.a = j /\ x.c = j /\ x.m = FourRows[j + 1]
  BY <1>1 DEF FourLine, Asks
<1>3. want[j] = <<w_buf[j], a_buf[j], FourRows[j + 1]>> /\ want'[j] = want[j]
  BY <1>1 DEF Issued
<1>4. QED
  BY <1>1, <1>2, <1>3

(* A step that issues nothing keeps what has been issued and answered.     *)
LEMMA IssuedQuiet ==
    ASSUME Ready, pc = "tb", TbStep, NEW n \in 0..4, Issued(n),
           op[1] \in {"store", "status", "poll"},
           op[1] = "store" => op[2] \in {"w", "a", "c", "m"} /\ op[3] \subseteq Val
    PROVE  /\ RP!Inv' /\ Timely' /\ top' = top /\ DOMAIN c_buf' = Slot /\ DOMAIN want' = Slot
           /\ Issued(n)'
           /\ accepted = retired => retired' = retired
<1>1. RP!Inv /\ Timely /\ InLine(FourLine) /\ Answered(0, Own) /\ accepted = n
      /\ DOMAIN c_buf = Slot
  BY DEF Ready, Issued
<1>2. PICK p : p = Price(6)
  OBVIOUS
<1>3. Fine(FourLine, p)
  BY <1>2, FourFine
<1>4. /\ RP!Inv' /\ Timely' /\ InLine(FourLine)' /\ top' = top /\ DOMAIN c_buf' = Slot
      /\ accepted' = accepted /\ (accepted = retired => retired' = retired)
  BY <1>1, <1>3, CalmStep
<1>5. want' = want /\ w_buf' = w_buf /\ a_buf' = a_buf
  BY Bookkeeping
<1>6. Answered(0, Own)'
  <2>1. Ticked(FALSE, FALSE) /\ hold' \in RP!Cmd /\ irq_en' \in BOOLEAN
    BY PlainEdge
  <2>2. Computed(0, FourLine, Own)
    BY <1>5, FourComputed
  <2>3. FALSE \in BOOLEAN /\ (FALSE => ~Regs!fifo_full) /\ 0 \in Int /\ 0 <= retired
    BY <1>1, Places
  <2>4. QED
    BY <1>1, <2>1, <2>2, <2>3, TickedAnswers, Zenon
<1>7. Issued(n)'
  BY <1>1, <1>4, <1>5, <1>6 DEF Issued
<1>8. QED
  BY <1>4, <1>5, <1>7 DEF Ready

(* The store to CMD issues the next of the four.                           *)
LEMMA IssuedCommand ==
    ASSUME Ready, pc = "tb", TbStep, NEW n \in 0..3, Issued(n), op[1] = "cmd",
           hold = Asks(n, n, FourRows[n + 1])
    PROVE  Ready' /\ top' = top /\ Issued(n + 1)' /\ Advance /\ dc_before' = dc_before
<1>1. RP!Inv /\ Timely /\ InLine(FourLine) /\ Answered(0, Own) /\ accepted = n
      /\ DOMAIN c_buf = Slot /\ DOMAIN want = Slot /\ retired \in Nat /\ fifo_cnt < 4
  BY Places DEF Ready, Issued
<1>2. PICK p : p = Price(6)
  OBVIOUS
<1>3. Fine(FourLine, p) /\ hold \in FourLine[accepted] /\ ~Regs!fifo_full
  BY <1>1, <1>2, FourFine DEF FourLine, Regs!fifo_full
<1>4. /\ RP!Inv' /\ Timely' /\ InLine(FourLine)' /\ top' = top /\ DOMAIN c_buf' = Slot
      /\ accepted' = accepted + 1 /\ w_buf' = w_buf /\ a_buf' = a_buf
      /\ want' = [want EXCEPT ![hold.c] = <<w_buf[hold.w], a_buf[hold.a], hold.m>>]
      /\ dc_before' = dc_before /\ Advance /\ all_pass' = all_pass
      /\ Ticked(~Regs!fifo_full, FALSE) /\ hold' \in RP!Cmd /\ irq_en' \in BOOLEAN
  BY <1>1, <1>3, CommandLine
<1>5. /\ DOMAIN want' = Slot /\ want'[n] = <<w_buf[n], a_buf[n], FourRows[n + 1]>>
      /\ \A i \in 0..3 : i < n => want'[i] = want[i]
  BY <1>1, <1>4 DEF Asks, Slot, QDEPTH
<1>6. Answered(0, Own)'
  <2> DEFINE e == ~Regs!fifo_full
  <2>1. Computed(0, FourLine, Own) /\ n \in 0..4
    BY <1>5, FourComputed
  <2>2. Ticked(e, FALSE) /\ e \in BOOLEAN /\ (e => ~Regs!fifo_full)
    BY <1>4 DEF Regs!fifo_full
  <2>3. FALSE \in BOOLEAN /\ 0 \in Int /\ 0 <= retired
    BY <1>1
  <2> HIDE DEF e
  <2>4. QED
    BY <1>1, <1>4, <2>1, <2>2, <2>3, TickedAnswers, Zenon
<1>7. \A i \in 0..3 : i < n + 1 => want'[i] = <<w_buf'[i], a_buf'[i], FourRows[i + 1]>>
  BY <1>4, <1>5 DEF Issued
<1>8. Issued(n + 1)'
  BY <1>1, <1>4, <1>6, <1>7 DEF Issued
<1>9. QED
  BY <1>4, <1>5, <1>8 DEF Ready

(* Nothing is in line, and nothing to answer, after a step that leaves the *)
(* block idle.                                                             *)
LEMMA NothingAfter ==
    ASSUME NEW C, NEW F, NEW n
    PROVE  RP!Inv' /\ Idle(n)' => InLine(C)' /\ Answered(n, F)'
<1>1. RP!Inv /\ Idle(n) => InLine(C) /\ Answered(n, F)
  <2> SUFFICES ASSUME RP!Inv, Idle(n) PROVE InLine(C) /\ Answered(n, F)
    OBVIOUS
  <2>1. accepted = n /\ retired = n /\ n \in Nat /\ ~done
    BY Places DEF Idle
  <2>2. \A j \in Int : ~(n <= j /\ j < n + 0)
    BY <2>1
  <2>3. QED
    BY <2>1, <2>2, NothingInLine DEF Answered
<1>2. QED
  BY <1>1, PTL

(* Every step of FourBackToBack passes: done_count advances by four, and   *)
(* each region holds what golden() computed for it.                        *)
LEMMA FourStep ==
    ASSUME Ready, pc = "tb", TbStep, NEW b \in Nat, NEW t \in Nat, 4 * Price(6) < t,
           InFour(b, t), StandsAt(Program[top], b, FourBackToBack(t), 31)
    PROVE  /\ Ready' /\ top' = top
           /\ InFour(b, t)' \/ (step' = b + 32 /\ Idle(4)')
<1> DEFINE s == FourBackToBack(t)
<1>1. /\ \A i \in 1..4 : s[i] = <<"load", i - 1>>
      /\ \A i \in 0..3 : StandsAt(s, 5 * i + 4, Enqueue(i, i, i, {FourRows[i + 1]}), 5)
      /\ s[25] = <<"status">> /\ s[26] = <<"poll", t>> /\ s[27] = <<"advanced", 4>>
      /\ \A i \in 0..3 : s[28 + i] = <<"check", i>>
  BY FourOps
<1> HIDE DEF s
<1>2. StandsAt(Program[top], b, s, 31)
  BY DEF s
<1>3. \A i \in 1..31 : Program[top][b + i] = s[i]
  BY <1>2 DEF StandsAt
<1>4. RP!Inv /\ Timely /\ all_pass /\ DOMAIN want = Slot /\ DOMAIN c_buf = Slot /\ dc_before = 0
  BY DEF Ready, InFour
<1>5. ASSUME NEW i \in 1..4, step = b + i, Idle(0)
      PROVE  Ready' /\ top' = top /\ InFour(b, t)'
  <2>1. op = <<"load", i - 1>> /\ op[1] = "load" /\ "load" \in Looks
    BY <1>1, <1>3, <1>5 DEF op, Looks
  <2>2. /\ RP!Inv' /\ Timely' /\ top' = top /\ DOMAIN c_buf' = Slot /\ DOMAIN want' = Slot
        /\ Idle(0)'
    BY <1>5, <2>1, IdleStep
  <2>3. Advance /\ all_pass' = all_pass /\ dc_before' = dc_before
    BY <2>1, Bookkeeping
  <2>4. step' = b + (i + 1)
    BY <1>5, <2>3 DEF Advance
  <2>5. InFour(b, t)'
    <3>1. CASE i < 4
      <4>1. i + 1 \in 1..4
        BY <3>1
      <4>2. QED
        BY <1>4, <2>2, <2>3, <2>4, <4>1 DEF InFour
    <3>2. CASE i = 4
      <4>1. step' = b + 5 * 0 + 4 + 1 /\ 0 \in 0..3 /\ 1 \in 1..5
        BY <2>4, <3>2
      <4>2. Held(1 - 1, 0, 0, {FourRows[0 + 1]})'
        BY DEF Held
      <4>3. Issued(0)'
        <5>1. InLine(FourLine)' /\ Answered(0, Own)' /\ accepted' = 0
          BY <2>2, NothingAfter DEF Idle
        <5>2. QED
          BY <5>1 DEF Issued
      <4>4. QED
        BY <1>4, <2>3, <4>1, <4>2, <4>3 DEF InFour
    <3>3. QED
      BY <3>1, <3>2
  <2>6. QED
    BY <1>4, <2>2, <2>3, <2>5 DEF Ready
<1>6. ASSUME NEW i \in 0..3
      PROVE  /\ StandsAt(Program[top], b + (5 * i + 4), Enqueue(i, i, i, {FourRows[i + 1]}), 5)
             /\ i \in Slot /\ {FourRows[i + 1]} \in SUBSET Val
  <2>1. 5 * i + 4 \in Nat /\ (5 * i + 4) + 5 <= 31
    OBVIOUS
  <2>2. StandsAt(s, 5 * i + 4, Enqueue(i, i, i, {FourRows[i + 1]}), 5)
    BY <1>1
  <2>3. StandsAt(Program[top], b + (5 * i + 4), Enqueue(i, i, i, {FourRows[i + 1]}), 5)
    BY <1>2, <2>1, <2>2, StandsWithin
  <2>4. i \in Slot /\ FourRows[i + 1] \in Val
    BY TbAssumption DEF Slot, QDEPTH, FourRows
  <2>5. QED
    BY <2>3, <2>4
<1>7. ASSUME NEW i \in 0..3, NEW k \in 1..4, step = b + 5 * i + 4 + k, Issued(i),
             Held(k - 1, i, i, {FourRows[i + 1]})
      PROVE  Ready' /\ top' = top /\ InFour(b, t)'
  <2> DEFINE d == b + (5 * i + 4)
  <2>1. d \in Nat /\ step = d + k /\ i \in 0..4
    BY <1>7
  <2>2. StandsAt(Program[top], d, Enqueue(i, i, i, {FourRows[i + 1]}), 5)
    BY <1>6
  <2> HIDE DEF d
  <2>3. Fine(FourLine, Price(6)) /\ InLine(FourLine)
    BY <1>7, FourFine DEF Issued
  <2>4. /\ op[1] = "store" /\ op[2] \in {"w", "a", "c", "m"} /\ op[3] \subseteq Val
        /\ Held(k, i, i, {FourRows[i + 1]})'
    BY <1>6, <1>7, <2>1, <2>2, <2>3, EnqueueField
  <2>5. /\ RP!Inv' /\ Timely' /\ top' = top /\ DOMAIN c_buf' = Slot /\ DOMAIN want' = Slot
        /\ Issued(i)'
    BY <1>7, <2>1, <2>4, IssuedQuiet
  <2>6. Advance /\ all_pass' = all_pass /\ dc_before' = dc_before
    BY <2>4, Bookkeeping
  <2>7. k + 1 \in 1..5 /\ (k + 1) - 1 = k /\ step' = b + 5 * i + 4 + (k + 1)
    BY <1>7, <2>6 DEF Advance
  <2>8. InFour(b, t)'
    BY <1>4, <2>4, <2>5, <2>6, <2>7 DEF InFour
  <2>9. QED
    BY <1>4, <2>5, <2>6, <2>8 DEF Ready
<1>8. ASSUME NEW i \in 0..3, step = b + 5 * i + 4 + 5, Issued(i),
             Held(5 - 1, i, i, {FourRows[i + 1]})
      PROVE  Ready' /\ top' = top /\ InFour(b, t)'
  <2> DEFINE d == b + (5 * i + 4)
  <2>1. d \in Nat /\ step = d + 5 /\ 5 - 1 = 4
    BY <1>8
  <2>2. StandsAt(Program[top], d, Enqueue(i, i, i, {FourRows[i + 1]}), 5)
    BY <1>6
  <2> HIDE DEF d
  <2>3. op[1] = "cmd" /\ hold = Asks(i, i, FourRows[i + 1])
    BY <1>8, <2>1, <2>2, EnqueueCommand
  <2>4. Ready' /\ top' = top /\ Issued(i + 1)' /\ Advance /\ dc_before' = dc_before
    BY <1>8, <2>3, IssuedCommand
  <2>5. CASE i < 3
    <3>1. i + 1 \in 0..3 /\ 1 \in 1..5 /\ step' = b + 5 * (i + 1) + 4 + 1
      BY <1>8, <2>4, <2>5 DEF Advance
    <3>2. Held(1 - 1, i + 1, i + 1, {FourRows[(i + 1) + 1]})'
      BY DEF Held
    <3>3. InFour(b, t)'
      BY <1>4, <2>4, <3>1, <3>2 DEF InFour
    <3>4. QED
      BY <2>4, <3>3
  <2>6. CASE i = 3
    <3>1. step' = b + 25 /\ i + 1 = 4
      BY <1>8, <2>4, <2>6 DEF Advance
    <3>2. InFour(b, t)'
      BY <1>4, <2>4, <3>1 DEF InFour
    <3>3. QED
      BY <2>4, <3>2
  <2>7. QED
    BY <2>5, <2>6
<1>9. PICK p \in Nat \ {0} : p = Price(6)
  BY FourFine
<1>10. CASE step = b + 25 /\ Issued(4)
  <2>1. op = <<"status">> /\ op[1] = "status"
    BY <1>1, <1>3, <1>10 DEF op
  <2>2. /\ RP!Inv' /\ Timely' /\ top' = top /\ DOMAIN c_buf' = Slot /\ DOMAIN want' = Slot
        /\ Issued(4)'
    BY <1>10, <2>1, IssuedQuiet
  <2>3. Advance /\ all_pass' = all_pass /\ dc_before' = dc_before
    BY <2>1, Bookkeeping
  <2>4. cycles' \in Nat /\ cycles' + Work(Price(6))' < t
    <3>1. Fine(FourLine, p)' /\ Price(6)' = p
      BY <1>9, <2>2, FourFine, SamePrice
    <3>2. Bounded(p)'
      BY <2>2, <3>1, WorkAfter DEF Issued
    <3>3. 4 \in 1..5 /\ accepted' - retired' <= 4
      BY <2>2, PlacesAfter DEF Issued, InPlaces
    <3>4. fifo_cnt' * p + Rest' \in Nat /\ fifo_cnt' * p + Rest' <= 4 * p
      BY <3>2, <3>3 DEF Bounded
    <3>5. cycles' = 0 /\ 4 * p < t
      BY <1>9, <2>3 DEF Advance
    <3>6. QED
      BY <3>1, <3>4, <3>5 DEF Work
  <2>5. step' = b + 26
    BY <1>10, <2>3 DEF Advance
  <2>6. InFour(b, t)'
    BY <1>4, <2>2, <2>3, <2>4, <2>5 DEF InFour
  <2>7. QED
    BY <1>4, <2>2, <2>3, <2>6 DEF Ready
<1>11. CASE step = b + 26 /\ Issued(4) /\ cycles \in Nat /\ cycles + Work(Price(6)) < t
  <2>1. op = <<"poll", t>> /\ op[1] = "poll"
    BY <1>1, <1>3, <1>11 DEF op
  <2>2. /\ RP!Inv' /\ Timely' /\ top' = top /\ DOMAIN c_buf' = Slot /\ DOMAIN want' = Slot
        /\ Issued(4)' /\ (accepted = retired => retired' = retired)
    BY <1>11, <2>1, IssuedQuiet
  <2>3. dc_before' = dc_before
    BY <2>1, Bookkeeping
  <2>4. Fine(FourLine, p) /\ InLine(FourLine) /\ cycles + Work(p) < t
    BY <1>9, <1>11, FourFine DEF Issued
  <2>5. /\ all_pass' /\ status' = Regs!Status
        /\ \/ Advance /\ accepted = retired
           \/ /\ step' = step /\ pc' = pc
              /\ cycles' \in Nat /\ cycles' + (fifo_cnt' * p + Rest') < t
    BY <1>11, <2>1, <2>4, PollStep
  <2>6. Ready'
    BY <1>4, <2>2, <2>5 DEF Ready
  <2>7. CASE Advance /\ accepted = retired
    <3>1. step' = b + 27 /\ accepted = 4 /\ retired = 4
      BY <1>11, <2>7 DEF Advance, Issued
    <3>2. Idle(4)'
      BY <2>2, <3>1 DEF Idle, Issued
    <3>3. status'.done_count = 4
      BY <1>4, <2>5, <3>1, CountRead
    <3>4. \A j \in 0..3 : c_buf'[j] = want'[j]
      <4>1. \A j \in 0..3 : j \in Int /\ 0 <= j /\ j < retired' + (IF done' THEN 1 ELSE 0)
                            /\ Own[j] = j
        BY <2>2, <3>2, PlacesAfter DEF Idle, InPlaces, Own
      <4>2. QED
        BY <2>2, <4>1 DEF Issued, Answered
    <3>5. 27 \in 27..31
      OBVIOUS
    <3>6. InFour(b, t)'
      BY <1>4, <2>3, <3>1, <3>2, <3>3, <3>4, <3>5 DEF InFour
    <3>7. QED
      BY <2>2, <2>6, <3>6
  <2>8. CASE /\ step' = step /\ pc' = pc
             /\ cycles' \in Nat /\ cycles' + (fifo_cnt' * p + Rest') < t
    <3>1. cycles' \in Nat /\ cycles' + Work(Price(6))' < t
      BY <1>9, <2>2, <2>8, SamePrice DEF Work
    <3>2. InFour(b, t)'
      BY <1>4, <1>11, <2>2, <2>3, <2>8, <3>1 DEF InFour
    <3>3. QED
      BY <2>2, <2>6, <3>2
  <2>9. QED
    BY <2>5, <2>7, <2>8
<1>12. ASSUME NEW i \in 27..31, step = b + i, Idle(4), status.done_count = 4,
              \A j \in 0..3 : c_buf[j] = want[j]
       PROVE  Ready' /\ top' = top /\ (InFour(b, t)' \/ (step' = b + 32 /\ Idle(4)'))
  <2>1. op = s[i]
    BY <1>3, <1>12 DEF op
  <2>2. \/ op[1] = "advanced" /\ op[2] = 4
        \/ op[1] = "check" /\ op[2] \in 0..3
    <3>1. CASE i = 27
      BY <1>1, <2>1, <3>1
    <3>2. CASE i # 27
      <4>1. i - 28 \in 0..3 /\ 28 + (i - 28) = i
        BY <3>2
      <4>2. op = <<"check", i - 28>>
        BY <1>1, <2>1, <4>1
      <4>3. QED
        BY <4>1, <4>2
    <3>3. QED
      BY <3>1, <3>2
  <2>3. op[1] \in Looks
    BY <2>2 DEF Looks
  <2>4. /\ RP!Inv' /\ Timely' /\ top' = top /\ DOMAIN c_buf' = Slot /\ DOMAIN want' = Slot
        /\ Idle(4)'
    BY <1>12, <2>2, <2>3, IdleStep
  <2>5. /\ Advance /\ want' = want /\ status' = status /\ dc_before' = dc_before
        /\ all_pass'
    <3>1. CASE op[1] = "advanced" /\ op[2] = 4
      <4>1. status.done_count - dc_before = 4
        BY <1>4, <1>12
      <4>2. QED
        BY <1>4, <2>3, <3>1, <4>1, Bookkeeping DEF Pass
    <3>2. CASE op[1] = "check" /\ op[2] \in 0..3
      <4>1. c_buf[op[2]] = want[op[2]]
        BY <1>12, <3>2
      <4>2. QED
        BY <1>4, <2>3, <3>2, <4>1, Bookkeeping DEF Pass
    <3>3. QED
      BY <2>2, <3>1, <3>2
  <2>6. c_buf' = c_buf
    BY <2>2, ActionOf DEF Verify, bufVars
  <2>7. step' = b + (i + 1)
    BY <1>12, <2>5 DEF Advance
  <2>8. CASE i = 31
    BY <1>4, <2>4, <2>5, <2>7, <2>8 DEF Ready
  <2>9. CASE i # 31
    <3>1. i + 1 \in 27..31
      BY <2>9
    <3>2. InFour(b, t)'
      BY <1>4, <1>12, <2>4, <2>5, <2>6, <2>7, <3>1 DEF InFour
    <3>3. QED
      BY <1>4, <2>4, <2>5, <3>2 DEF Ready
  <2>10. QED
    BY <2>8, <2>9
<1>13. QED
  <2>1. ASSUME NEW i \in 0..3, NEW k \in 1..5, step = b + 5 * i + 4 + k, Issued(i),
               Held(k - 1, i, i, {FourRows[i + 1]})
        PROVE  Ready' /\ top' = top /\ InFour(b, t)'
    <3>1. CASE k = 5
      BY <1>8, <2>1, <3>1
    <3>2. CASE k # 5
      <4>1. k \in 1..4
        BY <3>2
      <4>2. QED
        BY <1>7, <2>1, <4>1
    <3>3. QED
      BY <3>1, <3>2
  <2>2. QED
    BY <1>5, <1>10, <1>11, <1>12, <2>1 DEF InFour

\* The long command first, then short ones.
FullLine(A, m) == [i \in Int |-> {Asks(0, 0, IF i = A THEN m ELSE 1)}]

\* j operations into the test the long command is on its way, and far from its
\* end: all others are behind it.
Ahead(A, j) ==
    /\ retired = A
    /\ \/ j = 7 /\ fifo_cnt = 1 /\ ~start /\ ~busy /\ ~done
       \/ j = 8 /\ start
       \/ j >= 9 /\ busy /\ elapsed <= j - 9

Queued(A, m, n, j) == accepted = A + n /\ InLine(FullLine(A, m)) /\ Ahead(A, j)

(* What the queue holds behind the long command.                           *)
LEMMA QueuedBehind ==
    ASSUME RP!Inv, NEW A \in Nat, NEW m, NEW n \in 1..5, NEW j \in 7..36, Queued(A, m, n, j)
    PROVE  /\ n = 5 /\ j >= 8 => Regs!fifo_full
           /\ n < 5 => ~Regs!fifo_full
           /\ accepted \in Nat /\ retired = A /\ fifo_cnt \in 0..4
BY Places DEF Queued, Ahead, Regs!fifo_full

(* The datapath takes the long command and keeps it: no edge of this test  *)
(* comes late enough for it to finish.                                     *)
LEMMA AheadEdge ==
    ASSUME Ready, NEW A \in Nat, NEW m \in Nat, 200 <= m, NEW n \in 1..5, NEW j \in 7..35,
           Queued(A, m, n, j), NEW e \in BOOLEAN, e => ~Regs!fifo_full, Ticked(e, FALSE),
           hold' \in RP!Cmd, irq_en' \in BOOLEAN
    PROVE  Ahead(A, j + 1)'
<1>1. RP!Inv /\ Timely /\ FALSE \in BOOLEAN
  BY DEF Ready
<1>2. /\ accepted \in Nat /\ retired \in Nat /\ fifo_cnt \in 0..4
      /\ start \in BOOLEAN /\ busy \in BOOLEAN /\ done \in BOOLEAN
      /\ ~(start /\ busy) /\ ~(start /\ done) /\ ~(busy /\ done)
      /\ accepted - retired = fifo_cnt + (IF start \/ busy \/ done THEN 1 ELSE 0)
  BY <1>1, Places
<1>3. /\ retired' = retired + (IF done THEN 1 ELSE 0)
      /\ start' <=> ~busy /\ ~start /\ fifo_cnt # 0
      /\ start => busy' /\ ~done'
  BY <1>1, TickedRegs
<1>4. /\ elapsed' = IF busy THEN elapsed + 1 ELSE 0
      /\ busy /\ ~busy' => elapsed >= Latency
  BY DEF Ticked, Timed, TakesTime
<1>5. retired = A /\ elapsed \in Nat
  BY <1>1 DEF Queued, Ahead, Timely
<1>6. CASE j = 7 /\ fifo_cnt = 1 /\ ~start /\ ~busy /\ ~done
  <2>1. retired' = A /\ start' /\ j + 1 = 8
    BY <1>2, <1>3, <1>5, <1>6
  <2>2. QED
    BY <2>1 DEF Ahead
<1>7. CASE j = 8 /\ start
  <2>1. retired' = A /\ busy' /\ elapsed' = 0 /\ j + 1 >= 9 /\ 0 <= (j + 1) - 9
    BY <1>2, <1>3, <1>4, <1>5, <1>7
  <2>2. QED
    BY <2>1 DEF Ahead
<1>8. CASE j >= 9 /\ busy /\ elapsed <= j - 9
  <2>1. retired' = A /\ elapsed' = elapsed + 1
    BY <1>2, <1>3, <1>4, <1>5, <1>8
  <2>2. accepted - fifo_cnt - 1 = A /\ A \in Int
    BY <1>2, <1>5, <1>8
  <2>3. cmd \in FullLine(A, m)[A]
    BY <1>8, <2>2 DEF Queued, InLine
  <2>4. cmd.m = m
    BY <2>2, <2>3 DEF FullLine, Asks
  <2>5. Latency >= 200
    BY <2>4, TbAssumption DEF Latency
  <2>6. elapsed < 27
    BY <1>5, <1>8
  <2>7. busy'
    <3>1. Latency \in Nat
      BY <2>4, TbAssumption DEF Latency
    <3>2. QED
      BY <1>4, <1>5, <1>8, <2>5, <2>6, <3>1
  <2>8. j + 1 >= 9 /\ elapsed' <= (j + 1) - 9
    BY <1>5, <1>8, <2>1
  <2>9. QED
    BY <2>1, <2>7, <2>8 DEF Ahead
<1>9. QED
  BY <1>6, <1>7, <1>8 DEF Queued, Ahead

(* No command of this test is dearer than the long one.                    *)
LEMMA FullFine ==
    ASSUME NEW A, NEW m \in Nat, 200 <= m
    PROVE  Fine(FullLine(A, m), Price(m)) /\ Price(m) \in Nat \ {0}
BY TbAssumption DEF Fine, FullLine, Asks, Price, Lag

(* An edge without a store to CMD keeps the long command ahead.            *)
LEMMA QueuedQuiet ==
    ASSUME Ready, pc = "tb", TbStep, NEW A \in Nat, NEW m \in Nat, 200 <= m,
           NEW n \in 1..5, NEW j \in 7..35, Queued(A, m, n, j), op[1] \in {"store", "status"},
           op[1] = "store" => op[2] \in {"w", "a", "c", "m"} /\ op[3] \subseteq Val
    PROVE  /\ Ready' /\ top' = top /\ Queued(A, m, n, j + 1)'
           /\ Advance /\ dc_before' = dc_before
<1>1. RP!Inv /\ InLine(FullLine(A, m)) /\ accepted = A + n
  BY DEF Ready, Queued
<1>2. PICK p : p = Price(m)
  OBVIOUS
<1>3. Fine(FullLine(A, m), p)
  BY <1>2, FullFine
<1>4. PICK C : C = FullLine(A, m)
  OBVIOUS
<1>5. /\ RP!Inv' /\ Timely' /\ InLine(C)' /\ top' = top /\ DOMAIN c_buf' = Slot
      /\ accepted' = accepted
  BY <1>1, <1>3, <1>4, CalmStep
<1>6. want' = want /\ Advance /\ dc_before' = dc_before /\ all_pass' = all_pass
  BY Bookkeeping
<1>7. Ahead(A, j + 1)'
  <2>1. Ticked(FALSE, FALSE) /\ hold' \in RP!Cmd /\ irq_en' \in BOOLEAN
    BY PlainEdge
  <2>2. FALSE \in BOOLEAN /\ (FALSE => ~Regs!fifo_full)
    OBVIOUS
  <2>3. QED
    BY <2>1, <2>2, AheadEdge, Zenon
<1>8. Queued(A, m, n, j + 1)'
  BY <1>1, <1>4, <1>5, <1>7 DEF Queued
<1>9. QED
  BY <1>5, <1>6, <1>8 DEF Ready

(* A CMD store of this test is accepted as long as the queue has room.     *)
LEMMA QueuedCommand ==
    ASSUME Ready, pc = "tb", TbStep, NEW A \in Nat, NEW m \in Nat, 200 <= m,
           NEW n \in 1..5, NEW j \in 8..35, Queued(A, m, n, j), op[1] = "cmd",
           hold = Asks(0, 0, 1)
    PROVE  /\ Ready' /\ top' = top /\ Queued(A, m, IF n = 5 THEN 5 ELSE n + 1, j + 1)'
           /\ Advance /\ dc_before' = dc_before
<1>1. RP!Inv /\ InLine(FullLine(A, m)) /\ accepted = A + n
  BY DEF Ready, Queued
<1>2. PICK p : p = Price(m)
  OBVIOUS
<1>3. PICK C : C = FullLine(A, m)
  OBVIOUS
<1>4. Fine(C, p) /\ InLine(C)
  BY <1>1, <1>2, <1>3, FullFine
<1>5. hold \in C[accepted]
  BY <1>1, <1>3 DEF FullLine
<1>6. PICK k : k = IF n = 5 THEN 5 ELSE n + 1
  OBVIOUS
<1>7. Regs!fifo_full <=> n = 5
  BY <1>1, QueuedBehind
<1>8. /\ RP!Inv' /\ Timely' /\ InLine(C)' /\ top' = top /\ DOMAIN c_buf' = Slot
      /\ accepted' = accepted + (IF Regs!fifo_full THEN 0 ELSE 1)
      /\ want' = [want EXCEPT ![hold.c] = <<w_buf[hold.w], a_buf[hold.a], hold.m>>]
      /\ dc_before' = dc_before /\ Advance /\ all_pass' = all_pass
      /\ Ticked(~Regs!fifo_full, FALSE) /\ hold' \in RP!Cmd /\ irq_en' \in BOOLEAN
  BY <1>4, <1>5, CommandLine
<1>9. accepted' = A + k
  BY <1>1, <1>6, <1>7, <1>8
<1>10. Ahead(A, j + 1)'
  <2> DEFINE e == ~Regs!fifo_full
  <2>1. Ticked(e, FALSE) /\ e \in BOOLEAN /\ (e => ~Regs!fifo_full)
    BY <1>8 DEF Regs!fifo_full
  <2>2. j \in 7..35
    OBVIOUS
  <2> HIDE DEF e
  <2>3. QED
    BY <1>8, <2>1, <2>2, AheadEdge, Zenon
<1>11. DOMAIN want' = Slot
  BY <1>8 DEF Ready
<1>12. Queued(A, m, k, j + 1)'
  BY <1>3, <1>8, <1>9, <1>10 DEF Queued
<1>13. QED
  BY <1>6, <1>8, <1>11, <1>12 DEF Ready

\* The queue filled up behind a long command, from the A-th command on.
InFull(b, A, m, t) ==
    \/ step = b + 1 /\ Idle(A)
    \/ \E k \in 1..5 : step = b + 1 + k /\ Idle(A) /\ Held(k - 1, 0, 0, {m})
    \/ \E i \in 0..3, k \in 1..5 :
          /\ step = b + 5 * i + 6 + k /\ Queued(A, m, i + 1, 5 * i + 6 + k)
          /\ Held(k - 1, 0, 0, {1})
    \/ step = b + 27 /\ Queued(A, m, 5, 27)
    \/ \E j \in 28..29 : /\ step = b + j /\ Queued(A, m, 5, j)
                         /\ status.qfull /\ status.done_count = A
    \/ /\ \E k \in 1..5 : step = b + 29 + k /\ Queued(A, m, 5, 29 + k) /\ Held(k - 1, 0, 0, {1})
       /\ dc_before = A
    \/ step = b + 35 /\ Queued(A, m, 5, 35) /\ dc_before = A
    \/ step = b + 36 /\ Queued(A, m, 5, 36) /\ dc_before = A /\ status.qfull
    \/ /\ step = b + 37 /\ dc_before = A
       /\ accepted = A + 5 /\ A <= retired /\ InLine(FullLine(A, m))
       /\ cycles \in Nat /\ cycles + Work(Price(m)) < t
    \/ step = b + 38 /\ Idle(A + 5) /\ dc_before = A /\ status.done_count = A + 5

(* Issuing the long command.                                               *)
LEMMA FullIssue ==
    ASSUME Ready, pc = "tb", TbStep,
           NEW b \in Nat, NEW A \in Nat, NEW m \in Val, m \in Nat, 200 <= m, NEW t \in Nat,
           InFull(b, A, m, t), StandsAt(Program[top], b, QueueFull(m, t), 38), step <= b + 6
    PROVE  Ready' /\ top' = top /\ InFull(b, A, m, t)'
<1> DEFINE s == QueueFull(m, t)
<1>1. s[1] = <<"load", 0>> /\ StandsAt(s, 1, Enqueue(0, 0, 0, {m}), 5)
  BY FullOps DEF FullAre
<1> HIDE DEF s
<1>2. StandsAt(Program[top], b, s, 38)
  BY DEF s
<1>3. Program[top][b + 1] = s[1]
  BY <1>2 DEF StandsAt
<1>4. StandsAt(Program[top], b + 1, Enqueue(0, 0, 0, {m}), 5)
  BY <1>1, <1>2, StandsWithin
<1>5. RP!Inv /\ Timely /\ all_pass /\ 0 \in Slot /\ DOMAIN want = Slot /\ {m} \in SUBSET Val
  BY DEF Ready, Slot, QDEPTH
<1>6. CASE step = b + 1 /\ Idle(A)
  <2>1. op = <<"load", 0>>
    BY <1>1, <1>3, <1>6 DEF op
  <2>2. op[1] = "load" /\ "load" \in Looks
    BY <2>1 DEF Looks
  <2>3. /\ RP!Inv' /\ Timely' /\ top' = top /\ DOMAIN c_buf' = Slot /\ DOMAIN want' = Slot
        /\ Idle(A)'
    BY <1>6, <2>2, IdleStep
  <2>4. Advance /\ all_pass' = all_pass
    BY <2>2, Bookkeeping
  <2>5. step' = b + 1 + 1 /\ 1 \in 1..5
    BY <1>6, <2>4 DEF Advance
  <2>6. Held(1 - 1, 0, 0, {m})'
    BY DEF Held
  <2>7. InFull(b, A, m, t)'
    BY <2>3, <2>5, <2>6 DEF InFull
  <2>8. QED
    BY <1>5, <2>3, <2>4, <2>7 DEF Ready
<1>7. ASSUME NEW k \in 1..4, step = b + 1 + k, Idle(A), Held(k - 1, 0, 0, {m})
      PROVE  Ready' /\ top' = top /\ InFull(b, A, m, t)'
  <2> DEFINE C == [i \in Int |-> {}]
  <2>1. Fine(C, 0) /\ InLine(C)
    BY <1>5, <1>7, NothingInLine DEF Fine, Idle
  <2> HIDE DEF C
  <2>2. /\ op[1] = "store" /\ op[2] \in {"w", "a", "c", "m"} /\ op[3] \subseteq Val
        /\ Held(k, 0, 0, {m})'
    BY <1>4, <1>5, <1>7, <2>1, EnqueueField
  <2>3. /\ RP!Inv' /\ Timely' /\ top' = top /\ DOMAIN c_buf' = Slot /\ DOMAIN want' = Slot
        /\ Idle(A)'
    BY <1>7, <2>2, IdleStep
  <2>4. Advance /\ all_pass' = all_pass
    BY <2>2, Bookkeeping
  <2>5. k + 1 \in 1..5 /\ (k + 1) - 1 = k /\ step' = b + 1 + (k + 1)
    BY <1>7, <2>4 DEF Advance
  <2>6. InFull(b, A, m, t)'
    BY <2>2, <2>3, <2>5 DEF InFull
  <2>7. QED
    BY <1>5, <2>3, <2>4, <2>6 DEF Ready
<1>8. CASE step = b + 1 + 5 /\ Idle(A) /\ Held(5 - 1, 0, 0, {m})
  <2>1. op[1] = "cmd" /\ hold = Asks(0, 0, m)
    BY <1>4, <1>8, EnqueueCommand
  <2>2. PICK p : p = Price(m)
    OBVIOUS
  <2>3. PICK C : C = FullLine(A, m)
    OBVIOUS
  <2>4. Fine(C, p) /\ InLine(C)
    BY <1>5, <1>8, <2>2, <2>3, FullFine, NothingInLine DEF Idle
  <2>5. hold \in C[accepted]
    BY <1>8, <2>1, <2>3 DEF FullLine, Idle
  <2>6. fifo_cnt = 0 /\ ~start /\ ~busy /\ ~done
    BY <1>5, <1>8, Places DEF Idle
  <2>7. ~Regs!fifo_full
    BY <2>6 DEF Regs!fifo_full
  <2>8. /\ RP!Inv' /\ Timely' /\ InLine(C)' /\ top' = top /\ DOMAIN c_buf' = Slot
        /\ accepted' = accepted + 1 /\ retired' = retired + 0
        /\ want' = [want EXCEPT ![hold.c] = <<w_buf[hold.w], a_buf[hold.a], hold.m>>]
        /\ Advance /\ all_pass' = all_pass /\ Ticked(~Regs!fifo_full, FALSE)
        /\ hold' \in RP!Cmd /\ irq_en' \in BOOLEAN
    BY <2>1, <2>4, <2>5, <2>6, <2>7, CommandLine
  <2>9. accepted' = A + 1 /\ retired' = A /\ step' = b + 7
    BY <1>8, <2>8 DEF Idle, Advance
  <2>10. fifo_cnt' = 1 /\ ~start' /\ ~busy' /\ ~done'
    <3> DEFINE e == ~Regs!fifo_full
    <3>1. e /\ e \in BOOLEAN /\ FALSE \in BOOLEAN /\ (e => ~Regs!fifo_full) /\ Ticked(e, FALSE)
      BY <2>7, <2>8 DEF Regs!fifo_full
    <3> HIDE DEF e
    <3>2. /\ fifo_cnt' = fifo_cnt + (IF e THEN 1 ELSE 0) - (IF start' THEN 1 ELSE 0)
          /\ start' <=> ~busy /\ ~start /\ fifo_cnt # 0
          /\ busy' => start \/ busy
          /\ done' <=> busy /\ ~busy'
      BY <1>5, <2>8, <3>1, TickedRegs
    <3>3. ~start' /\ ~busy' /\ ~done'
      BY <2>6, <3>2
    <3>4. QED
      BY <2>6, <3>1, <3>2, <3>3
  <2>11. Queued(A, m, 0 + 1, 5 * 0 + 6 + 1)'
    BY <2>3, <2>8, <2>9, <2>10 DEF Queued, Ahead
  <2>12. Held(1 - 1, 0, 0, {1})'
    BY DEF Held
  <2>13. 0 \in 0..3 /\ 1 \in 1..5 /\ step' = b + 5 * 0 + 6 + 1
    BY <2>9
  <2>14. InFull(b, A, m, t)'
    BY <2>11, <2>12, <2>13 DEF InFull
  <2>15. QED
    BY <1>5, <2>8, <2>14 DEF Ready
<1>9. QED
  <2>1. \/ step = b + 1 /\ Idle(A)
        \/ \E k \in 1..5 : step = b + 1 + k /\ Idle(A) /\ Held(k - 1, 0, 0, {m})
    BY DEF InFull
  <2>2. ASSUME NEW k \in 1..5, step = b + 1 + k, Idle(A), Held(k - 1, 0, 0, {m})
        PROVE  Ready' /\ top' = top /\ InFull(b, A, m, t)'
    <3>1. CASE k = 5
      BY <1>8, <2>2, <3>1
    <3>2. CASE k # 5
      <4>1. k \in 1..4
        BY <3>2
      <4>2. QED
        BY <1>7, <2>2, <4>1
    <3>3. QED
      BY <3>1, <3>2
  <2>3. QED
    BY <1>6, <2>1, <2>2

(* One step of issuing a short one: four find room, the fifth does not.    *)
LEMMA FullFill ==
    ASSUME Ready, pc = "tb", TbStep,
           NEW b \in Nat, NEW A \in Nat, NEW m \in Val, m \in Nat, 200 <= m, NEW t \in Nat,
           StandsAt(Program[top], b, QueueFull(m, t), 38),
           NEW i \in 0..4, NEW k \in 1..5, NEW d \in Nat, d = IF i = 4 THEN 29 ELSE 5 * i + 6,
           step = b + d + k, Queued(A, m, i + 1, d + k), Held(k - 1, 0, 0, {1})
    PROVE  /\ Ready' /\ top' = top /\ Advance /\ dc_before' = dc_before
           /\ k < 5 => Queued(A, m, i + 1, d + k + 1)' /\ Held(k, 0, 0, {1})'
           /\ k = 5 => Queued(A, m, IF i = 4 THEN 5 ELSE i + 2, d + k + 1)'
<1> DEFINE s == QueueFull(m, t)
<1>1. /\ \A x \in 0..3 : StandsAt(s, 5 * x + 6, Enqueue(0, 0, 0, {1}), 5)
      /\ StandsAt(s, 29, Enqueue(0, 0, 0, {1}), 5)
  BY FullOps DEF FullAre
<1> HIDE DEF s
<1>2. StandsAt(Program[top], b, s, 38)
  BY DEF s
<1>3. StandsAt(Program[top], b + d, Enqueue(0, 0, 0, {1}), 5)
  <2>1. d + 5 <= 38 /\ (i # 4 => i \in 0..3)
    OBVIOUS
  <2>2. StandsAt(s, d, Enqueue(0, 0, 0, {1}), 5)
    BY <1>1, <2>1
  <2>3. QED
    BY <1>2, <2>1, <2>2, StandsWithin
<1>4. 0 \in Slot /\ {1} \in SUBSET Val /\ b + d \in Nat /\ step = (b + d) + k
      /\ i + 1 \in 1..5 /\ d + k \in 7..35
  BY TbAssumption DEF Slot, QDEPTH
<1>5. PICK g \in Nat : g = b + d
  BY <1>4
<1>6. CASE k < 5
  <2>1. PICK C : C = FullLine(A, m)
    OBVIOUS
  <2>2. PICK p : p = Price(m)
    OBVIOUS
  <2>3. Fine(C, p) /\ InLine(C) /\ k \in 1..4 /\ step = g + k
    BY <1>4, <1>5, <1>6, <2>1, <2>2, FullFine DEF Queued
  <2>4. /\ op[1] = "store" /\ op[2] \in {"w", "a", "c", "m"} /\ op[3] \subseteq Val
        /\ Held(k, 0, 0, {1})'
    BY <1>3, <1>4, <1>5, <2>3, EnqueueField
  <2>5. PICK j \in 7..35 : j = d + k
    BY <1>4
  <2>6. /\ Ready' /\ top' = top /\ Queued(A, m, i + 1, j + 1)'
        /\ Advance /\ dc_before' = dc_before
    BY <1>4, <2>4, <2>5, QueuedQuiet
  <2>7. QED
    BY <1>6, <2>4, <2>5, <2>6
<1>7. CASE k = 5
  <2>1. op[1] = "cmd" /\ hold = Asks(0, 0, 1)
    BY <1>3, <1>4, <1>5, <1>7, EnqueueCommand
  <2>2. PICK j \in 8..35 : j = d + k
    BY <1>4, <1>7
  <2>3. PICK n \in 1..5 : n = i + 1
    BY <1>4
  <2>4. /\ Ready' /\ top' = top /\ Queued(A, m, IF n = 5 THEN 5 ELSE n + 1, j + 1)'
        /\ Advance /\ dc_before' = dc_before
    BY <2>1, <2>2, <2>3, QueuedCommand
  <2>5. (IF n = 5 THEN 5 ELSE n + 1) = (IF i = 4 THEN 5 ELSE i + 2) /\ j + 1 = d + k + 1
    BY <2>2, <2>3
  <2>6. QED
    BY <1>7, <2>4, <2>5
<1>8. QED
  BY <1>6, <1>7

\* The checks on the full queue take no edge; the long command is the further
\* from its end.
LEMMA QueuedStill ==
    ASSUME Ready, pc = "tb", TbStep, NEW A \in Nat, NEW m, NEW j \in 9..36,
           Queued(A, m, 5, j), op[1] \in {"full", "save"}, status.qfull
    PROVE  /\ Ready' /\ top' = top /\ Queued(A, m, 5, j + 1)' /\ Advance /\ status' = status
           /\ accepted' = A + 5 /\ retired' = A /\ InLine(FullLine(A, m))'
           /\ op[1] = "save" => dc_before' = status.done_count
           /\ op[1] = "full" => dc_before' = dc_before
<1>1. PICK C : C = FullLine(A, m)
  OBVIOUS
<1>2. UNCHANGED <<regVars, top, elapsed, c_buf>> /\ op[1] \in Looks
  BY ActionOf DEF Verify, Save, bufVars, Looks
<1>3. InLine(C)
  BY <1>1 DEF Queued
<1>4. /\ RP!Inv' /\ Timely' /\ InLine(C)' /\ top' = top /\ DOMAIN c_buf' = Slot
      /\ accepted' = accepted /\ retired' = retired
  BY <1>2, <1>3, StillCalm
<1>5. /\ want' = want /\ Advance /\ status' = status /\ all_pass'
      /\ op[1] = "save" => dc_before' = status.done_count
      /\ op[1] = "full" => dc_before' = dc_before
  BY <1>2, Bookkeeping DEF Ready, Pass
<1>6. accepted = A + 5 /\ retired = A /\ busy /\ elapsed <= j - 9 /\ elapsed \in Nat
  BY DEF Queued, Ahead, Ready, Timely
<1>7. Ahead(A, j + 1)'
  <2>1. busy' /\ elapsed' = elapsed /\ retired' = A
    BY <1>2, <1>4, <1>6 DEF regVars
  <2>2. j + 1 >= 9 /\ elapsed' <= (j + 1) - 9
    BY <1>6, <2>1
  <2>3. QED
    BY <2>1, <2>2 DEF Ahead
<1>8. Queued(A, m, 5, j + 1)'
  BY <1>1, <1>4, <1>6, <1>7 DEF Queued
<1>9. QED
  BY <1>1, <1>4, <1>5, <1>6, <1>8 DEF Ready

(* Every step of QueueFull passes: STATUS shows the queue full, before and *)
(* after the store that is dropped, and done_count advances by five.       *)
LEMMA FullStep ==
    ASSUME Ready, pc = "tb", TbStep,
           NEW b \in Nat, NEW A \in Nat, A < 7, NEW m \in Val, m \in Nat, 200 <= m, NEW t \in Nat,
           5 * Price(m) < t, InFull(b, A, m, t), StandsAt(Program[top], b, QueueFull(m, t), 38)
    PROVE  /\ Ready' /\ top' = top
           /\ InFull(b, A, m, t)' \/ (step' = b + 39 /\ Idle(A + 5)')
<1> DEFINE s == QueueFull(m, t)
<1>1. /\ s[27] = <<"status">> /\ s[28] = <<"full">> /\ s[29] = <<"save">>
      /\ s[35] = <<"status">> /\ s[36] = <<"full">>
      /\ s[37] = <<"poll", t>> /\ s[38] = <<"advanced", 5>>
  <2>1. FullAre(s, m, t)
    BY FullOps
  <2> HIDE DEF s
  <2>2. QED
    BY <2>1 DEF FullAre
<1> HIDE DEF s
<1>2. \A i \in 1..38 : Program[top][b + i] = s[i]
  BY DEF s, StandsAt
<1>3. RP!Inv /\ Timely /\ all_pass /\ DOMAIN want = Slot /\ DOMAIN c_buf = Slot
  BY DEF Ready
<1>4. PICK p \in Nat \ {0} : p = Price(m)
  BY FullFine
<1>5. CASE step <= b + 6
  BY <1>5, FullIssue
<1>6. ASSUME NEW i \in 0..3, NEW k \in 1..5, step = b + 5 * i + 6 + k,
             Queued(A, m, i + 1, 5 * i + 6 + k), Held(k - 1, 0, 0, {1})
      PROVE  Ready' /\ top' = top /\ InFull(b, A, m, t)'
  <2>1. PICK d \in Nat : d = 5 * i + 6
    OBVIOUS
  <2>2. i \in 0..4 /\ d = (IF i = 4 THEN 29 ELSE 5 * i + 6) /\ step = b + d + k
        /\ Queued(A, m, i + 1, d + k)
    BY <1>6, <2>1
  <2>3. /\ Ready' /\ top' = top /\ Advance
        /\ k < 5 => Queued(A, m, i + 1, d + k + 1)' /\ Held(k, 0, 0, {1})'
        /\ k = 5 => Queued(A, m, IF i = 4 THEN 5 ELSE i + 2, d + k + 1)'
    BY <1>6, <2>2, FullFill, SMTT(20)
  <2>4. step' = b + d + k + 1
    BY <2>2, <2>3 DEF Advance
  <2>5. CASE k < 5
    <3>1. PICK l \in 1..5 : l = k + 1
      BY <2>5
    <3>2. /\ step' = b + 5 * i + 6 + l /\ 5 * i + 6 + l = d + k + 1 /\ l - 1 = k
      BY <2>1, <2>4, <3>1
    <3>3. Queued(A, m, i + 1, 5 * i + 6 + l)' /\ Held(l - 1, 0, 0, {1})'
      BY <2>3, <2>5, <3>2
    <3>4. InFull(b, A, m, t)'
      BY <3>2, <3>3 DEF InFull
    <3>5. QED
      BY <2>3, <3>4
  <2>6. CASE k = 5 /\ i < 3
    <3>1. PICK l \in 0..3 : l = i + 1
      BY <2>6
    <3>2. /\ step' = b + 5 * l + 6 + 1 /\ 5 * l + 6 + 1 = d + k + 1 /\ 1 \in 1..5
          /\ l + 1 = IF i = 4 THEN 5 ELSE i + 2
      BY <2>1, <2>4, <2>6, <3>1
    <3>3. Queued(A, m, l + 1, 5 * l + 6 + 1)'
      BY <2>3, <2>6, <3>2
    <3>4. Held(1 - 1, 0, 0, {1})'
      BY DEF Held
    <3>5. InFull(b, A, m, t)'
      BY <3>2, <3>3, <3>4 DEF InFull
    <3>6. QED
      BY <2>3, <3>5
  <2>7. CASE k = 5 /\ i = 3
    <3>1. step' = b + 27 /\ d + k + 1 = 27 /\ (IF i = 4 THEN 5 ELSE i + 2) = 5
      BY <2>1, <2>4, <2>7
    <3>2. Queued(A, m, 5, 27)'
      BY <2>3, <2>7, <3>1
    <3>3. InFull(b, A, m, t)'
      BY <3>1, <3>2 DEF InFull
    <3>4. QED
      BY <2>3, <3>3
  <2>8. QED
    BY <2>5, <2>6, <2>7
<1>7. CASE step = b + 27 /\ Queued(A, m, 5, 27)
  <2>1. op = <<"status">> /\ op[1] = "status"
    BY <1>1, <1>2, <1>7 DEF op
  <2>2. 27 \in 7..35 /\ 27 \in 7..36 /\ 5 \in 1..5
    OBVIOUS
  <2>3. Ready' /\ top' = top /\ Queued(A, m, 5, 27 + 1)' /\ Advance
    BY <1>7, <2>1, <2>2, QueuedQuiet
  <2>4. Regs!fifo_full /\ retired = A
    BY <1>3, <1>7, <2>2, QueuedBehind
  <2>5. status'.qfull /\ status'.done_count = A
    <3>1. status' = Regs!Status
      BY <2>1, Bookkeeping
    <3>2. Regs!Status.done_count = retired
      BY <1>3, <2>4, CountRead
    <3>3. QED
      BY <2>4, <3>1, <3>2 DEF Regs!Status
  <2>6. step' = b + 28 /\ 28 \in 28..29 /\ 27 + 1 = 28
    BY <1>7, <2>3 DEF Advance
  <2>7. InFull(b, A, m, t)'
    BY <2>3, <2>5, <2>6 DEF InFull
  <2>8. QED
    BY <2>3, <2>7
<1>8. CASE step = b + 28 /\ Queued(A, m, 5, 28) /\ status.qfull /\ status.done_count = A
  <2>1. op = <<"full">> /\ op[1] \in {"full", "save"}
    BY <1>1, <1>2, <1>8 DEF op
  <2>2. 28 \in 9..36 /\ 29 \in 28..29 /\ 28 + 1 = 29
    OBVIOUS
  <2>3. Ready' /\ top' = top /\ Queued(A, m, 5, 29)' /\ Advance /\ status' = status
    BY <1>8, <2>1, <2>2, QueuedStill
  <2>4. step' = b + 29
    BY <1>8, <2>3 DEF Advance
  <2>5. InFull(b, A, m, t)'
    BY <1>8, <2>2, <2>3, <2>4 DEF InFull
  <2>6. QED
    BY <2>3, <2>5
<1>9. CASE step = b + 29 /\ Queued(A, m, 5, 29) /\ status.qfull /\ status.done_count = A
  <2>1. op = <<"save">> /\ op[1] \in {"full", "save"} /\ op[1] = "save"
    BY <1>1, <1>2, <1>9 DEF op
  <2>2. 29 \in 9..36 /\ 29 + 1 = 30
    OBVIOUS
  <2>3. /\ Ready' /\ top' = top /\ Queued(A, m, 5, 30)' /\ Advance
        /\ dc_before' = status.done_count
    BY <1>9, <2>1, <2>2, QueuedStill
  <2>4. step' = b + 29 + 1 /\ 1 \in 1..5 /\ 29 + 1 = 30 /\ dc_before' = A
    BY <1>9, <2>3 DEF Advance
  <2>5. Held(1 - 1, 0, 0, {1})'
    BY DEF Held
  <2>6. InFull(b, A, m, t)'
    BY <2>3, <2>4, <2>5 DEF InFull
  <2>7. QED
    BY <2>3, <2>6
<1>10. ASSUME NEW k \in 1..5, step = b + 29 + k, Queued(A, m, 5, 29 + k), Held(k - 1, 0, 0, {1}),
              dc_before = A
       PROVE  Ready' /\ top' = top /\ InFull(b, A, m, t)'
  <2>1. PICK d \in Nat : d = 29
    OBVIOUS
  <2>2. PICK i \in 0..4 : i = 4
    OBVIOUS
  <2>3. /\ d = (IF i = 4 THEN 29 ELSE 5 * i + 6) /\ step = b + d + k
        /\ Queued(A, m, i + 1, d + k)
    BY <1>10, <2>1, <2>2
  <2>4. /\ Ready' /\ top' = top /\ Advance /\ dc_before' = dc_before
        /\ k < 5 => Queued(A, m, i + 1, d + k + 1)' /\ Held(k, 0, 0, {1})'
        /\ k = 5 => Queued(A, m, IF i = 4 THEN 5 ELSE i + 2, d + k + 1)'
    BY <1>10, <2>3, FullFill
  <2>5. step' = b + d + k + 1
    BY <2>3, <2>4 DEF Advance
  <2>6. CASE k < 5
    <3>1. PICK l \in 1..5 : l = k + 1
      BY <2>6
    <3>2. step' = b + 29 + l /\ 29 + l = d + k + 1 /\ l - 1 = k /\ i + 1 = 5
      BY <2>1, <2>2, <2>5, <3>1
    <3>3. Queued(A, m, 5, 29 + l)' /\ Held(l - 1, 0, 0, {1})'
      BY <2>4, <2>6, <3>2
    <3>4. InFull(b, A, m, t)'
      BY <1>10, <2>4, <3>2, <3>3 DEF InFull
    <3>5. QED
      BY <2>4, <3>4
  <2>7. CASE k = 5
    <3>1. step' = b + 35 /\ d + k + 1 = 35 /\ (IF i = 4 THEN 5 ELSE i + 2) = 5
      BY <2>1, <2>2, <2>5, <2>7
    <3>2. Queued(A, m, 5, 35)'
      BY <2>4, <2>7, <3>1
    <3>3. InFull(b, A, m, t)'
      BY <1>10, <2>4, <3>1, <3>2 DEF InFull
    <3>4. QED
      BY <2>4, <3>3
  <2>8. QED
    BY <2>6, <2>7
<1>11. CASE step = b + 35 /\ Queued(A, m, 5, 35) /\ dc_before = A
  <2>1. op = <<"status">> /\ op[1] = "status"
    BY <1>1, <1>2, <1>11 DEF op
  <2>2. 35 \in 7..35 /\ 35 \in 7..36 /\ 5 \in 1..5 /\ 35 + 1 = 36
    OBVIOUS
  <2>3. Ready' /\ top' = top /\ Queued(A, m, 5, 36)' /\ Advance /\ dc_before' = dc_before
    BY <1>11, <2>1, <2>2, QueuedQuiet
  <2>4. Regs!fifo_full
    BY <1>3, <1>11, <2>2, QueuedBehind
  <2>5. status'.qfull
    <3>1. status' = Regs!Status
      BY <2>1, Bookkeeping
    <3>2. QED
      BY <2>4, <3>1 DEF Regs!Status
  <2>6. step' = b + 36
    BY <1>11, <2>3 DEF Advance
  <2>7. InFull(b, A, m, t)'
    BY <1>11, <2>3, <2>5, <2>6 DEF InFull
  <2>8. QED
    BY <2>3, <2>7
<1>12. CASE step = b + 36 /\ Queued(A, m, 5, 36) /\ dc_before = A /\ status.qfull
  <2>1. op = <<"full">> /\ op[1] \in {"full", "save"} /\ op[1] = "full"
    BY <1>1, <1>2, <1>12 DEF op
  <2>2. 36 \in 9..36
    OBVIOUS
  <2>3. PICK C : C = FullLine(A, m)
    OBVIOUS
  <2>4. /\ Ready' /\ top' = top /\ Advance /\ dc_before' = dc_before
        /\ accepted' = A + 5 /\ retired' = A /\ InLine(C)'
    BY <1>12, <2>1, <2>2, <2>3, QueuedStill
  <2>5. cycles' \in Nat /\ cycles' + Work(Price(m))' < t
    <3>1. Fine(C, p)' /\ Price(m)' = p
      BY <1>4, <2>3, <2>4, FullFine, SamePrice
    <3>2. RP!Inv' /\ Timely'
      BY <2>4 DEF Ready
    <3>3. Bounded(p)'
      BY <2>4, <3>1, <3>2, WorkAfter
    <3>4. 5 \in 1..5 /\ accepted' - retired' <= 5
      BY <2>4
    <3>5. fifo_cnt' * p + Rest' \in Nat /\ fifo_cnt' * p + Rest' <= 5 * p
      BY <3>3, <3>4 DEF Bounded
    <3>6. cycles' = 0 /\ 5 * p < t
      BY <1>4, <2>4 DEF Advance
    <3>7. QED
      BY <3>1, <3>5, <3>6 DEF Work
  <2>6. step' = b + 37 /\ A <= retired' /\ dc_before' = A
    BY <1>12, <2>4 DEF Advance
  <2>7. InFull(b, A, m, t)'
    BY <2>3, <2>4, <2>5, <2>6 DEF InFull
  <2>8. QED
    BY <2>4, <2>7
<1>13. CASE /\ step = b + 37 /\ dc_before = A
            /\ accepted = A + 5 /\ A <= retired /\ InLine(FullLine(A, m))
            /\ cycles \in Nat /\ cycles + Work(Price(m)) < t
  <2>1. op = <<"poll", t>> /\ op[1] = "poll"
    BY <1>1, <1>2, <1>13 DEF op
  <2>2. PICK C : C = FullLine(A, m)
    OBVIOUS
  <2>3. Fine(C, p) /\ InLine(C) /\ cycles + Work(p) < t
    BY <1>4, <1>13, <2>2, FullFine
  <2>4. /\ all_pass' /\ status' = Regs!Status
        /\ \/ Advance /\ accepted = retired
           \/ /\ step' = step /\ pc' = pc
              /\ cycles' \in Nat /\ cycles' + (fifo_cnt' * p + Rest') < t
    BY <1>13, <2>1, <2>3, PollStep
  <2>5. /\ RP!Inv' /\ Timely' /\ InLine(C)' /\ top' = top /\ DOMAIN c_buf' = Slot
        /\ accepted' = accepted /\ retired' >= retired
        /\ accepted = retired => retired' = retired
    BY <2>1, <2>3, CalmStep
  <2>6. want' = want /\ dc_before' = A
    BY <1>13, <2>1, Bookkeeping
  <2>7. Ready'
    BY <1>3, <2>4, <2>5, <2>6 DEF Ready
  <2>8. CASE Advance /\ accepted = retired
    <3>1. step' = b + 38 /\ retired = A + 5
      BY <1>13, <2>8 DEF Advance
    <3>2. Idle(A + 5)'
      BY <1>13, <2>5, <2>8 DEF Idle
    <3>3. status'.done_count = A + 5
      BY <1>3, <2>4, <3>1, CountRead
    <3>4. InFull(b, A, m, t)'
      BY <2>6, <3>1, <3>2, <3>3 DEF InFull
    <3>5. QED
      BY <2>5, <2>7, <3>4
  <2>9. CASE /\ step' = step /\ pc' = pc
             /\ cycles' \in Nat /\ cycles' + (fifo_cnt' * p + Rest') < t
    <3>1. cycles' \in Nat /\ cycles' + Work(Price(m))' < t
      BY <1>4, <2>5, <2>9, SamePrice DEF Work
    <3>2. step' = b + 37 /\ accepted' = A + 5 /\ A <= retired'
      <4>1. retired \in Nat /\ retired' \in Nat
        BY <1>3, <2>5, Places, PlacesAfter DEF InPlaces
      <4>2. QED
        BY <1>13, <2>5, <2>9, <4>1
    <3>3. InFull(b, A, m, t)'
      BY <2>2, <2>5, <2>6, <3>1, <3>2 DEF InFull
    <3>4. QED
      BY <2>5, <2>7, <3>3
  <2>10. QED
    BY <2>4, <2>8, <2>9
<1>14. CASE step = b + 38 /\ Idle(A + 5) /\ dc_before = A /\ status.done_count = A + 5
  <2>1. op = <<"advanced", 5>>
    BY <1>1, <1>2, <1>14 DEF op
  <2>2. op[1] = "advanced" /\ op[2] = 5 /\ "advanced" \in Looks
    BY <2>1 DEF Looks
  <2>3. /\ RP!Inv' /\ Timely' /\ top' = top /\ DOMAIN c_buf' = Slot /\ DOMAIN want' = Slot
        /\ Idle(A + 5)'
    BY <1>14, <2>2, IdleStep
  <2>4. Advance /\ Pass(status.done_count - dc_before = 5)
    BY <2>2, Bookkeeping
  <2>5. status.done_count - dc_before = 5
    BY <1>14
  <2>6. all_pass' /\ step' = b + 39
    <3>1. all_pass'
      BY <1>3, <2>4, <2>5 DEF Pass
    <3>2. step' = b + 39
      BY <1>14, <2>4 DEF Advance
    <3>3. QED
      BY <3>1, <3>2
  <2>7. QED
    BY <2>3, <2>6 DEF Ready
<1>15. QED
  <2>1. step = b + 1 \/ (\E k \in 1..5 : step = b + 1 + k) => step <= b + 6
    OBVIOUS
  <2>2. ASSUME NEW j \in 28..29, step = b + j, Queued(A, m, 5, j), status.qfull,
               status.done_count = A
        PROVE  /\ Ready' /\ top' = top
               /\ InFull(b, A, m, t)' \/ (step' = b + 39 /\ Idle(A + 5)')
    <3>1. CASE j = 28
      <4>1. step = b + 28 /\ Queued(A, m, 5, 28)
        BY <2>2, <3>1
      <4>2. QED
        BY <1>8, <2>2, <4>1
    <3>2. CASE j = 29
      <4>1. step = b + 29 /\ Queued(A, m, 5, 29)
        BY <2>2, <3>2
      <4>2. QED
        BY <1>9, <2>2, <4>1
    <3>3. QED
      BY <3>1, <3>2
  <2>3. QED
    BY <1>5, <1>6, <1>7, <1>10, <1>11, <1>12, <1>13, <1>14, <2>1, <2>2 DEF InFull

\* Enabled, and acknowledged up to the A-th command.
Armed(A) == irq_en /\ acked = A

\* The interrupt of the A-th command.
InInterrupt(b, A, t) ==
    \/ step = b + 1 /\ Idle(A)
    \/ \E j \in 2..3 : step = b + j /\ Idle(A) /\ Armed(A)
    \/ \E k \in 1..5 : step = b + 3 + k /\ Idle(A) /\ Armed(A) /\ Held(k - 1, 0, 0, {2})
    \/ /\ step = b + 9 /\ accepted = A + 1 /\ A <= retired /\ Armed(A) /\ InLine(Only(0, 2))
       /\ cycles \in Nat /\ cycles + Work(Price(2)) <= t
    \/ step = b + 10 /\ Idle(A + 1) /\ Armed(A)
    \/ step = b + 11 /\ Idle(A + 1)
    \/ \E j \in 12..14 : step = b + j /\ Idle(A + 1) /\ Armed(A + 1)

(* The interrupt is pending exactly when a command has retired since the   *)
(* last acknowledgement.                                                   *)
LEMMA PendingMeans ==
    ASSUME RP!Inv
    PROVE  /\ irq_pending \in BOOLEAN /\ (irq_pending <=> retired > acked)
           /\ accepted \in Nat /\ retired \in Nat /\ retired <= accepted
BY Places DEF RP!Inv, RP!TypeOK, RP!PendingIffUnacked

(* The wait on the pin ends with the interrupt, within the time allowed.   *)
LEMMA WaitStep ==
    ASSUME Ready, pc = "tb", TbStep, NEW A \in Nat, NEW t \in Nat, op = <<"wait_irq", t>>,
           accepted = A + 1, A <= retired, Armed(A), InLine(Only(0, 2)),
           cycles \in Nat, cycles + Work(Price(2)) <= t
    PROVE  /\ Ready' /\ top' = top /\ Armed(A)'
           /\ \/ Advance /\ Idle(A + 1)'
              \/ /\ step' = step /\ accepted' = A + 1 /\ A <= retired' /\ InLine(Only(0, 2))'
                 /\ cycles' \in Nat /\ cycles' + Work(Price(2))' <= t
<1>1. op[1] = "wait_irq" /\ op[2] = t
  OBVIOUS
<1>2. RP!Inv /\ Timely /\ all_pass
  BY DEF Ready
<1>3. PICK C : C = Only(0, 2)
  OBVIOUS
<1>4. PICK p \in Nat \ {0} : p = Price(2)
  BY OnlyFine
<1>5. Fine(C, p) /\ InLine(C) /\ cycles + Work(p) <= t
  BY <1>3, <1>4, OnlyFine
<1>6. /\ RP!Inv' /\ Timely' /\ InLine(C)' /\ top' = top /\ DOMAIN c_buf' = Slot
      /\ accepted' = accepted /\ retired' >= retired
      /\ accepted = retired => retired' = retired
      /\ acked' = acked /\ irq_en' = irq_en
  BY <1>1, <1>5, CalmStep
<1>7. want' = want
  BY <1>1, Bookkeeping
<1>8. WaitIrq
  BY <1>1, ActionOf
<1>9. CASE Regs!irq
  <2>1. Advance /\ Pass(Regs!irq)
    BY <1>1, <1>8, <1>9 DEF WaitIrq
  <2>2. accepted = retired
    BY <1>2, <1>9, PendingMeans DEF Regs!irq, Armed
  <2>3. all_pass'
    BY <1>2, <1>9, <2>1 DEF Pass
  <2>4. Ready'
    BY <1>6, <1>7, <2>3 DEF Ready
  <2>5. QED
    BY <1>6, <2>1, <2>2, <2>4 DEF Idle, Armed
<1>10. CASE ~Regs!irq
  <2>1. retired = A
    BY <1>2, <1>10, PendingMeans DEF Regs!irq, Armed
  <2>2. ~PollExit
    <3>1. PollExit => RP!Outstanding = 0
      BY <1>2, PollExitMeansRetired
    <3>2. RP!Outstanding = 1
      BY <2>1 DEF RP!Outstanding
    <3>3. QED
      BY <3>1, <3>2
  <2>3. Work(p) \in Nat /\ Work(p) # 0
    BY <1>2, <1>5, <2>2, WorkBounds
  <2>4. cycles < t
    BY <1>5, <2>3
  <2>5. cycles' = cycles + 1 /\ step' = step /\ all_pass' = all_pass /\ NoAccess
    BY <1>1, <1>8, <1>10, <2>4 DEF WaitIrq
  <2>6. Ticked(FALSE, FALSE) /\ hold' \in RP!Cmd /\ irq_en' \in BOOLEAN
    BY <1>2, <2>5, Accesses
  <2>7. Work(p)' \in Nat /\ Work(p)' < Work(p)
    BY <1>2, <1>5, <2>2, <2>6, WorkDone
  <2>8. cycles' \in Nat /\ cycles' + Work(p)' <= t
    BY <1>5, <2>3, <2>5, <2>7
  <2>9. Price(2)' = p
    BY <1>4, <1>6, SamePrice
  <2>10. Work(Price(2))' = Work(p)'
    BY <2>9 DEF Work
  <2>11. Ready'
    BY <1>2, <1>6, <1>7, <2>5 DEF Ready
  <2>12. A <= retired' /\ accepted' = A + 1
    <3>1. retired' \in Nat
      BY <1>6, PlacesAfter DEF InPlaces
    <3>2. QED
      BY <1>6, <2>1, <3>1
  <2>13. QED
    BY <1>3, <1>6, <2>5, <2>8, <2>10, <2>11, <2>12 DEF Armed
<1>11. QED
  BY <1>9, <1>10

(* Every step of Interrupt passes: the interrupt comes within the wait,    *)
(* stays until it is acknowledged, and then is gone.                       *)
LEMMA InterruptStep ==
    ASSUME Ready, pc = "tb", TbStep, NEW b \in Nat, NEW A \in Nat, NEW t \in Nat,
           Price(2) <= t, InInterrupt(b, A, t), StandsAt(Program[top], b, Interrupt(t), 14)
    PROVE  /\ Ready' /\ top' = top
           /\ InInterrupt(b, A, t)' \/ (step' = b + 15 /\ Idle(A + 1)')
<1> DEFINE s == Interrupt(t)
<1>1. /\ s[1] = <<"write_irq">> /\ s[2] = <<"read_irq", BOOLEAN>>
      /\ s[3] = <<"load", 0>> /\ StandsAt(s, 3, Enqueue(0, 0, 0, {2}), 5)
      /\ s[9] = <<"wait_irq", t>> /\ s[10] = <<"read_irq", {TRUE}>>
      /\ s[11] = <<"write_irq">> /\ s[12] = <<"tick">> /\ s[13] = <<"irq_low">>
      /\ s[14] = <<"read_irq", {FALSE}>>
  BY InterruptOps
<1> HIDE DEF s
<1>2. StandsAt(Program[top], b, s, 14)
  BY DEF s
<1>3. \A i \in 1..14 : Program[top][b + i] = s[i]
  BY <1>2 DEF StandsAt
<1>4. StandsAt(Program[top], b + 3, Enqueue(0, 0, 0, {2}), 5)
  BY <1>1, <1>2, StandsWithin
<1>5. RP!Inv /\ Timely /\ all_pass /\ 0 \in Slot /\ {2} \in SUBSET Val /\ DOMAIN want = Slot
  BY TbAssumption DEF Ready, Slot, QDEPTH
<1>6. CASE step = b + 1 /\ Idle(A)
  <2>1. op = <<"write_irq">> /\ op[1] = "write_irq"
    BY <1>1, <1>3, <1>6 DEF op
  <2>2. /\ RP!Inv' /\ Timely' /\ top' = top /\ DOMAIN c_buf' = Slot /\ DOMAIN want' = Slot
        /\ Idle(A)' /\ acked' = A /\ irq_en' = TRUE
    BY <1>6, <2>1, IdleStep
  <2>3. Advance /\ all_pass' = all_pass
    BY <2>1, Bookkeeping
  <2>4. step' = b + 2 /\ 2 \in 2..3
    BY <1>6, <2>3 DEF Advance
  <2>5. InInterrupt(b, A, t)'
    BY <2>2, <2>4 DEF InInterrupt, Armed
  <2>6. QED
    BY <1>5, <2>2, <2>3, <2>5 DEF Ready
<1>7. CASE step = b + 2 /\ Idle(A) /\ Armed(A)
  <2>1. op = <<"read_irq", BOOLEAN>>
    BY <1>1, <1>3, <1>7 DEF op
  <2>2. op[1] = "read_irq" /\ irq_pending \in op[2]
    BY <1>5, <2>1, PendingMeans
  <2>3. /\ RP!Inv' /\ Timely' /\ top' = top /\ DOMAIN c_buf' = Slot /\ DOMAIN want' = Slot
        /\ Idle(A)' /\ acked' = acked /\ irq_en' = irq_en
    BY <1>7, <2>2, IdleStep
  <2>4. Advance /\ Pass(irq_pending \in op[2])
    BY <2>2, Bookkeeping
  <2>5. step' = b + 3 /\ 3 \in 2..3
    BY <1>7, <2>4 DEF Advance
  <2>6. all_pass'
    BY <1>5, <2>2, <2>4 DEF Pass
  <2>7. InInterrupt(b, A, t)'
    BY <1>7, <2>3, <2>5 DEF InInterrupt, Armed
  <2>8. QED
    BY <2>3, <2>6, <2>7 DEF Ready
<1>8. CASE step = b + 3 /\ Idle(A) /\ Armed(A)
  <2>1. op = <<"load", 0>>
    BY <1>1, <1>3, <1>8 DEF op
  <2>2. op[1] = "load" /\ "load" \in Looks
    BY <2>1 DEF Looks
  <2>3. /\ RP!Inv' /\ Timely' /\ top' = top /\ DOMAIN c_buf' = Slot /\ DOMAIN want' = Slot
        /\ Idle(A)' /\ acked' = acked /\ irq_en' = irq_en
    BY <1>8, <2>2, IdleStep
  <2>4. Advance /\ all_pass' = all_pass
    BY <2>2, Bookkeeping
  <2>5. step' = b + 3 + 1 /\ 1 \in 1..5
    BY <1>8, <2>4 DEF Advance
  <2>6. Held(1 - 1, 0, 0, {2})'
    BY DEF Held
  <2>7. InInterrupt(b, A, t)'
    BY <1>8, <2>3, <2>5, <2>6 DEF InInterrupt, Armed
  <2>8. QED
    BY <1>5, <2>3, <2>4, <2>7 DEF Ready
<1>9. ASSUME NEW k \in 1..4, step = b + 3 + k, Idle(A), Armed(A), Held(k - 1, 0, 0, {2})
      PROVE  Ready' /\ top' = top /\ InInterrupt(b, A, t)'
  <2> DEFINE C == [i \in Int |-> {}]
  <2>1. Fine(C, 0) /\ InLine(C)
    BY <1>5, <1>9, NothingInLine DEF Fine, Idle
  <2> HIDE DEF C
  <2>2. /\ op[1] = "store" /\ op[2] \in {"w", "a", "c", "m"} /\ op[3] \subseteq Val
        /\ Held(k, 0, 0, {2})'
    BY <1>4, <1>5, <1>9, <2>1, EnqueueField
  <2>3. /\ RP!Inv' /\ Timely' /\ top' = top /\ DOMAIN c_buf' = Slot /\ DOMAIN want' = Slot
        /\ Idle(A)' /\ acked' = acked /\ irq_en' = irq_en
    BY <1>9, <2>2, IdleStep
  <2>4. Advance /\ all_pass' = all_pass
    BY <2>2, Bookkeeping
  <2>5. k + 1 \in 1..5 /\ (k + 1) - 1 = k /\ step' = b + 3 + (k + 1)
    BY <1>9, <2>4 DEF Advance
  <2>6. InInterrupt(b, A, t)'
    BY <1>9, <2>2, <2>3, <2>5 DEF InInterrupt, Armed
  <2>7. QED
    BY <1>5, <2>3, <2>4, <2>6 DEF Ready
<1>10. CASE step = b + 3 + 5 /\ Idle(A) /\ Armed(A) /\ Held(5 - 1, 0, 0, {2})
  <2>1. op[1] = "cmd" /\ hold = Asks(0, 0, 2)
    BY <1>4, <1>10, EnqueueCommand
  <2>2. PICK p \in Nat \ {0} : p = Price(2)
    BY OnlyFine
  <2>3. PICK C : C = Only(0, 2)
    OBVIOUS
  <2>4. Fine(C, p) /\ InLine(C) /\ accepted \in Int
    BY <1>5, <1>10, <2>2, <2>3, OnlyFine, NothingInLine, Places DEF Idle
  <2>5. hold \in C[accepted]
    BY <2>1, <2>3, <2>4 DEF Only
  <2>6. ~Regs!fifo_full
    BY <1>5, <1>10, Places DEF Idle, Regs!fifo_full
  <2>7. /\ RP!Inv' /\ Timely' /\ InLine(C)' /\ top' = top /\ DOMAIN c_buf' = Slot
        /\ accepted' = accepted + 1 /\ retired' = retired + (IF done THEN 1 ELSE 0)
        /\ acked' = acked /\ irq_en' = irq_en
        /\ want' = [want EXCEPT ![hold.c] = <<w_buf[hold.w], a_buf[hold.a], hold.m>>]
        /\ Advance /\ all_pass' = all_pass
    BY <2>1, <2>4, <2>5, <2>6, CommandLine
  <2>8. accepted' = A + 1 /\ retired' = A /\ step' = b + 9 /\ cycles' = 0
    BY <1>5, <1>10, <2>7, Places DEF Idle, Advance
  <2>9. cycles' \in Nat /\ cycles' + Work(Price(2))' <= t
    <3>1. Fine(C, p)' /\ Price(2)' = p
      BY <2>2, <2>4, <2>7, SamePrice
    <3>2. Bounded(p)'
      BY <2>7, <3>1, WorkAfter
    <3>3. 1 \in 1..5 /\ accepted' - retired' <= 1
      BY <2>8
    <3>4. fifo_cnt' * p + Rest' \in Nat /\ fifo_cnt' * p + Rest' <= 1 * p
      BY <3>2, <3>3 DEF Bounded
    <3>5. Work(Price(2))' = fifo_cnt' * p + Rest'
      BY <3>1 DEF Work
    <3>6. QED
      BY <2>2, <2>8, <3>4, <3>5
  <2>10. A <= retired' /\ Armed(A)' /\ InLine(Only(0, 2))'
    BY <1>10, <2>3, <2>7, <2>8 DEF Armed
  <2>11. InInterrupt(b, A, t)'
    BY <2>8, <2>9, <2>10 DEF InInterrupt
  <2>12. QED
    BY <1>5, <2>7, <2>11 DEF Ready
<1>11. CASE /\ step = b + 9 /\ accepted = A + 1 /\ A <= retired /\ Armed(A) /\ InLine(Only(0, 2))
            /\ cycles \in Nat /\ cycles + Work(Price(2)) <= t
  <2>1. op = <<"wait_irq", t>>
    BY <1>1, <1>3, <1>11 DEF op
  <2>2. /\ Ready' /\ top' = top /\ Armed(A)'
        /\ \/ Advance /\ Idle(A + 1)'
           \/ /\ step' = step /\ accepted' = A + 1 /\ A <= retired' /\ InLine(Only(0, 2))'
              /\ cycles' \in Nat /\ cycles' + Work(Price(2))' <= t
    BY <1>11, <2>1, WaitStep
  <2>3. CASE Advance /\ Idle(A + 1)'
    <3>1. step' = b + 10
      BY <1>11, <2>3 DEF Advance
    <3>2. InInterrupt(b, A, t)'
      BY <2>2, <2>3, <3>1 DEF InInterrupt
    <3>3. QED
      BY <2>2, <3>2
  <2>4. CASE /\ step' = step /\ accepted' = A + 1 /\ A <= retired' /\ InLine(Only(0, 2))'
             /\ cycles' \in Nat /\ cycles' + Work(Price(2))' <= t
    <3>1. InInterrupt(b, A, t)'
      BY <1>11, <2>2, <2>4 DEF InInterrupt
    <3>2. QED
      BY <2>2, <3>1
  <2>5. QED
    BY <2>2, <2>3, <2>4
<1>12. CASE step = b + 10 /\ Idle(A + 1) /\ Armed(A)
  <2>1. op = <<"read_irq", {TRUE}>>
    <3>1. Program[top][b + 10] = s[10]
      BY <1>3
    <3>2. s[10] = <<"read_irq", {TRUE}>>
      BY <1>1
    <3>3. QED
      BY <1>12, <3>1, <3>2 DEF op
  <2>2. irq_pending
    BY <1>5, <1>12, PendingMeans DEF Idle, Armed
  <2>3. op[1] = "read_irq" /\ irq_pending \in op[2]
    BY <1>5, <2>1, <2>2, PendingMeans
  <2>4. /\ RP!Inv' /\ Timely' /\ top' = top /\ DOMAIN c_buf' = Slot /\ DOMAIN want' = Slot
        /\ Idle(A + 1)'
    BY <1>12, <2>3, IdleStep
  <2>5. Advance /\ Pass(irq_pending \in op[2])
    BY <2>3, Bookkeeping
  <2>6. step' = b + 11
    BY <1>12, <2>5 DEF Advance
  <2>7. all_pass'
    BY <1>5, <2>3, <2>5 DEF Pass
  <2>8. InInterrupt(b, A, t)'
    BY <2>4, <2>6 DEF InInterrupt
  <2>9. QED
    BY <2>4, <2>7, <2>8 DEF Ready
<1>13. CASE step = b + 11 /\ Idle(A + 1)
  <2>1. op = <<"write_irq">> /\ op[1] = "write_irq"
    BY <1>1, <1>3, <1>13 DEF op
  <2>2. /\ RP!Inv' /\ Timely' /\ top' = top /\ DOMAIN c_buf' = Slot /\ DOMAIN want' = Slot
        /\ Idle(A + 1)' /\ acked' = A + 1 /\ irq_en' = TRUE
    BY <1>13, <2>1, IdleStep
  <2>3. Advance /\ all_pass' = all_pass
    BY <2>1, Bookkeeping
  <2>4. step' = b + 12 /\ 12 \in 12..14
    BY <1>13, <2>3 DEF Advance
  <2>5. InInterrupt(b, A, t)'
    BY <2>2, <2>4 DEF InInterrupt, Armed
  <2>6. QED
    BY <1>5, <2>2, <2>3, <2>5 DEF Ready
<1>14. ASSUME NEW j \in 12..14, step = b + j, Idle(A + 1), Armed(A + 1)
       PROVE  /\ Ready' /\ top' = top
              /\ InInterrupt(b, A, t)' \/ (step' = b + 15 /\ Idle(A + 1)')
  <2>1. ~irq_pending /\ irq_pending \in BOOLEAN
    BY <1>5, <1>14, PendingMeans DEF Idle, Armed
  <2>2. \/ j = 12 /\ op = <<"tick">>
        \/ j = 13 /\ op = <<"irq_low">>
        \/ j = 14 /\ op = <<"read_irq", {FALSE}>>
    <3>1. op = s[j] /\ (j = 12 \/ j = 13 \/ j = 14)
      BY <1>3, <1>14 DEF op
    <3>2. s[12] = <<"tick">> /\ s[13] = <<"irq_low">> /\ s[14] = <<"read_irq", {FALSE}>>
      BY <1>1
    <3>3. QED
      BY <3>1, <3>2, Zenon
  <2>3. op[1] \in {"tick", "irq_low", "read_irq"} /\ "irq_low" \in Looks
    <3>1. op[1] = "tick" \/ op[1] = "irq_low" \/ op[1] = "read_irq"
      <4>1. CASE op = <<"tick">>
        BY <4>1
      <4>2. CASE op = <<"irq_low">>
        BY <4>2
      <4>3. CASE op = <<"read_irq", {FALSE}>>
        BY <4>3
      <4>4. QED
        BY <2>2, <4>1, <4>2, <4>3
    <3>2. QED
      BY <3>1 DEF Looks
  <2>4. /\ RP!Inv' /\ Timely' /\ top' = top /\ DOMAIN c_buf' = Slot /\ DOMAIN want' = Slot
        /\ Idle(A + 1)' /\ acked' = acked /\ irq_en' = irq_en
    BY <1>14, <2>3, IdleStep
  <2>5. Advance
    BY <2>3, Bookkeeping
  <2>6. all_pass'
    <3>1. CASE op = <<"tick">>
      <4>1. op[1] = "tick"
        BY <3>1
      <4>2. QED
        BY <1>5, <4>1, Bookkeeping
    <3>2. CASE op = <<"irq_low">>
      <4>1. op[1] = "irq_low"
        BY <3>2
      <4>2. Pass(~Regs!irq) /\ ~Regs!irq
        BY <2>1, <2>3, <4>1, Bookkeeping DEF Regs!irq
      <4>3. QED
        BY <1>5, <4>2 DEF Pass
    <3>3. CASE op = <<"read_irq", {FALSE}>>
      <4>1. op[1] = "read_irq" /\ irq_pending \in op[2]
        BY <2>1, <3>3
      <4>2. Pass(irq_pending \in op[2])
        BY <4>1, Bookkeeping
      <4>3. QED
        BY <1>5, <4>1, <4>2 DEF Pass
    <3>4. QED
      BY <2>2, <3>1, <3>2, <3>3
  <2>7. Ready'
    BY <2>4, <2>6 DEF Ready
  <2>8. step' = b + (j + 1)
    BY <1>14, <2>5 DEF Advance
  <2>9. CASE j = 14
    BY <2>4, <2>7, <2>8, <2>9
  <2>10. CASE j # 14
    <3>1. j + 1 \in 12..14
      BY <2>10
    <3>2. InInterrupt(b, A, t)'
      BY <1>14, <2>4, <2>8, <3>1 DEF InInterrupt, Armed
    <3>3. QED
      BY <2>4, <2>7, <3>2
  <2>11. QED
    BY <2>9, <2>10
<1>15. QED
  <2>1. ASSUME NEW j \in 2..3, step = b + j, Idle(A), Armed(A)
        PROVE  /\ Ready' /\ top' = top
               /\ InInterrupt(b, A, t)' \/ (step' = b + 15 /\ Idle(A + 1)')
    <3>1. CASE j = 2
      BY <1>7, <2>1, <3>1
    <3>2. CASE j = 3
      BY <1>8, <2>1, <3>2
    <3>3. QED
      BY <3>1, <3>2
  <2>2. ASSUME NEW k \in 1..5, step = b + 3 + k, Idle(A), Armed(A), Held(k - 1, 0, 0, {2})
        PROVE  /\ Ready' /\ top' = top
               /\ InInterrupt(b, A, t)' \/ (step' = b + 15 /\ Idle(A + 1)')
    <3>1. CASE k = 5
      BY <1>10, <2>2, <3>1
    <3>2. CASE k # 5
      <4>1. k \in 1..4
        BY <3>2
      <4>2. QED
        BY <1>9, <2>2, <4>1
    <3>3. QED
      BY <3>1, <3>2
  <2>3. QED
    BY <1>6, <1>11, <1>12, <1>13, <1>14, <2>1, <2>2 DEF InInterrupt

-------------------------------------------------------------------------------
(* The programs.                                                           *)

\* The waits on the interrupt pin, of 500 and 5000 iterations, outlast a
\* command of two rows.
InTime == 4 * N + 7 <= 500 /\ 4 * N + Slack + 7 <= 5000

InMmio ==
    \/ InPowerUp
    \/ InFour(4, 5000)
    \/ InFull(35, 4, 500, 5000)
    \/ InInterrupt(73, 9, 500)

InBoundary(k) == InOne(8 * k + 35, 4 + k, k, {Bound(k)}, Bound(k), 3 * Bound(k) + 20000)
InOverlap(k) == InOne(8 * k + 103, 12 + k, k % 3, RandRows, 64, 20003)

InAxi ==
    \/ InPowerUp
    \/ InFour(4, 200000)
    \/ \E k \in 0..1 : InBoundary(k)
    \/ InFull(51, 6, 200, 200000)
    \/ InInterrupt(89, 11, 5000)
    \/ \E k \in 0..19 : InOverlap(k)

(* The programs wait longer than their commands can take.                  *)
LEMMA Prices ==
    ASSUME InTime
    PROVE  /\ top = "mmio" => 4 * Price(6) < 5000 /\ 5 * Price(500) < 5000 /\ Price(2) <= 500
           /\ top = "axi" => /\ 4 * Price(6) < 200000 /\ 5 * Price(200) < 200000
                             /\ Price(2) <= 5000 /\ Price(64) < 20003
                             /\ Price(1) < 20003 /\ Price(255) < 20765
BY TbAssumption DEF InTime, Price, Lag

(* The program that ends one test begins the next.                         *)
LEMMA MmioStep ==
    ASSUME InTime, Ready, pc = "tb", TbStep, top = "mmio", InMmio
    PROVE  Ready' /\ top' = top /\ (InMmio' \/ step' = 88)
<1>1. /\ StandsAt(Program[top], 0, PowerUp, 4)
      /\ StandsAt(Program[top], 4, FourBackToBack(5000), 31)
      /\ StandsAt(Program[top], 35, QueueFull(500, 5000), 38)
      /\ StandsAt(Program[top], 73, Interrupt(500), 14)
  BY MmioOps
<1>2. 4 * Price(6) < 5000 /\ 5 * Price(500) < 5000 /\ Price(2) <= 500
  BY Prices
<1>3. CASE InPowerUp
  <2>1. Ready' /\ Idle(0)' /\ dc_before' = 0 /\ top' = top /\ step' = step + 1
    BY <1>1, <1>3, PowerUpStep
  <2>2. InPowerUp' \/ InFour(4, 5000)'
    <3>1. CASE step = 4
      <4>1. step' = 4 + 1 /\ 1 \in 1..4
        BY <2>1, <3>1
      <4>2. QED
        BY <2>1, <4>1 DEF InFour
    <3>2. CASE step # 4
      <4>1. step' \in 1..4
        BY <1>3, <2>1, <3>2 DEF InPowerUp
      <4>2. QED
        BY <2>1, <4>1 DEF InPowerUp
    <3>3. QED
      BY <3>1, <3>2
  <2>3. QED
    BY <2>1, <2>2 DEF InMmio
<1>4. CASE InFour(4, 5000)
  <2>1. PICK b \in Nat, t \in Nat : b = 4 /\ t = 5000
    OBVIOUS
  <2>2. /\ Ready' /\ top' = top
        /\ InFour(b, t)' \/ (step' = b + 32 /\ Idle(4)')
    BY <1>1, <1>2, <1>4, <2>1, FourStep
  <2>3. CASE InFour(b, t)'
    BY <2>1, <2>2, <2>3 DEF InMmio
  <2>4. CASE step' = b + 32 /\ Idle(4)'
    <3>1. step' = 35 + 1
      BY <2>1, <2>4
    <3>2. InFull(35, 4, 500, 5000)'
      BY <2>4, <3>1 DEF InFull
    <3>3. QED
      BY <2>2, <3>2 DEF InMmio
  <2>5. QED
    BY <2>2, <2>3, <2>4
<1>5. CASE InFull(35, 4, 500, 5000)
  <2>1. PICK b \in Nat, A \in Nat, m \in Val, t \in Nat : b = 35 /\ A = 4 /\ m = 500 /\ t = 5000
    BY TbAssumption
  <2>2. /\ Ready' /\ top' = top
        /\ InFull(b, A, m, t)' \/ (step' = b + 39 /\ Idle(A + 5)')
    <3>1. A < 7 /\ m \in Nat /\ 200 <= m
      BY <2>1
    <3>2. /\ 5 * Price(m) < t /\ InFull(b, A, m, t)
          /\ StandsAt(Program[top], b, QueueFull(m, t), 38)
      BY <1>1, <1>2, <1>5, <2>1
    <3>3. QED
      BY <3>1, <3>2, FullStep
  <2>3. CASE InFull(b, A, m, t)'
    BY <2>1, <2>2, <2>3 DEF InMmio
  <2>4. CASE step' = b + 39 /\ Idle(A + 5)'
    <3>1. step' = 73 + 1 /\ A + 5 = 9
      BY <2>1, <2>4
    <3>2. Idle(9)'
      BY <2>4, <3>1
    <3>3. InInterrupt(73, 9, 500)'
      BY <3>1, <3>2 DEF InInterrupt
    <3>4. QED
      BY <2>2, <3>3 DEF InMmio
  <2>5. QED
    BY <2>2, <2>3, <2>4
<1>6. CASE InInterrupt(73, 9, 500)
  <2>1. PICK b \in Nat, A \in Nat, t \in Nat : b = 73 /\ A = 9 /\ t = 500
    OBVIOUS
  <2>2. /\ Ready' /\ top' = top
        /\ InInterrupt(b, A, t)' \/ (step' = b + 15 /\ Idle(A + 1)')
    BY <1>1, <1>2, <1>6, <2>1, InterruptStep
  <2>3. CASE InInterrupt(b, A, t)'
    BY <2>1, <2>2, <2>3 DEF InMmio
  <2>4. CASE step' = b + 15 /\ Idle(A + 1)'
    BY <2>1, <2>2, <2>4
  <2>5. QED
    BY <2>2, <2>3, <2>4
<1>7. QED
  BY <1>3, <1>4, <1>5, <1>6 DEF InMmio

(* One command of the boundary test, and one of the overlapping ones.      *)
LEMMA BoundaryStep ==
    ASSUME InTime, Ready, pc = "tb", TbStep, top = "axi", NEW k \in 0..1, InBoundary(k)
    PROVE  /\ Ready' /\ top' = top
           /\ InBoundary(k)' \/ (step' = 8 * k + 44 /\ Idle(5 + k)')
<1>1. PICK m \in Val : m = Bound(k) /\ (m = 1 \/ m = 255)
  <2>1. Bound(k) = 1 \/ Bound(k) = 255
    BY DEF Bound
  <2>2. QED
    BY <2>1, TbAssumption
<1>2. PICK b \in Nat, A \in Nat, t \in Nat : b = 8 * k + 35 /\ A = 4 + k /\ t = 3 * m + 20000
  BY <1>1
<1>3. m \in Nat /\ Price(m) < t
  BY <1>1, <1>2, Prices
<1>4. InOne(b, A, k, {m}, m, t)
  BY <1>1, <1>2 DEF InBoundary
<1>5. StandsAt(Program[top], b, RunOne(k, {m}, t), 8)
  <2> DEFINE S(i) ==
               StandsAt(Program["axi"], 8 * i + 35, RunOne(i, {Bound(i)}, 3 * Bound(i) + 20000), 8)
  <2>1. \A i \in 0..1 : S(i)
    BY AxiOps, SMTT(20)
  <2> HIDE DEF S
  <2>2. S(k)
    BY <2>1
  <2>3. QED
    BY <1>1, <1>2, <2>2 DEF S
<1>6. k \in Slot /\ {m} \in SUBSET Val /\ (\A x \in {m} : x \in Nat /\ x <= m)
  BY <1>3 DEF Slot, QDEPTH
<1>7. /\ Ready' /\ top' = top
      /\ InOne(b, A, k, {m}, m, t)' \/ (step' = b + 9 /\ Idle(A + 1)')
  BY <1>3, <1>4, <1>5, <1>6, OneStep
<1>8. CASE InOne(b, A, k, {m}, m, t)'
  BY <1>1, <1>2, <1>7, <1>8 DEF InBoundary
<1>9. CASE step' = b + 9 /\ Idle(A + 1)'
  <2>1. b + 9 = 8 * k + 44 /\ A + 1 = 5 + k
    BY <1>2
  <2>2. QED
    BY <1>7, <1>9, <2>1
<1>10. QED
  BY <1>7, <1>8, <1>9

(* One of the overlapping commands.                                        *)
LEMMA OverlapStep ==
    ASSUME InTime, Ready, pc = "tb", TbStep, top = "axi", NEW k \in 0..19, InOverlap(k)
    PROVE  /\ Ready' /\ top' = top
           /\ InOverlap(k)' \/ (step' = 8 * k + 112 /\ Idle(13 + k)')
<1>1. PICK b \in Nat, A \in Nat, m \in Nat, t \in Nat :
          b = 8 * k + 103 /\ A = 12 + k /\ m = 64 /\ t = 20003
  OBVIOUS
<1>2. PICK c \in Slot : c = k % 3
  BY DEF Slot, QDEPTH
<1>3. PICK ms \in SUBSET Val : ms = RandRows
  BY TbAssumption
<1>4. (\A x \in ms : x \in Nat /\ x <= m) /\ Price(m) < t
  BY <1>1, <1>3, TbAssumption, Prices
<1>5. InOne(b, A, c, ms, m, t)
  BY <1>1, <1>2, <1>3 DEF InOverlap
<1>6. StandsAt(Program[top], b, RunOne(c, ms, t), 8)
  BY <1>1, <1>2, <1>3, AxiOps
<1>7. /\ Ready' /\ top' = top
      /\ InOne(b, A, c, ms, m, t)' \/ (step' = b + 9 /\ Idle(A + 1)')
  BY <1>4, <1>5, <1>6, OneStep
<1>8. CASE InOne(b, A, c, ms, m, t)'
  BY <1>1, <1>2, <1>3, <1>7, <1>8 DEF InOverlap
<1>9. CASE step' = b + 9 /\ Idle(A + 1)'
  <2>1. b + 9 = 8 * k + 112 /\ A + 1 = 13 + k
    BY <1>1
  <2>2. QED
    BY <1>7, <1>9, <2>1
<1>10. QED
  BY <1>7, <1>8, <1>9

(* The same for the program of the other top.                              *)
LEMMA AxiStep ==
    ASSUME InTime, Ready, pc = "tb", TbStep, top = "axi", InAxi
    PROVE  Ready' /\ top' = top /\ (InAxi' \/ step' = 264)
<1>1. /\ StandsAt(Program[top], 0, PowerUp, 4)
      /\ StandsAt(Program[top], 4, FourBackToBack(200000), 31)
      /\ StandsAt(Program[top], 51, QueueFull(200, 200000), 38)
      /\ StandsAt(Program[top], 89, Interrupt(5000), 14)
  BY AxiOps
<1>2. 4 * Price(6) < 200000 /\ 5 * Price(200) < 200000 /\ Price(2) <= 5000
  BY Prices
<1>3. CASE InPowerUp
  <2>1. Ready' /\ Idle(0)' /\ dc_before' = 0 /\ top' = top /\ step' = step + 1
    BY <1>1, <1>3, PowerUpStep
  <2>2. InPowerUp' \/ InFour(4, 200000)'
    <3>1. CASE step = 4
      <4>1. step' = 4 + 1 /\ 1 \in 1..4
        BY <2>1, <3>1
      <4>2. QED
        BY <2>1, <4>1 DEF InFour
    <3>2. CASE step # 4
      <4>1. step' \in 1..4
        BY <1>3, <2>1, <3>2 DEF InPowerUp
      <4>2. QED
        BY <2>1, <4>1 DEF InPowerUp
    <3>3. QED
      BY <3>1, <3>2
  <2>3. QED
    BY <2>1, <2>2 DEF InAxi
<1>4. CASE InFour(4, 200000)
  <2>1. PICK b \in Nat, t \in Nat : b = 4 /\ t = 200000
    OBVIOUS
  <2>2. /\ Ready' /\ top' = top
        /\ InFour(b, t)' \/ (step' = b + 32 /\ Idle(4)')
    BY <1>1, <1>2, <1>4, <2>1, FourStep
  <2>3. CASE InFour(b, t)'
    BY <2>1, <2>2, <2>3 DEF InAxi
  <2>4. CASE step' = b + 32 /\ Idle(4)'
    <3>1. step' = 8 * 0 + 35 + 1 /\ 4 + 0 = 4 /\ 0 \in 0..1
      BY <2>1, <2>4
    <3>2. InBoundary(0)'
      BY <2>4, <3>1 DEF InBoundary, InOne
    <3>3. QED
      BY <2>2, <3>1, <3>2 DEF InAxi
  <2>5. QED
    BY <2>2, <2>3, <2>4
<1>5. ASSUME NEW k \in 0..1, InBoundary(k)
      PROVE  Ready' /\ top' = top /\ InAxi'
  <2>1. /\ Ready' /\ top' = top
        /\ InBoundary(k)' \/ (step' = 8 * k + 44 /\ Idle(5 + k)')
    BY <1>5, BoundaryStep
  <2>2. CASE InBoundary(k)'
    BY <2>1, <2>2 DEF InAxi
  <2>3. CASE step' = 8 * k + 44 /\ Idle(5 + k)' /\ k = 0
    <3>1. step' = 8 * 1 + 35 + 1 /\ 4 + 1 = 5 + k /\ 1 \in 0..1
      BY <2>3
    <3>2. Idle(4 + 1)'
      BY <2>3, <3>1
    <3>3. InBoundary(1)'
      BY <3>1, <3>2 DEF InBoundary, InOne
    <3>4. QED
      BY <2>1, <3>1, <3>3 DEF InAxi
  <2>4. CASE step' = 8 * k + 44 /\ Idle(5 + k)' /\ k = 1
    <3>1. step' = 51 + 1 /\ 5 + k = 6
      BY <2>4
    <3>2. Idle(6)'
      BY <2>4, <3>1
    <3>3. InFull(51, 6, 200, 200000)'
      BY <3>1, <3>2 DEF InFull
    <3>4. QED
      BY <2>1, <3>3 DEF InAxi
  <2>5. QED
    BY <2>1, <2>2, <2>3, <2>4
<1>6. CASE InFull(51, 6, 200, 200000)
  <2>1. PICK b \in Nat, A \in Nat, m \in Val, t \in Nat : b = 51 /\ A = 6 /\ m = 200 /\ t = 200000
    BY TbAssumption
  <2>2. /\ Ready' /\ top' = top
        /\ InFull(b, A, m, t)' \/ (step' = b + 39 /\ Idle(A + 5)')
    <3>1. A < 7 /\ m \in Nat /\ 200 <= m
      BY <2>1
    <3>2. /\ 5 * Price(m) < t /\ InFull(b, A, m, t)
          /\ StandsAt(Program[top], b, QueueFull(m, t), 38)
      BY <1>1, <1>2, <1>6, <2>1
    <3>3. QED
      BY <3>1, <3>2, FullStep
  <2>3. CASE InFull(b, A, m, t)'
    BY <2>1, <2>2, <2>3 DEF InAxi
  <2>4. CASE step' = b + 39 /\ Idle(A + 5)'
    <3>1. step' = 89 + 1 /\ A + 5 = 11
      BY <2>1, <2>4
    <3>2. Idle(11)'
      BY <2>4, <3>1
    <3>3. InInterrupt(89, 11, 5000)'
      BY <3>1, <3>2 DEF InInterrupt
    <3>4. QED
      BY <2>2, <3>3 DEF InAxi
  <2>5. QED
    BY <2>2, <2>3, <2>4
<1>7. CASE InInterrupt(89, 11, 5000)
  <2>1. PICK b \in Nat, A \in Nat, t \in Nat : b = 89 /\ A = 11 /\ t = 5000
    OBVIOUS
  <2>2. /\ Ready' /\ top' = top
        /\ InInterrupt(b, A, t)' \/ (step' = b + 15 /\ Idle(A + 1)')
    BY <1>1, <1>2, <1>7, <2>1, InterruptStep
  <2>3. CASE InInterrupt(b, A, t)'
    BY <2>1, <2>2, <2>3 DEF InAxi
  <2>4. CASE step' = b + 15 /\ Idle(A + 1)'
    <3>1. step' = 8 * 0 + 103 + 1 /\ A + 1 = 12 + 0 /\ 0 \in 0..19
      BY <2>1, <2>4
    <3>2. Idle(12 + 0)'
      BY <2>4, <3>1
    <3>3. InOverlap(0)'
      BY <3>1, <3>2 DEF InOverlap, InOne
    <3>4. QED
      BY <2>2, <3>1, <3>3 DEF InAxi
  <2>5. QED
    BY <2>2, <2>3, <2>4
<1>8. ASSUME NEW k \in 0..19, InOverlap(k)
      PROVE  Ready' /\ top' = top /\ (InAxi' \/ step' = 264)
  <2>1. /\ Ready' /\ top' = top
        /\ InOverlap(k)' \/ (step' = 8 * k + 112 /\ Idle(13 + k)')
    BY <1>8, OverlapStep
  <2>2. CASE InOverlap(k)'
    BY <2>1, <2>2 DEF InAxi
  <2>3. CASE step' = 8 * k + 112 /\ Idle(13 + k)' /\ k = 19
    BY <2>1, <2>3
  <2>4. CASE step' = 8 * k + 112 /\ Idle(13 + k)' /\ k # 19
    <3>1. PICK l \in 0..19 : l = k + 1
      BY <2>4
    <3>2. step' = 8 * l + 103 + 1 /\ 12 + l = 13 + k
      BY <2>4, <3>1
    <3>3. Idle(12 + l)'
      BY <2>4, <3>2
    <3>4. InOverlap(l)'
      BY <3>2, <3>3 DEF InOverlap, InOne
    <3>5. QED
      BY <2>1, <3>4 DEF InAxi
  <2>5. QED
    BY <2>1, <2>2, <2>3, <2>4
<1>9. QED
  BY <1>3, <1>4, <1>5, <1>6, <1>7, <1>8 DEF InAxi

(* A test program goes on until it has done its last operation.            *)
LEMMA Onward ==
    ASSUME pc = "tb", TbStep, step \in 1..Len(Program[top]), top' = top,
           Len(Program[top]) \in Nat
    PROVE  pc' = "tb" => step' \in 1..Len(Program[top])
<1>1. Advance \/ (step' = step /\ pc' = pc)
  BY DEF TbStep, ResetTick, PlainTick, Load, MmioWrite, MmioCommand, MmioWriteIrq, ReadIrq,
         ReadStatus, PollDrained, WaitIrq, IrqLow, Verify, Save, vars
<1>2. QED
  BY <1>1 DEF Advance

TbInv ==
    /\ all_pass
    /\ pc = "tb" => /\ Ready /\ step \in 1..Len(Program[top])
                    /\ top = "mmio" => InMmio
                    /\ top = "axi" => InAxi

(* How long the programs are.                                              *)
LEMMA ProgramLengths == Len(Program["mmio"]) = 87 /\ Len(Program["axi"]) = 263
<1>1. Len(Program["mmio"]) = 87
  BY MmioOps
<1>2. Len(Program["axi"]) = 263
  BY AxiOps
<1>3. QED
  BY <1>1, <1>2

(* The tests begin at the power-up.                                        *)
LEMMA TbInitially == TbInit => TbInv
<1> SUFFICES ASSUME TbInit PROVE TbInv
  OBVIOUS
<1>1. CASE pc = "tb"
  <2>1. HostInit /\ top \in {"mmio", "axi"}
    BY <1>1 DEF TbInit, Init
  <2>2. RP!Inv /\ accepted = 0 /\ retired = 0
    BY <2>1, HostInitStep
  <2>3. ~busy
    BY <2>1 DEF HostInit, Regs!Init, Regs!DP!Init
  <2>4. step = 1 /\ elapsed = 0 /\ dc_before = 0 /\ all_pass
    BY DEF TbInit
  <2>5. DOMAIN c_buf = Slot /\ DOMAIN want = Slot
    BY <2>1 DEF TbInit, HostInit
  <2>6. Ready
    BY <2>1, <2>2, <2>3, <2>4, <2>5 DEF Ready, Timely
  <2>7. InPowerUp
    BY <2>2, <2>4 DEF InPowerUp, Idle
  <2>8. step \in 1..Len(Program[top])
    <3>1. Len(Program[top]) \in Nat /\ 1 <= Len(Program[top])
      <4>1. CASE top = "mmio"
        BY <4>1, ProgramLengths
      <4>2. CASE top = "axi"
        BY <4>2, ProgramLengths
      <4>3. QED
        BY <2>1, <4>1, <4>2
    <3>2. QED
      BY <2>4, <3>1
  <2>9. QED
    BY <2>4, <2>6, <2>7, <2>8 DEF TbInv, InMmio, InAxi
<1>2. CASE pc # "tb"
  BY <1>2 DEF TbInit, TbInv
<1>3. QED
  BY <1>1, <1>2

(* A host never becomes a test program.                                    *)
LEMMA HostStaysHost ==
    ASSUME pc # "tb", Next
    PROVE  pc' # "tb"
BY DEF Next, Drive, Issue, Poll, ReadBack, NextCall, OtherCycle, MemWriteW, MemWriteA,
       WriteRegs, StoreCmd

(* Where nothing changes, the tests stay where they are.                   *)
LEMMA StillReady ==
    ASSUME UNCHANGED allVars, Ready
    PROVE  Ready'
<1>1. UNCHANGED <<regVars, top, elapsed, c_buf>> /\ want' = want /\ all_pass' = all_pass
  BY DEF allVars, vars, tbVars, bufVars
<1>2. PICK C : C = [i \in Int |-> {}]
  OBVIOUS
<1>3. UNCHANGED RP!vars
  BY <1>1 DEF regVars, RP!vars, RP!fifoVars, RP!retireVars
<1>4. RP!Inv'
  BY <1>3, RegsAssumptions, RP!IdleStep DEF Ready
<1>5. QED
  BY <1>1, <1>4 DEF Ready, Timely, regVars, MaxLatency, Latency

(* Neither do the tests.                                                   *)
LEMMA StillThere ==
    ASSUME UNCHANGED allVars
    PROVE  /\ \A n : Idle(n) => Idle(n)'
           /\ \A k, r, c, ms : Held(k, r, c, ms) => Held(k, r, c, ms)'
           /\ \A C : InLine(C) => InLine(C)'
           /\ \A A, F : Answered(A, F) => Answered(A, F)'
           /\ \A m : Work(Price(m))' = Work(Price(m))
           /\ \A A, j : Ahead(A, j) => Ahead(A, j)'
           /\ \A A : Armed(A) => Armed(A)'
           /\ accepted' = accepted /\ retired' = retired /\ step' = step /\ cycles' = cycles
           /\ status' = status /\ dc_before' = dc_before
           /\ want' = want /\ c_buf' = c_buf /\ w_buf' = w_buf /\ a_buf' = a_buf
           /\ top' = top /\ pc' = pc /\ all_pass' = all_pass
<1>1. /\ UNCHANGED <<hold, fifo_mem, fifo_rp, fifo_cnt, start, cmd, irq_en>>
      /\ UNCHANGED <<busy, done, accepted, retired, acked, w_buf, a_buf, c_buf, pc>>
      /\ UNCHANGED <<top, step, elapsed, status, dc_before, cycles, want, all_pass>>
  BY DEF allVars, vars, tbVars, bufVars, regVars
<1>2. \A n : Idle(n) => Idle(n)'
  BY <1>1 DEF Idle
<1>3. \A k, r, c, ms : Held(k, r, c, ms) => Held(k, r, c, ms)'
  BY <1>1 DEF Held
<1>4. \A C : InLine(C) => InLine(C)'
  BY <1>1 DEF InLine
<1>5. \A A, F : Answered(A, F) => Answered(A, F)'
  BY <1>1 DEF Answered
<1>6. \A m : Work(Price(m))' = Work(Price(m))
  BY <1>1 DEF Work, Price, Rest, MaxLatency, Latency, Lag
<1>7. \A A, j : Ahead(A, j) => Ahead(A, j)'
  BY <1>1 DEF Ahead
<1>8. \A A : Armed(A) => Armed(A)'
  BY <1>1 DEF Armed
<1>9. QED
  BY <1>1, <1>2, <1>3, <1>4, <1>5, <1>6, <1>7, <1>8

(* Nor do the tests.                                                       *)
LEMMA StillIn ==
    ASSUME UNCHANGED allVars
    PROVE  /\ InPowerUp => InPowerUp'
           /\ \A b, t : InFour(b, t) => InFour(b, t)'
           /\ \A b, A, c, ms, m, t : InOne(b, A, c, ms, m, t) => InOne(b, A, c, ms, m, t)'
           /\ \A b, A, m, t : InFull(b, A, m, t) => InFull(b, A, m, t)'
           /\ \A b, A, t : InInterrupt(b, A, t) => InInterrupt(b, A, t)'
<1>1. InPowerUp => InPowerUp'
  BY StillThere DEF InPowerUp
<1>2. \A n : Issued(n) => Issued(n)'
  BY StillThere DEF Issued
<1>3. ASSUME NEW b, NEW t, InFour(b, t) PROVE InFour(b, t)'
  BY <1>2, <1>3, StillThere DEF InFour
<1>4. ASSUME NEW b, NEW A, NEW c, NEW ms, NEW m, NEW t, InOne(b, A, c, ms, m, t)
      PROVE  InOne(b, A, c, ms, m, t)'
  BY <1>4, StillThere DEF InOne
<1>5. \A A, m, n, j : Queued(A, m, n, j) => Queued(A, m, n, j)'
  BY StillThere DEF Queued
<1>6. ASSUME NEW b, NEW A, NEW m, NEW t, InFull(b, A, m, t) PROVE InFull(b, A, m, t)'
  BY <1>5, <1>6, StillThere DEF InFull
<1>7. ASSUME NEW b, NEW A, NEW t, InInterrupt(b, A, t) PROVE InInterrupt(b, A, t)'
  BY <1>7, StillThere DEF InInterrupt
<1>8. QED
  BY <1>1, <1>3, <1>4, <1>6, <1>7

(* On either top every check of its test program passes: the commands are  *)
(* done within the waits, the queue fills behind the long command and      *)
(* drops the store it has no room for, done_count tells exactly how many   *)
(* were accepted, the interrupt comes and goes, and every result is the    *)
(* one golden() computed (tb_mmio.cpp:243, tb_coproc_axi.cpp:356), for     *)
(* every array and memory that InTime allows and whatever time a command   *)
(* takes within its bounds.                                                *)
THEOREM ProgramsPass ==
    ASSUME InTime
    PROVE  TbSpec => []AllPass
<1>1. TbInit => TbInv
  BY TbInitially
<1>2. TbInv /\ [TbNext]_allVars => TbInv'
  <2> SUFFICES ASSUME TbInv, [TbNext]_allVars PROVE TbInv'
    OBVIOUS
  <2>1. CASE TbStep /\ pc = "tb"
    <3>1. Ready /\ step \in 1..Len(Program[top]) /\ top \in {"mmio", "axi"}
      BY <2>1 DEF TbInv, Ready
    <3>2. CASE top = "mmio"
      <4>1. Ready' /\ top' = top /\ (InMmio' \/ step' = 88)
        BY <2>1, <3>1, <3>2, MmioStep DEF TbInv
      <4>2. Len(Program[top]) = 87
        BY <3>2, ProgramLengths
      <4>3. pc' = "tb" => step' \in 1..Len(Program[top])
        BY <2>1, <3>1, <4>1, <4>2, Onward
      <4>4. QED
        BY <3>2, <4>1, <4>2, <4>3 DEF TbInv, Ready
    <3>3. CASE top = "axi"
      <4>1. Ready' /\ top' = top /\ (InAxi' \/ step' = 264)
        BY <2>1, <3>1, <3>3, AxiStep DEF TbInv
      <4>2. Len(Program[top]) = 263
        BY <3>3, ProgramLengths
      <4>3. pc' = "tb" => step' \in 1..Len(Program[top])
        BY <2>1, <3>1, <4>1, <4>2, Onward
      <4>4. QED
        BY <3>3, <4>1, <4>2, <4>3 DEF TbInv, Ready
    <3>4. QED
      BY <3>1, <3>2, <3>3
  <2>2. CASE Backend /\ Next
    <3>1. pc' # "tb" /\ all_pass' = all_pass
      BY <2>2, HostStaysHost DEF Backend, tbVars
    <3>2. QED
      BY <3>1 DEF TbInv
  <2>3. CASE UNCHANGED allVars
    <3>1. pc' = pc /\ all_pass' = all_pass /\ step' = step /\ top' = top
      BY <2>3, StillThere
    <3>2. Ready => Ready'
      BY <2>3, StillReady
    <3>3. InMmio => InMmio'
      BY <2>3, StillIn DEF InMmio
    <3>4. InAxi => InAxi'
      BY <2>3, StillIn DEF InAxi, InBoundary, InOverlap
    <3>5. QED
      BY <3>1, <3>2, <3>3, <3>4 DEF TbInv
  <2>4. TbStep => pc = "tb"
    BY DEF TbStep, At, ResetTick, PlainTick, Load, MmioWrite, MmioCommand, MmioWriteIrq, ReadIrq,
           ReadStatus, PollDrained, WaitIrq, IrqLow, Verify, Save
  <2>5. QED
    BY <2>1, <2>2, <2>3, <2>4 DEF TbNext
<1>3. TbInv => AllPass
  BY DEF TbInv, AllPass
<1>4. QED
  BY <1>1, <1>2, <1>3, PTL DEF TbSpec

===============================================================================
