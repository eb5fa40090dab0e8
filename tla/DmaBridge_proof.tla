---------------------------- MODULE DmaBridge_proof ----------------------------
(***************************************************************************)
(* Proofs about the AXI4 DMA bridge and its memories, for every size of    *)
(* the array and of the FIFOs, every burst limit, every set of commands,   *)
(* any stalls, resets and refused bursts: types, the handshakes on both    *)
(* ports, the regions of the bursts and the start/busy/done contract of    *)
(* module Datapath; and, for commands that fit the FIFOs (JobsFit), the    *)
(* levels of the FIFOs and what is in memory when done pulses.             *)
(*                                                                         *)
(* The argument for the ports: each engine of the bridge and the engine of *)
(* the memory opposite it walk through one burst in step, so that only     *)
(* the few pairs of states listed in ReadPort and WritePort can occur.     *)
(* For the levels: a FIFO holds what has been put in (rd_issued words,     *)
(* Made rows) less what has been taken out (Taken, Sent), and the phase of *)
(* the command bounds each of the four.  For the contents: item k put in   *)
(* is item k taken out (Ring), so that every word is where its number in   *)
(* the command says, from the read port to memory.                         *)
(***************************************************************************)
EXTENDS DmaBridge, TLAPS

\* The counters of both engines and of the memory's write side.
Counters ==
    /\ rd_total \in Nat /\ rd_issued \in Nat
    /\ wr_total \in Nat /\ wr_issued \in Nat /\ wr_acked \in Nat
    /\ w_burst_len \in Nat /\ w_beat_cnt \in Nat
    /\ aw_beat \in Nat /\ aw_len_r \in Int

Types == TypeOK /\ Counters

\* Where a read burst is: not asked for, asked for, under way, or its last
\* beat waiting.
ReadPort ==
    \/ rstate \in {"R_IDLE", "R_ISSUE"} /\ ar_state = "AR_IDLE" /\ ~arvalid /\ ~rvalid
    \/ rstate = "R_BURST" /\ ar_state = "AR_IDLE" /\ arvalid /\ ~rvalid
    \/ rstate = "R_BURST" /\ ar_state = "AR_BURST" /\ ~arvalid /\ (rvalid => ~rlast)
    \/ rstate = "R_BURST" /\ ar_state = "AR_IDLE" /\ ~arvalid /\ rvalid /\ rlast

\* Where a write burst is, one line per state of the write engine; both
\* sides count the same beats of the same burst.
WritePort ==
    \/ wstate = "W_IDLE" /\ aw_state = "AW_IDLE" /\ ~awvalid /\ ~wvalid /\ ~bvalid
    \/ /\ wstate = "W_AW" /\ aw_state = "AW_IDLE" /\ awvalid /\ ~wvalid /\ ~bvalid
       /\ awlen = w_burst_len - 1 /\ w_beat_cnt = 0
    \/ /\ wstate = "W_DATA" /\ aw_state = "AW_DATA" /\ ~awvalid /\ wvalid /\ ~bvalid
       /\ aw_len_r = w_burst_len - 1 /\ aw_beat = w_beat_cnt
       /\ wlast <=> aw_beat = aw_len_r
    \/ wstate = "W_BRESP" /\ aw_state = "AW_RESP" /\ ~awvalid /\ ~wvalid /\ bvalid

IInv == Types /\ ReadPort /\ WritePort

-------------------------------------------------------------------------------
(* Types, engine by engine.                                                *)

LEMMA IncInRange ==
    ASSUME NEW d \in Nat \ {0}, NEW p \in 0..(d - 1)
    PROVE  Inc(p, d) \in 0..(d - 1)
BY DEF Inc

LEMMA ReadTypes ==
    ASSUME Types, NEW start \in BOOLEAN, NEW in \in Jobs, NEW arready \in BOOLEAN,
           RdEdge(start, in, arready)
    PROVE  /\ lat' \in Jobs /\ rstate' \in {"R_IDLE", "R_ISSUE", "R_BURST"}
           /\ rf_wptr' \in 0..(RD_DEPTH - 1) /\ rf_rptr' \in 0..(RD_DEPTH - 1)
           /\ rf_count' \in 0..(CNT_MOD - 1) /\ arlen' \in 0..(LEN_MOD - 1)
           /\ rd_total' \in Nat /\ rd_issued' \in Nat
<1> USE DEF Types, TypeOK, Counters
<1>1. /\ rf_wptr' \in 0..(RD_DEPTH - 1) /\ rf_rptr' \in 0..(RD_DEPTH - 1)
      /\ rf_count' \in 0..(CNT_MOD - 1)
  <2>1. /\ rf_wptr' \in {rf_wptr, Inc(rf_wptr, RD_DEPTH)}
        /\ rf_rptr' \in {rf_rptr, Inc(rf_rptr, RD_DEPTH)}
    BY DEF RdEdge, RdFifoEdge
  <2>2. rf_count + Bit(RBeat) - Bit(rd_en) \in Int /\ CNT_MOD \in Nat \ {0}
    BY StreamAssumption DEF Bit
  <2>3. rf_count' \in 0..(CNT_MOD - 1)
    BY <2>2 DEF RdEdge, RdFifoEdge
  <2>4. QED
    BY <2>1, <2>3, IncInRange, BridgeAssumption
<1>2. /\ lat' \in Jobs /\ rstate' \in {"R_IDLE", "R_ISSUE", "R_BURST"}
      /\ arlen' \in 0..(LEN_MOD - 1) /\ rd_total' \in Nat /\ rd_issued' \in Nat
  <2>1. CASE RdIdle(start, in, arready)
    <3>1. (N + in.m) % CNT_MOD \in Nat
      <4>1. N \in Nat /\ in.m \in Nat /\ CNT_MOD \in Nat \ {0}
        BY StreamAssumption, BridgeAssumption
      <4>2. QED
        BY <4>1
    <3>2. QED
      BY <2>1, <3>1 DEF RdIdle
  <2>2. CASE RdIssue(arready)
    <3>1. ASSUME rd_issued < rd_total, next_burst_len # 0
          PROVE  next_burst_len - 1 \in 0..(LEN_MOD - 1)
      <4>1. rd_remaining \in Nat
        BY <3>1, StreamAssumption DEF rd_remaining
      <4>2. rf_room \in Nat
        <5>1. RD_DEPTH - rf_count \in Int /\ CNT_MOD \in Nat \ {0}
          BY StreamAssumption, BridgeAssumption
        <5>2. QED
          BY <5>1 DEF rf_room
      <4>3. next_burst_len \in Nat /\ next_burst_len <= BURST_MAX
        BY <4>1, <4>2, BridgeAssumption DEF next_burst_len, Lesser
      <4>4. QED
        BY <3>1, <4>3, BridgeAssumption
    <3>2. QED
      BY <2>2, <3>1 DEF RdIssue
  <2>3. CASE RdBurst(arready)
    BY <2>3 DEF RdBurst, Bit
  <2>4. QED
    BY <2>1, <2>2, <2>3 DEF RdEdge
<1>3. QED
  BY <1>1, <1>2

LEMMA WriteTypes ==
    ASSUME Types, NEW start \in BOOLEAN, NEW in \in Jobs,
           NEW awready \in BOOLEAN, NEW wready \in BOOLEAN,
           WrEdge(start, in, awready, wready)
    PROVE  /\ wstate' \in {"W_IDLE", "W_AW", "W_DATA", "W_BRESP"}
           /\ wf_wptr' \in 0..(WR_DEPTH - 1) /\ wf_rptr' \in 0..(WR_DEPTH - 1)
           /\ wf_count' \in 0..(CNT_MOD - 1) /\ awlen' \in 0..(LEN_MOD - 1)
           /\ wr_total' \in Nat /\ wr_issued' \in Nat /\ wr_acked' \in Nat
           /\ w_burst_len' \in Nat /\ w_beat_cnt' \in Nat
<1> USE DEF Types, TypeOK, Counters
<1>1. /\ wf_wptr' \in 0..(WR_DEPTH - 1) /\ wf_rptr' \in 0..(WR_DEPTH - 1)
      /\ wf_count' \in 0..(CNT_MOD - 1)
  <2>1. /\ wf_wptr' \in {wf_wptr, Inc(wf_wptr, WR_DEPTH)}
        /\ wf_rptr' \in {wf_rptr, Inc(wf_rptr, WR_DEPTH)}
    BY DEF WrEdge, WrFifoEdge
  <2>2. wf_count + Bit(wr_en) - Bit(WBeat(wready)) \in Int /\ CNT_MOD \in Nat \ {0}
    BY StreamAssumption DEF Bit
  <2>3. wf_count' \in 0..(CNT_MOD - 1)
    BY <2>2 DEF WrEdge, WrFifoEdge
  <2>4. QED
    BY <2>1, <2>3, IncInRange, BridgeAssumption
<1>2. wr_total' \in Nat /\ wr_issued' \in Nat /\ wr_acked' \in Nat
  <2>1. in.m \in Nat
    BY BridgeAssumption
  <2>2. QED
    BY <2>1 DEF WrEdge, WrCounters
<1>3. /\ wstate' \in {"W_IDLE", "W_AW", "W_DATA", "W_BRESP"}
      /\ awlen' \in 0..(LEN_MOD - 1) /\ w_burst_len' \in Nat /\ w_beat_cnt' \in Nat
  <2>1. next_wburst_len \in Nat /\ next_wburst_len <= BURST_MAX
    <3>1. rem % LEN_MOD \in Nat
      <4>1. wr_total - wr_issued \in Int /\ CNT_MOD \in Nat \ {0} /\ LEN_MOD \in Nat \ {0}
        BY StreamAssumption, BridgeAssumption
      <4>2. rem \in Int
        BY <4>1 DEF rem
      <4>3. QED
        BY <4>1, <4>2
    <3>2. QED
      BY <3>1, BridgeAssumption DEF next_wburst_len, Lesser
  <2>2. CASE WrIdle
    BY <2>1, <2>2, BridgeAssumption DEF WrIdle
  <2>3. CASE WrAddr(awready) \/ WrResp
    BY <2>3 DEF WrAddr, WrResp
  <2>4. CASE WrData(wready)
    BY <2>4 DEF WrData
  <2>5. QED
    BY <2>2, <2>3, <2>4 DEF WrEdge
<1>4. QED
  BY <1>1, <1>2, <1>3

-------------------------------------------------------------------------------
(* The two ports.                                                          *)

LEMMA ReadPortStep ==
    ASSUME IInv, NEW start \in BOOLEAN, NEW in \in Jobs,
           NEW arready \in BOOLEAN, NEW r_gate \in BOOLEAN,
           RdEdge(start, in, arready), RamRdEdge(arready, r_gate)
    PROVE  ReadPort'
<1> USE DEF RamRdEdge, ramRdVars
<1>1. CASE rstate = "R_IDLE"
  <2>1. RdIdle(start, in, arready) /\ ar_state = "AR_IDLE" /\ ~arvalid /\ ~rvalid
    BY <1>1 DEF RdEdge, RdIssue, RdBurst, IInv, ReadPort
  <2>2. QED
    BY <2>1, <1>1 DEF RdIdle, ar_held, ReadPort
<1>2. CASE rstate = "R_ISSUE"
  <2>1. RdIssue(arready) /\ ar_state = "AR_IDLE" /\ ~arvalid /\ ~rvalid
    BY <1>2 DEF RdEdge, RdIdle, RdBurst, IInv, ReadPort
  <2>2. ar_state' = "AR_IDLE" /\ ~rvalid'
    BY <2>1
  <2>3. QED
    BY <2>1, <2>2, <1>2 DEF RdIssue, ar_held, ReadPort
<1>3. CASE rstate = "R_BURST"
  <2>0. RdBurst(arready)
    BY <1>3 DEF RdEdge, RdIdle, RdIssue
  <2>1. CASE ar_state = "AR_IDLE" /\ arvalid /\ ~rvalid
    BY <2>0, <2>1, <1>3 DEF RdBurst, ar_held, RBeat, ReadPort
  <2>2. CASE ar_state = "AR_BURST" /\ ~arvalid /\ (rvalid => ~rlast)
    BY <2>0, <2>2, <1>3 DEF RdBurst, ar_held, RBeat, ReadPort
  <2>3. CASE ar_state = "AR_IDLE" /\ ~arvalid /\ rvalid /\ rlast
    BY <2>0, <2>3, <1>3 DEF RdBurst, ar_held, RBeat, ReadPort
  <2>4. QED
    BY <1>3, <2>1, <2>2, <2>3 DEF IInv, ReadPort
<1>4. QED
  BY <1>1, <1>2, <1>3 DEF IInv, ReadPort

LEMMA WritePortStep ==
    ASSUME IInv, NEW start \in BOOLEAN, NEW in \in Jobs,
           NEW awready \in BOOLEAN, NEW wready \in BOOLEAN, NEW fail,
           WrEdge(start, in, awready, wready), RamWrEdge(awready, wready, fail)
    PROVE  WritePort' /\ aw_beat' \in Nat /\ aw_len_r' \in Int
<1> USE DEF RamWrEdge, WBeat
<1>1. CASE wstate = "W_IDLE"
  <2>1. WrIdle /\ aw_state = "AW_IDLE" /\ ~awvalid /\ ~wvalid /\ ~bvalid
    BY <1>1 DEF WrEdge, WrAddr, WrData, WrResp, IInv, WritePort
  <2>2. aw_state' = "AW_IDLE" /\ ~wvalid' /\ ~bvalid' /\ UNCHANGED <<aw_beat, aw_len_r>>
    BY <2>1 DEF WrIdle
  <2>3. QED
    BY <1>1, <2>1, <2>2 DEF WrIdle, WritePort, IInv, Types, Counters
<1>2. CASE wstate = "W_AW"
  <2>1. /\ WrAddr(awready) /\ aw_state = "AW_IDLE" /\ awvalid /\ ~wvalid /\ ~bvalid
        /\ awlen = w_burst_len - 1 /\ w_beat_cnt = 0
    BY <1>2 DEF WrEdge, WrIdle, WrData, WrResp, IInv, WritePort
  <2>2. CASE awready
    <3>1. /\ wstate' = "W_DATA" /\ aw_state' = "AW_DATA" /\ ~awvalid' /\ wvalid' /\ ~bvalid'
          /\ aw_len_r' = w_burst_len' - 1 /\ aw_beat' = w_beat_cnt' /\ aw_beat' = 0
          /\ wlast' = (w_burst_len = 1) /\ w_burst_len' = w_burst_len
      BY <2>1, <2>2 DEF WrAddr
    <3>2. w_burst_len \in Nat
      BY DEF IInv, Types, Counters
    <3>3. wlast' <=> aw_beat' = aw_len_r'
      <4> HIDE DEF RamWrEdge
      <4>1. w_burst_len = 1 <=> 0 = w_burst_len - 1
        BY <3>2
      <4>2. aw_len_r' = w_burst_len - 1
        BY <3>1
      <4>3. QED
        BY <3>1, <4>1, <4>2
    <3>4. aw_beat' \in Nat /\ aw_len_r' \in Int
      BY <3>1 DEF IInv, Types, Counters
    <3>5. QED
      BY <3>1, <3>3, <3>4 DEF WritePort
  <2>3. CASE ~awready
    BY <1>2, <2>1, <2>3 DEF WrAddr, WritePort, IInv, Types, Counters
  <2>4. QED
    BY <2>2, <2>3
<1>3. CASE wstate = "W_DATA"
  <2>1. /\ WrData(wready) /\ aw_state = "AW_DATA" /\ ~awvalid /\ wvalid /\ ~bvalid
        /\ aw_len_r = w_burst_len - 1 /\ aw_beat = w_beat_cnt
        /\ wlast <=> aw_beat = aw_len_r
    BY <1>3 DEF WrEdge, WrIdle, WrAddr, WrResp, IInv, WritePort
  <2>2. CASE ~wready
    BY <1>3, <2>1, <2>2 DEF WrData, WritePort, IInv, Types, Counters
  <2>3. CASE wready /\ wlast
    BY <2>1, <2>3 DEF WrData, WritePort, IInv, Types, Counters
  <2>4. CASE wready /\ ~wlast
    <3>1. /\ wstate' = "W_DATA" /\ aw_state' = "AW_DATA" /\ ~awvalid' /\ wvalid' /\ ~bvalid'
          /\ aw_len_r' = aw_len_r /\ w_burst_len' = w_burst_len
          /\ aw_beat' = aw_beat + 1 /\ w_beat_cnt' = w_beat_cnt + 1
          /\ wlast' = (w_beat_cnt + 2 = w_burst_len)
      BY <1>3, <2>1, <2>4 DEF WrData, next_last
    <3>2. wlast' <=> aw_beat' = aw_len_r'
      BY <2>1, <3>1 DEF IInv, Types, Counters
    <3>3. QED
      BY <2>1, <3>1, <3>2 DEF WritePort, IInv, Types, Counters
  <2>5. QED
    BY <2>2, <2>3, <2>4
<1>4. CASE wstate = "W_BRESP"
  <2>1. WrResp /\ aw_state = "AW_RESP" /\ ~awvalid /\ ~wvalid /\ bvalid
    BY <1>4 DEF WrEdge, WrIdle, WrAddr, WrData, IInv, WritePort
  <2>2. QED
    BY <1>4, <2>1 DEF WrResp, WritePort, IInv, Types, Counters
<1>5. QED
  BY <1>1, <1>2, <1>3, <1>4 DEF IInv, WritePort

-------------------------------------------------------------------------------
(* A clock edge, unfolded once for the theorems below.                     *)

\* An edge with inputs as the command queue and the memories give them.
SomeEdge(start, in, arready, r_gate, awready, wready, fail) ==
    /\ Clock(start, in, arready, r_gate, awready, wready, fail)
    /\ fail => upsets < MaxUpsets
    /\ bridge_busy => in = lat

LEMMA CycleIsClock ==
    ASSUME IInv, Cycle
    PROVE  \E start, arready, r_gate, awready, wready, fail \in BOOLEAN, in \in Jobs :
               SomeEdge(start, in, arready, r_gate, awready, wready, fail)
<1>1. PICK start \in Gate(~bridge_busy), in \in Inputs, arready \in Gate(ArMoves),
           r_gate \in Gate(RMoves), awready \in Gate(AwMoves), wready \in Gate(WMoves) :
           \E fail \in Gate(AwMoves /\ awready /\ upsets < MaxUpsets) :
               Clock(start, in, arready, r_gate, awready, wready, fail)
  BY Zenon DEF Cycle, Step
<1>2. PICK fail \in Gate(AwMoves /\ awready /\ upsets < MaxUpsets) :
           Clock(start, in, arready, r_gate, awready, wready, fail)
  BY <1>1
<1>3. /\ start \in BOOLEAN /\ arready \in BOOLEAN /\ r_gate \in BOOLEAN
      /\ awready \in BOOLEAN /\ wready \in BOOLEAN /\ fail \in BOOLEAN
      /\ fail => upsets < MaxUpsets
  BY Zenon DEF Gate
<1>4. in \in Jobs /\ (bridge_busy => in = lat)
  BY DEF Inputs, IInv, Types, TypeOK
<1>5. SomeEdge(start, in, arready, r_gate, awready, wready, fail)
  BY <1>2, <1>3, <1>4 DEF SomeEdge
<1>6. \E fail_ \in BOOLEAN, in_ \in Jobs :
          SomeEdge(start, in_, arready, r_gate, awready, wready, fail_)
  BY <1>3, <1>4, <1>5
<1>7. \E aw, w, fail_ \in BOOLEAN, in_ \in Jobs :
          SomeEdge(start, in_, arready, r_gate, aw, w, fail_)
  BY <1>3, <1>6
<1>8. \E ar, r, aw, w, fail_ \in BOOLEAN, in_ \in Jobs :
          SomeEdge(start, in_, ar, r, aw, w, fail_)
  BY <1>3, <1>7
<1>9. QED
  BY <1>3, <1>8

(* The sequencer inside stays among its states.                            *)
LEMMA FsmTypes ==
    ASSUME NEW start, NEW job, FsmEdge(start, job) PROVE state' \in States
BY DEF FsmEdge, Idle, LoadAddr, LoadData, LoadPulse, Prefetch, Stream, Finish, States

LEMMA ClockKeepsIInv ==
    ASSUME IInv, NEW start \in BOOLEAN, NEW in \in Jobs, NEW arready \in BOOLEAN,
           NEW r_gate \in BOOLEAN, NEW awready \in BOOLEAN, NEW wready \in BOOLEAN,
           NEW fail \in BOOLEAN, fail => upsets < MaxUpsets,
           Clock(start, in, arready, r_gate, awready, wready, fail)
    PROVE  IInv'
<1>1. ReadPort' /\ WritePort' /\ aw_beat' \in Nat /\ aw_len_r' \in Int
  BY ReadPortStep, WritePortStep DEF Clock
<1>2. state' \in States
  BY FsmTypes DEF Clock, CtrlEdge
<1>3. bstate' \in {"B_IDLE", "B_PREFETCH", "B_RUN", "B_DRAIN"}
  BY DEF Clock, TopEdge, TopIdle, TopPrefetch, TopRun, TopDrain
<1>4. upsets' \in 0..MaxUpsets
  BY BridgeAssumption DEF Clock, Bit, IInv, Types, TypeOK
<1>5. Types'
  BY <1>1, <1>2, <1>3, <1>4, ReadTypes, WriteTypes
     DEF Clock, IInv, Types, TypeOK, Counters
<1>6. QED
  BY <1>1, <1>5 DEF IInv

LEMMA InvStep ==
    ASSUME IInv, [Next]_vars
    PROVE  IInv'
<1>1. CASE Cycle
  <2>1. PICK start, arready, r_gate, awready, wready, fail \in BOOLEAN, in \in Jobs :
             SomeEdge(start, in, arready, r_gate, awready, wready, fail)
    BY <1>1, CycleIsClock
  <2>2. QED
    BY <2>1, ClockKeepsIInv DEF SomeEdge
<1>2. CASE Reset
  <2>1. ReadPort' /\ WritePort'
    BY <1>2 DEF Reset, ResetEdge, RdReset, WrReset, RamReset, ReadPort, WritePort
  <2>2. Types'
    <3>1. upsets' \in 0..MaxUpsets /\ state' \in States
      BY <1>2, BridgeAssumption
         DEF Reset, ResetEdge, FsmReset, States, IInv, Types, TypeOK
    <3>2. /\ 0 \in 0..(RD_DEPTH - 1) /\ 0 \in 0..(WR_DEPTH - 1) /\ 0 \in 0..(CNT_MOD - 1)
      BY BridgeAssumption, StreamAssumption
    <3>3. QED
      BY <1>2, <3>1, <3>2 DEF Reset, ResetEdge, RdReset, WrReset, TopReset, RamReset,
                              IInv, Types, TypeOK, Counters
  <2>3. QED
    BY <2>1, <2>2 DEF IInv
<1>3. CASE UNCHANGED vars
  BY <1>3 DEF vars, fsmVars, rdVars, wrVars, topVars, pipeVars, ramRdVars, ramWrVars,
              IInv, Types, TypeOK, Counters, ReadPort, WritePort
<1>4. QED
  BY <1>1, <1>2, <1>3 DEF Next

-------------------------------------------------------------------------------
(* The invariant holds in every state the bridge can reach.                *)
THEOREM Invariance == Spec => []IInv
<1>1. Init => IInv
  <2> SUFFICES ASSUME Init PROVE IInv
    OBVIOUS
  <2>1. ReadPort /\ WritePort
    BY DEF Init, ReadPort, WritePort
  <2>2. /\ 0 \in 0..(RD_DEPTH - 1) /\ 0 \in 0..(WR_DEPTH - 1)
        /\ 0 \in 0..(CNT_MOD - 1) /\ 0 \in 0..(LEN_MOD - 1) /\ 0 \in 0..MaxUpsets
    BY BridgeAssumption, StreamAssumption
  <2>3. lat \in Jobs /\ state \in States
    BY DEF Init, FsmInit, States
  <2>4. Types
    BY <2>2, <2>3 DEF Init, Types, TypeOK, Counters
  <2>5. QED
    BY <2>1, <2>4 DEF IInv
<1>2. IInv /\ [Next]_vars => IInv'
  BY InvStep
<1>3. QED
  BY <1>1, <1>2, PTL DEF Spec

(* Type correctness of the bridge's registers: FIFO pointers inside the    *)
(* FIFOs, burst lengths inside the 8 bits of AxLEN.                        *)
THEOREM TypeCorrect == Spec => []TypeOK
<1>1. IInv => TypeOK
  BY DEF IInv, Types
<1>2. QED
  BY <1>1, Invariance, PTL

(* One transaction at most is outstanding on each port, and WLAST marks    *)
(* exactly the last beat the memory was told to expect                     *)
(* (axi4_dma_bridge.sv:3-5, axi_protocol_check.sv:33-45).                  *)
THEOREM OneBurst == Spec => []OneBurstAtATime
<1>1. IInv => OneBurstAtATime
  BY DEF IInv, ReadPort, WritePort, OneBurstAtATime
<1>2. QED
  BY <1>1, Invariance, PTL

(* A request, and a beat of write data, stays up unchanged until it is     *)
(* taken, whatever the memories stall (axi_protocol_check.sv:13-17).       *)
THEOREM HandshakesHold == Spec => RequestsHeld
<1> DEFINE Held ==
        \/ Reset
        \/ /\ arvalid /\ ar_state' = "AR_IDLE" => arvalid' /\ UNCHANGED <<araddr, arlen>>
           /\ awvalid /\ aw_state' = "AW_IDLE" => awvalid' /\ UNCHANGED <<awaddr, awlen>>
           /\ wvalid /\ aw_state' = "AW_DATA" /\ aw_beat' = aw_beat
                => wvalid' /\ UNCHANGED <<wdata, wlast>>
<1>1. IInv /\ [Next]_vars => [Held]_vars
  <2> SUFFICES ASSUME IInv, Cycle PROVE Held
    BY DEF Next
  <2>0. PICK start, arready, r_gate, awready, wready, fail \in BOOLEAN, in \in Jobs :
             SomeEdge(start, in, arready, r_gate, awready, wready, fail)
    BY CycleIsClock
  <2>1. Clock(start, in, arready, r_gate, awready, wready, fail)
    BY <2>0 DEF SomeEdge
  <2>2. ASSUME arvalid, ar_state' = "AR_IDLE"
        PROVE  arvalid' /\ UNCHANGED <<araddr, arlen>>
    <3>1. rstate = "R_BURST" /\ ar_state = "AR_IDLE"
      BY <2>2 DEF IInv, ReadPort
    <3>2. RdBurst(arready) /\ RamRdEdge(arready, r_gate)
      BY <2>1, <3>1 DEF Clock, RdEdge, RdIdle, RdIssue
    <3>3. ~arready
      BY <2>2, <3>1, <3>2 DEF RamRdEdge
    <3>4. QED
      BY <2>2, <3>2, <3>3 DEF RdBurst, ar_held
  <2>3. ASSUME awvalid, aw_state' = "AW_IDLE"
        PROVE  awvalid' /\ UNCHANGED <<awaddr, awlen>>
    <3>1. wstate = "W_AW" /\ aw_state = "AW_IDLE"
      BY <2>3 DEF IInv, WritePort
    <3>2. WrAddr(awready) /\ RamWrEdge(awready, wready, fail)
      BY <2>1, <3>1 DEF Clock, WrEdge, WrIdle, WrData, WrResp
    <3>3. ~awready
      BY <2>3, <3>1, <3>2 DEF RamWrEdge
    <3>4. QED
      BY <2>3, <3>2, <3>3 DEF WrAddr
  <2>4. ASSUME wvalid, aw_state' = "AW_DATA", aw_beat' = aw_beat
        PROVE  wvalid' /\ UNCHANGED <<wdata, wlast>>
    <3>1. wstate = "W_DATA" /\ aw_state = "AW_DATA" /\ aw_beat \in Nat
      BY <2>4 DEF IInv, WritePort, Types, Counters
    <3>2. WrData(wready) /\ RamWrEdge(awready, wready, fail)
      BY <2>1, <3>1 DEF Clock, WrEdge, WrIdle, WrAddr, WrResp
    <3>3. ~WBeat(wready)
      BY <2>4, <3>1, <3>2 DEF RamWrEdge
    <3>4. QED
      BY <2>4, <3>2, <3>3 DEF WrData
  <2>5. QED
    BY <2>2, <2>3, <2>4
<1>2. QED
  BY <1>1, Invariance, PTL DEF Spec, RequestsHeld

(* The bridge implements the datapath contract that the command queue is   *)
(* verified against (axi4_dma_bridge.sv:267-285): busy rises on the edge   *)
(* that samples start, and done is a pulse in the first idle cycle.        *)
THEOREM BridgeIsDatapath == Spec => ImplementsDatapath
<1>1. Init => DP!Init
  BY DEF Init, bridge_busy, DP!Init
<1>2. IInv /\ [Next]_vars => [DP!Next]_(DP!vars)
  <2> SUFFICES ASSUME IInv, [Next]_vars PROVE [DP!Next]_(DP!vars)
    OBVIOUS
  <2>1. CASE Cycle
    <3>0. PICK start, arready, r_gate, awready, wready, fail \in BOOLEAN, in \in Jobs :
               SomeEdge(start, in, arready, r_gate, awready, wready, fail)
      BY <2>1, CycleIsClock
    <3>1. Clock(start, in, arready, r_gate, awready, wready, fail)
      BY <3>0 DEF SomeEdge
    <3>2. TopEdge(start)
      BY <3>1 DEF Clock
    <3>3. CASE TopIdle(start)
      <4>1. ~bridge_busy /\ bdone' = FALSE /\ bridge_busy' = start
        BY <3>3 DEF TopIdle, bridge_busy
      <4>2. CASE start
        BY <4>1, <4>2 DEF DP!Next, DP!Accept
      <4>3. CASE ~start
        BY <4>1, <4>3 DEF DP!Next, DP!Rest
      <4>4. QED
        BY <4>2, <4>3
    <3>4. CASE TopPrefetch \/ TopRun
      <4>1. bridge_busy /\ bridge_busy' = TRUE /\ bdone' = FALSE
        BY <3>4 DEF TopPrefetch, TopRun, bridge_busy
      <4>2. QED
        BY <4>1 DEF DP!Next, DP!Run
    <3>5. CASE TopDrain
      <4>1. drained \in BOOLEAN
        BY DEF drained, IInv, Types, Counters
      <4>2. CASE drained
        <5>1. bridge_busy /\ bridge_busy' = FALSE /\ bdone' = TRUE
          BY <3>5, <4>1, <4>2 DEF TopDrain, bridge_busy
        <5>2. QED
          BY <5>1 DEF DP!Next, DP!Finish
      <4>3. CASE ~drained
        <5>1. bridge_busy /\ bridge_busy' = TRUE /\ bdone' = FALSE
          BY <3>5, <4>1, <4>3 DEF TopDrain, bridge_busy
        <5>2. QED
          BY <5>1 DEF DP!Next, DP!Run
      <4>4. QED
        BY <4>2, <4>3
    <3>6. QED
      BY <3>2, <3>3, <3>4, <3>5 DEF TopEdge
  <2>2. CASE Reset
    <3>1. bridge_busy' = FALSE /\ bdone' = FALSE
      BY <2>2 DEF Reset, ResetEdge, TopReset, bridge_busy
    <3>2. QED
      BY <3>1 DEF DP!Next, DP!Reset
  <2>3. CASE UNCHANGED vars
    BY <2>3 DEF vars, topVars, bridge_busy, DP!vars
  <2>4. QED
    BY <2>1, <2>2, <2>3 DEF Next
<1>3. QED
  BY <1>1, <1>2, Invariance, PTL DEF Spec, ImplementsDatapath, DP!Spec

-------------------------------------------------------------------------------
(* Where the bursts lie.                                                   *)

\* The remainder is the only one.
LEMMA ModUnique ==
    ASSUME NEW m \in Nat \ {0}, NEW q \in Int, NEW r \in 0..(m - 1), NEW a \in Int,
           a = q * m + r
    PROVE  a % m = r
<1> DEFINE d == a \div m
           s == a % m
<1>1. d \in Int /\ s \in 0..(m - 1) /\ a = d * m + s
  BY Z3
<1> HIDE DEF d, s
<1>2. (q - d) * m = s - r
  BY <1>1, Z3
<1>3. CASE q - d >= 1
  <2>1. (q - d) * m >= m
    BY <1>1, <1>3, Z3
  <2>2. QED
    BY <1>1, <1>2, <2>1, Z3
<1>4. CASE q - d <= -1
  <2>1. (q - d) * m <= -m
    BY <1>1, <1>4, Z3
  <2>2. QED
    BY <1>1, <1>2, <2>1, Z3
<1>5. CASE q - d = 0
  BY <1>1, <1>2, <1>5, Z3 DEF s
<1>6. QED
  BY <1>1, <1>3, <1>4, <1>5

LEMMA ModSmall ==
    ASSUME NEW m \in Nat \ {0}, NEW a \in 0..(m - 1)
    PROVE  a % m = a
<1>1. a = 0 * m + a
  BY Z3
<1>2. QED
  BY <1>1, ModUnique

\* Reducing an address before adding to it changes nothing.
LEMMA ModAdd ==
    ASSUME NEW m \in Nat \ {0}, NEW a \in Int, NEW z \in Int
    PROVE  ((a % m) + z) % m = (a + z) % m
<1> DEFINE d == a \div m
           r == a % m
           e == (r + z) \div m
           s == (r + z) % m
<1>1. d \in Int /\ r \in Int /\ a = d * m + r
  BY Z3
<1> HIDE DEF d, r
<1>2. e \in Int /\ s \in 0..(m - 1) /\ r + z = e * m + s
  BY <1>1, Z3
<1> HIDE DEF e, s
<1>3. a + z = (d + e) * m + s
  <2>1. (d + e) * m = d * m + e * m /\ d * m \in Int /\ e * m \in Int
    BY <1>1, <1>2, Z3
  <2>2. QED
    BY <1>1, <1>2, <2>1
<1>4. (a + z) % m = s
  <2> DEFINE q == d + e
             x == a + z
  <2>1. q \in Int /\ x \in Int /\ x = q * m + s
    BY <1>1, <1>2, <1>3
  <2> HIDE DEF q, x
  <2>2. x % m = s
    BY <1>2, <2>1, ModUnique
  <2>3. QED
    BY <2>2 DEF x
<1>5. QED
  BY <1>4 DEF s, r

LEMMA ModAtMost ==
    ASSUME NEW m \in Nat \ {0}, NEW a \in Nat
    PROVE  a % m <= a
<1>1. CASE a < m
  <2>1. a % m = a
    BY <1>1, ModSmall
  <2>2. QED
    BY <2>1
<1>2. CASE a >= m
  <2>1. a % m \in 0..(m - 1)
    OBVIOUS
  <2>2. QED
    BY <1>2, <2>1
<1>3. QED
  BY <1>1, <1>2

\* A read burst asked for starts at the next word and stays in its region.
ReadRegion ==
    /\ rstate # "R_IDLE" => rd_total = N + lat.m
    /\ arvalid => rd_issued < rd_total /\ araddr = rd_next_addr /\ arlen < rd_remaining

\* The write engine is never ahead of the command, is behind its own
\* responses by one burst at most, and has caught up when the bridge is idle.
WriteRegion ==
    /\ wr_total \in {0, lat.m} /\ wr_issued <= wr_total
    /\ wstate # "W_BRESP" => wr_acked = wr_issued
    /\ wstate \in {"W_AW", "W_DATA"} =>
           w_burst_len >= 1 /\ wr_issued + w_burst_len <= wr_total
    /\ wstate = "W_BRESP" => w_burst_len >= 1 /\ wr_issued = wr_acked + w_burst_len
    /\ bstate = "B_IDLE" => wstate = "W_IDLE" /\ wr_issued = wr_total
    /\ awvalid => awaddr = (lat.c + wr_issued) % ADDR_MOD

RegionInv == IInv /\ ReadRegion /\ WriteRegion

LEMMA ReadRegionStep ==
    ASSUME RegionInv, NEW start \in BOOLEAN, NEW in \in Jobs, NEW arready \in BOOLEAN,
           RdEdge(start, in, arready)
    PROVE  ReadRegion'
<1> USE DEF RegionInv, IInv, ReadPort
<1>1. CASE rstate = "R_IDLE"
  <2>1. RdIdle(start, in, arready) /\ ~arvalid
    BY <1>1 DEF RdEdge, RdIssue, RdBurst
  <2>2. (N + in.m) % CNT_MOD = N + in.m
    <3>1. /\ CNT_MOD \in Nat \ {0} /\ N + in.m \in 0..(CNT_MOD - 1)
      BY StreamAssumption, BridgeAssumption
    <3>2. QED
      BY <3>1, ModSmall
  <2>3. QED
    BY <1>1, <2>1, <2>2 DEF RdIdle, ar_held, ReadRegion
<1>2. CASE rstate = "R_ISSUE"
  <2>1. RdIssue(arready) /\ ~arvalid
    BY <1>2 DEF RdEdge, RdIdle, RdBurst
  <2>2. CASE rd_issued < rd_total /\ next_burst_len # 0
    <3>1. /\ araddr' = rd_next_addr /\ arlen' = next_burst_len - 1
          /\ UNCHANGED <<lat, rd_total, rd_issued>>
      BY <2>1, <2>2 DEF RdIssue
    <3>2. next_burst_len - 1 < rd_remaining
      <4>1. rd_remaining \in Int
        BY StreamAssumption DEF rd_remaining, Types, TypeOK, Counters
      <4>2. rf_room \in Int
        <5>1. RD_DEPTH - rf_count \in Int /\ CNT_MOD \in Nat \ {0}
          BY StreamAssumption, BridgeAssumption DEF Types, TypeOK
        <5>2. QED
          BY <5>1 DEF rf_room
      <4>3. QED
        BY <4>1, <4>2, BridgeAssumption DEF next_burst_len, Lesser
    <3>3. rd_next_addr' = rd_next_addr /\ rd_remaining' = rd_remaining
      BY <3>1 DEF rd_next_addr, rd_remaining
    <3>4. rd_total = N + lat.m
      BY <1>2 DEF ReadRegion
    <3>5. QED
      BY <2>2, <3>1, <3>2, <3>3, <3>4 DEF ReadRegion
  <2>3. CASE ~(rd_issued < rd_total /\ next_burst_len # 0)
    BY <1>2, <2>1, <2>3 DEF RdIssue, ar_held, ReadRegion
  <2>4. QED
    BY <2>2, <2>3
<1>3. CASE rstate = "R_BURST"
  <2>1. RdBurst(arready)
    BY <1>3 DEF RdEdge, RdIdle, RdIssue
  <2>2. lat' = lat /\ rd_total' = rd_total /\ araddr' = araddr /\ arlen' = arlen
    BY <2>1 DEF RdBurst
  <2>3. CASE arvalid
    <3>1. rd_issued' = rd_issued
      BY <1>3, <2>1, <2>3 DEF RdBurst, RBeat, Bit, Types, Counters
    <3>2. rd_next_addr' = rd_next_addr /\ rd_remaining' = rd_remaining
      BY <2>2, <3>1 DEF rd_next_addr, rd_remaining
    <3>3. QED
      BY <1>3, <2>2, <2>3, <3>1, <3>2 DEF ReadRegion
  <2>4. CASE ~arvalid
    BY <1>3, <2>1, <2>2, <2>4 DEF RdBurst, ar_held, ReadRegion
  <2>5. QED
    BY <2>3, <2>4
<1>4. QED
  BY <1>1, <1>2, <1>3

\* Whether a command begins on this edge, the write engine's counters and the
\* latched command change together.
LEMMA BeginStep ==
    ASSUME RegionInv, NEW start \in BOOLEAN, NEW in \in Jobs, NEW arready \in BOOLEAN,
           NEW awready \in BOOLEAN, NEW wready \in BOOLEAN,
           RdEdge(start, in, arready), WrEdge(start, in, awready, wready)
    PROVE  \/ /\ start /\ bstate = "B_IDLE" /\ wstate = "W_IDLE" /\ wstate' = "W_IDLE"
              /\ lat' = in /\ wr_total' = in.m /\ wr_issued' = 0 /\ wr_acked' = 0
              /\ awvalid' = awvalid
           \/ /\ lat' = lat /\ wr_total' = wr_total
              /\ wr_issued' = IF wstate = "W_DATA" /\ WBeat(wready) /\ wlast
                              THEN wr_issued + w_burst_len ELSE wr_issued
              /\ wr_acked' = IF wstate = "W_BRESP" /\ bvalid
                             THEN wr_acked + w_burst_len ELSE wr_acked
<1>1. CASE rstate = "R_IDLE" /\ start /\ ~bridge_busy
  <2>1. /\ bstate = "B_IDLE" /\ wstate = "W_IDLE" /\ ~(wr_issued < wr_total)
    BY <1>1 DEF bridge_busy, RegionInv, WriteRegion, IInv, Types, Counters
  <2>2. RdIdle(start, in, arready) /\ WrIdle
    BY <1>1, <2>1 DEF RdEdge, RdIssue, RdBurst, WrEdge, WrAddr, WrData, WrResp
  <2>3. lat' = in
    BY <1>1, <2>2 DEF RdIdle
  <2>4. wstate' = "W_IDLE" /\ awvalid' = awvalid
    BY <2>1, <2>2 DEF WrIdle
  <2>5. wr_total' = in.m /\ wr_issued' = 0 /\ wr_acked' = 0
    BY <1>1, <2>1 DEF WrEdge, WrCounters
  <2>6. QED
    BY <1>1, <2>1, <2>3, <2>4, <2>5
<1>2. CASE ~(rstate = "R_IDLE" /\ start /\ ~bridge_busy)
  <2>1. lat' = lat
    BY <1>2 DEF RdEdge, RdIdle, RdIssue, RdBurst
  <2>2. QED
    BY <1>2, <2>1 DEF WrEdge, WrCounters
<1>3. QED
  BY <1>1, <1>2

\* A new burst is no longer than what the command still has to write.
LEMMA BurstFits ==
    ASSUME RegionInv, wr_issued < wr_total
    PROVE  next_wburst_len \in Nat /\ wr_issued + next_wburst_len <= wr_total
<1>1. /\ wr_total \in Nat /\ wr_issued \in Nat /\ wf_count \in Nat
      /\ CNT_MOD \in Nat \ {0} /\ LEN_MOD \in Nat \ {0} /\ BURST_MAX \in Nat
  BY StreamAssumption, BridgeAssumption DEF RegionInv, IInv, Types, TypeOK, Counters
<1>2. wr_total < CNT_MOD
  <2>1. lat.m \in 0..(CNT_MOD - 2 * N) /\ N \in Nat \ {0}
    BY StreamAssumption, BridgeAssumption DEF RegionInv, IInv, Types, TypeOK
  <2>2. QED
    BY <1>1, <2>1 DEF RegionInv, WriteRegion
<1>3. rem = wr_total - wr_issued
  <2>1. wr_total - wr_issued \in 0..(CNT_MOD - 1)
    BY <1>1, <1>2
  <2>2. QED
    BY <1>1, <2>1, ModSmall DEF rem
<1>4. rem % LEN_MOD \in Nat /\ rem % LEN_MOD <= rem
  <2>1. rem \in Nat
    BY <1>1, <1>3
  <2>2. rem % LEN_MOD <= rem
    BY <1>1, <2>1, ModAtMost
  <2>3. rem % LEN_MOD \in Nat
    BY <1>1, <2>1
  <2>4. QED
    BY <2>2, <2>3
<1>5. QED
  BY <1>1, <1>3, <1>4 DEF next_wburst_len, Lesser

LEMMA WriteRegionStep ==
    ASSUME RegionInv, NEW start \in BOOLEAN, NEW in \in Jobs, NEW arready \in BOOLEAN,
           NEW awready \in BOOLEAN, NEW wready \in BOOLEAN,
           RdEdge(start, in, arready), WrEdge(start, in, awready, wready),
           TopEdge(start)
    PROVE  WriteRegion'
<1> USE DEF RegionInv, IInv, Types, Counters
<1>1. CASE /\ start /\ bstate = "B_IDLE" /\ wstate = "W_IDLE" /\ wstate' = "W_IDLE"
           /\ lat' = in /\ wr_total' = in.m /\ wr_issued' = 0 /\ wr_acked' = 0
           /\ awvalid' = awvalid
  <2>1. bstate' # "B_IDLE"
    BY <1>1 DEF TopEdge, TopIdle, TopPrefetch, TopRun, TopDrain
  <2>2. ~awvalid
    BY <1>1 DEF WritePort
  <2>3. in.m \in Nat
    BY BridgeAssumption
  <2>4. QED
    BY <1>1, <2>1, <2>2, <2>3 DEF WriteRegion
<1>2. CASE /\ lat' = lat /\ wr_total' = wr_total
           /\ wr_issued' = IF wstate = "W_DATA" /\ WBeat(wready) /\ wlast
                           THEN wr_issued + w_burst_len ELSE wr_issued
           /\ wr_acked' = IF wstate = "W_BRESP" /\ bvalid
                          THEN wr_acked + w_burst_len ELSE wr_acked
  <2>0. bstate' = "B_IDLE" => bstate = "B_IDLE" \/ drained
    BY DEF TopEdge, TopIdle, TopPrefetch, TopRun, TopDrain
  <2>1. CASE wstate = "W_IDLE"
    <3>1. WrIdle
      BY <2>1 DEF WrEdge, WrAddr, WrData, WrResp
    <3>2. wr_issued' = wr_issued /\ wr_acked' = wr_acked /\ wr_acked = wr_issued
      BY <1>2, <2>1 DEF WriteRegion
    <3>3. CASE wr_issued < wr_total /\ next_wburst_len # 0
      <4>1. /\ wstate' = "W_AW" /\ w_burst_len' = next_wburst_len
            /\ awaddr' = (lat.c + wr_issued) % ADDR_MOD
        BY <3>1, <3>3 DEF WrIdle
      <4>2. next_wburst_len >= 1 /\ wr_issued + next_wburst_len <= wr_total
        BY <3>3, BurstFits
      <4>3. bstate' # "B_IDLE"
        BY <2>0, <3>2, <3>3 DEF drained, WriteRegion
      <4>4. QED
        BY <1>2, <3>2, <4>1, <4>2, <4>3 DEF WriteRegion
    <3>4. CASE ~(wr_issued < wr_total /\ next_wburst_len # 0)
      <4>1. wstate' = "W_IDLE" /\ awvalid' = awvalid /\ ~awvalid
        BY <2>1, <3>1, <3>4 DEF WrIdle, WritePort
      <4>2. bstate' = "B_IDLE" => wr_issued = wr_total
        BY <2>0, <3>2 DEF drained, WriteRegion
      <4>3. QED
        BY <1>2, <3>2, <4>1, <4>2 DEF WriteRegion
    <3>5. QED
      BY <3>3, <3>4
  <2>2. CASE wstate \in {"W_AW", "W_DATA"}
    <3>1. /\ wr_acked = wr_issued /\ w_burst_len >= 1
          /\ wr_issued + w_burst_len <= wr_total
          /\ wr_acked' = wr_acked /\ bstate' # "B_IDLE"
      BY <1>2, <2>0, <2>2 DEF drained, WriteRegion
    <3>2. w_burst_len' = w_burst_len /\ awaddr' = awaddr
      BY <2>2 DEF WrEdge, WrIdle, WrAddr, WrData, WrResp
    <3>3. CASE wstate = "W_AW"
      <4>1. wstate' \in {"W_AW", "W_DATA"} /\ awvalid
        BY <3>3 DEF WrEdge, WrIdle, WrAddr, WrData, WrResp, WritePort
      <4>2. wr_issued' = wr_issued
        BY <1>2, <3>3
      <4>3. QED
        BY <1>2, <3>1, <3>2, <4>1, <4>2 DEF WriteRegion
    <3>4. CASE wstate = "W_DATA"
      <4>1. WrData(wready) /\ ~awvalid
        BY <3>4 DEF WrEdge, WrIdle, WrAddr, WrResp, WritePort
      <4>2. CASE WBeat(wready) /\ wlast
        <5>1. wstate' = "W_BRESP" /\ wr_issued' = wr_issued + w_burst_len /\ ~awvalid'
          BY <1>2, <3>4, <4>1, <4>2 DEF WrData
        <5>2. QED
          BY <1>2, <3>1, <3>2, <5>1 DEF WriteRegion
      <4>3. CASE ~(WBeat(wready) /\ wlast)
        <5>1. wstate' = "W_DATA" /\ wr_issued' = wr_issued /\ ~awvalid'
          BY <1>2, <3>4, <4>1, <4>3 DEF WrData
        <5>2. QED
          BY <1>2, <3>1, <3>2, <5>1 DEF WriteRegion
      <4>4. QED
        BY <4>2, <4>3
    <3>5. QED
      BY <2>2, <3>3, <3>4
  <2>3. CASE wstate = "W_BRESP"
    <3>1. /\ w_burst_len >= 1 /\ wr_issued = wr_acked + w_burst_len
          /\ wr_issued <= wr_total /\ bstate' # "B_IDLE"
      BY <2>0, <2>3 DEF drained, WriteRegion
    <3>2. bvalid /\ ~awvalid
      BY <2>3 DEF WritePort
    <3>3. wstate' = "W_IDLE" /\ ~awvalid'
      BY <2>3, <3>2 DEF WrEdge, WrIdle, WrAddr, WrData, WrResp
    <3>4. wr_issued' = wr_issued /\ wr_acked' = wr_issued
      BY <1>2, <2>3, <3>1, <3>2
    <3>5. QED
      BY <1>2, <3>1, <3>3, <3>4 DEF WriteRegion
  <2>4. QED
    BY <2>1, <2>2, <2>3 DEF TypeOK
<1>3. QED
  BY <1>1, <1>2, BeginStep

(* The engines keep to the command, in every reachable state: what the     *)
(* theorems below start from.                                              *)
THEOREM RegionInvariance == Spec => []RegionInv
<1>1. Init => ReadRegion /\ WriteRegion
  BY DEF Init, ReadRegion, WriteRegion
<1>2. IInv /\ IInv' /\ ReadRegion /\ WriteRegion /\ [Next]_vars
          => (ReadRegion /\ WriteRegion)'
  <2> SUFFICES ASSUME RegionInv, [Next]_vars
               PROVE  (ReadRegion /\ WriteRegion)'
    BY DEF RegionInv
  <2>1. CASE Cycle
    <3>0. PICK start, arready, r_gate, awready, wready, fail \in BOOLEAN, in \in Jobs :
               SomeEdge(start, in, arready, r_gate, awready, wready, fail)
      BY <2>1, CycleIsClock DEF RegionInv
    <3>1. Clock(start, in, arready, r_gate, awready, wready, fail)
      BY <3>0 DEF SomeEdge
    <3>2. QED
      BY <3>1, ReadRegionStep, WriteRegionStep DEF Clock
  <2>2. CASE Reset
    BY <2>2 DEF Reset, ResetEdge, RdReset, WrReset, TopReset, ReadRegion, WriteRegion
  <2>3. CASE UNCHANGED vars
    BY <2>3 DEF vars, rdVars, wrVars, topVars, RegionInv, ReadRegion, WriteRegion,
                rd_next_addr, rd_remaining
  <2>4. QED
    BY <2>1, <2>2, <2>3 DEF Next
<1>3. QED
  BY <1>1, <1>2, Invariance, PTL DEF Spec, RegionInv

(* Every burst, read or write, lies inside the region of the command it    *)
(* was cut from, whatever the FIFO levels that decided its length: a read  *)
(* burst never runs from the weights into the activations                  *)
(* (axi4_dma_bridge.sv:100-116) and a write burst never past the last row. *)
THEOREM BurstsStayInRegion == Spec => []BurstInRegion
<1>1. RegionInv => BurstInRegion
  <2> SUFFICES ASSUME RegionInv PROVE BurstInRegion
    OBVIOUS
  <2>0. /\ rd_issued \in Nat /\ wr_issued \in Nat /\ lat.m \in Nat /\ N \in Nat
        /\ arlen \in Nat /\ awlen \in Nat
    BY StreamAssumption, BridgeAssumption DEF RegionInv, IInv, Types, TypeOK, Counters
  <2>1. ASSUME arvalid
        PROVE  \/ \E i \in 0..(N - 1) :
                     araddr = (lat.w + i) % ADDR_MOD /\ i + arlen < N
               \/ \E i \in 0..(lat.m - 1) :
                     araddr = (lat.a + i) % ADDR_MOD /\ i + arlen < lat.m
    <3>1. /\ rd_total = N + lat.m /\ rd_issued < rd_total
          /\ araddr = rd_next_addr /\ arlen < rd_remaining
      BY <2>1 DEF RegionInv, IInv, ReadPort, ReadRegion
    <3>2. CASE rd_issued < N
      <4>1. /\ rd_issued \in 0..(N - 1) /\ rd_issued + arlen < N
            /\ araddr = (lat.w + rd_issued) % ADDR_MOD
        BY <2>0, <3>1, <3>2 DEF rd_next_addr, rd_remaining
      <4>2. QED
        BY <4>1
    <3>3. CASE ~(rd_issued < N)
      <4>1. /\ rd_issued - N \in 0..(lat.m - 1) /\ (rd_issued - N) + arlen < lat.m
            /\ araddr = (lat.a + rd_issued - N) % ADDR_MOD
        BY <2>0, <3>1, <3>3 DEF rd_next_addr, rd_remaining
      <4>2. lat.a + rd_issued - N = lat.a + (rd_issued - N)
        BY <2>0, BridgeAssumption DEF RegionInv, IInv, Types, TypeOK
      <4>3. QED
        BY <4>1, <4>2
    <3>4. QED
      BY <3>2, <3>3
  <2>2. ASSUME awvalid
        PROVE  \E i \in 0..(lat.m - 1) :
                   awaddr = (lat.c + i) % ADDR_MOD /\ i + awlen < lat.m
    <3>1. /\ wstate = "W_AW" /\ awlen = w_burst_len - 1
          /\ awaddr = (lat.c + wr_issued) % ADDR_MOD
          /\ w_burst_len \in Nat /\ w_burst_len >= 1
          /\ wr_issued + w_burst_len <= wr_total /\ wr_total \in {0, lat.m}
      BY <2>2 DEF RegionInv, IInv, WritePort, WriteRegion, Types, Counters
    <3>2. wr_issued \in 0..(lat.m - 1) /\ wr_issued + awlen < lat.m
      BY <2>0, <3>1
    <3>3. QED
      BY <3>1, <3>2
  <2>3. QED
    BY <2>1, <2>2 DEF BurstInRegion
<1>2. QED
  BY <1>1, RegionInvariance, PTL
-------------------------------------------------------------------------------
(* What is in the FIFOs.                                                   *)

\* Every command has a row, and both FIFOs have room for a whole command:
\* coproc_axi_top.sv makes them MAX_ROWS + N and MAX_ROWS deep.
JobsFit == \A j \in Jobs : j.m \in 1..WR_DEPTH /\ N + j.m <= RD_DEPTH

\* The top-level FSM and the engines it waits for.
Phases ==
    /\ bstate = "B_IDLE" => rstate = "R_IDLE"
    /\ bstate # "B_IDLE" => rd_total = N + lat.m /\ wr_total = lat.m
    /\ bstate # "B_IDLE" /\ rstate = "R_IDLE" => rd_issued = rd_total
    /\ bstate \in {"B_RUN", "B_DRAIN"} => rstate = "R_IDLE"
    /\ bstate # "B_RUN" => state = "S_IDLE" /\ ~ctrl_start /\ ~done
    /\ bstate = "B_RUN" => IF state = "S_IDLE" THEN ctrl_start <=> ~done
                                               ELSE ~ctrl_start /\ ~done
    /\ bdone => bstate = "B_IDLE" /\ wr_total = lat.m /\ wr_acked = lat.m

\* The sequencer's counters while it runs.
Sequencing ==
    /\ li \in Int /\ cyc \in Int
    /\ state # "S_IDLE" => job_r.m = lat.m
    /\ state \in {"S_LOAD_ADDR", "S_LOAD_DATA"} => li \in 0..(N - 1)
    /\ state = "S_STREAM" => cyc \in 0..(lat.m + Latency - 1)

\* The burst that is being read is within what the command reads.
ReadBurst ==
    /\ ar_beat \in Nat /\ ar_len_r \in Nat
    /\ rstate # "R_IDLE" => rd_issued <= rd_total
    /\ ar_state = "AR_BURST" =>
           /\ ar_beat <= ar_len_r
           /\ rd_issued + Bit(rvalid) + (ar_len_r - ar_beat) < rd_total
    /\ rvalid => rd_issued < rd_total

\* The burst that is being written is in the FIFO already.
WriteBurst ==
    /\ wstate = "W_AW" => w_burst_len <= wf_count
    /\ wstate = "W_DATA" => /\ w_beat_cnt < w_burst_len
                            /\ w_burst_len - w_beat_cnt <= wf_count

\* Words the sequencer has taken from the read FIFO for this command.
Taken ==
    IF bstate = "B_PREFETCH" THEN 0
    ELSE CASE state = "S_LOAD_ADDR" -> li
           [] state = "S_LOAD_DATA" -> li + 1
           [] state \in {"S_LOAD_PULSE", "S_PREFETCH"} -> N
           [] state = "S_STREAM" -> N + Lesser(cyc + 1, lat.m)
           [] state = "S_DONE" -> N + lat.m
           [] state = "S_IDLE" -> IF ctrl_start THEN 0 ELSE N + lat.m

\* Rows it has put into the write FIFO, and those that have left it.
Made ==
    IF bstate = "B_PREFETCH" THEN 0
    ELSE CASE state = "S_STREAM" -> IF cyc > Latency THEN cyc - Latency ELSE 0
           [] state = "S_DONE" -> lat.m
           [] state = "S_IDLE" -> IF ctrl_start THEN 0 ELSE lat.m
           [] OTHER -> 0

Sent == wr_issued + (IF wstate = "W_DATA" THEN w_beat_cnt ELSE 0)

\* The counts are what went in less what came out.
Levels ==
    /\ bstate = "B_IDLE" => rf_count = 0 /\ wf_count = 0
    /\ bstate # "B_IDLE" => rf_count = rd_issued - Taken /\ wf_count = Made - Sent

LevelInv == Phases /\ Sequencing /\ ReadBurst /\ WriteBurst /\ Levels


LEMMA Sizes ==
    ASSUME JobsFit, IInv
    PROVE  /\ N \in Nat /\ N >= 1 /\ lat.m \in Nat /\ lat.m >= 1
           /\ lat.m <= WR_DEPTH /\ N + lat.m <= RD_DEPTH
           /\ lat.m + 2 * N <= CNT_MOD /\ N <= ADDR_MOD
           /\ CNT_MOD \in Nat \ {0} /\ ADDR_MOD \in Nat \ {0}
           /\ RD_DEPTH \in Nat \ {0} /\ WR_DEPTH \in Nat \ {0}
<1>1. lat \in Jobs
  BY DEF IInv, Types, TypeOK
<1>2. lat.m \in 0..(CNT_MOD - 2 * N) /\ lat.m \in 1..WR_DEPTH /\ N + lat.m <= RD_DEPTH
  BY <1>1, BridgeAssumption DEF JobsFit
<1>3. QED
  BY <1>2, BridgeAssumption, StreamAssumption

\* Nothing moves in the sequencer unless the bridge is running.
LEMMA QuietStep ==
    ASSUME Phases, Sequencing, bstate # "B_RUN", NEW in, CtrlEdge(in)
    PROVE  /\ state' = "S_IDLE" /\ ~done' /\ Sequencing' /\ ~rd_en /\ ~wr_en
           /\ UNCHANGED <<li, cyc, job_r>>
<1>1. state = "S_IDLE" /\ ~ctrl_start
  BY DEF Phases
<1>2. /\ state' = "S_IDLE" /\ done' = FALSE /\ UNCHANGED <<li, cyc, job_r>>
  BY <1>1 DEF CtrlEdge, FsmEdge, Idle, LoadAddr, LoadData, LoadPulse, Prefetch, Stream, Finish
<1>3. ~rd_en /\ ~wr_en
  BY <1>1 DEF rd_en, wr_en
<1>4. QED
  BY <1>2, <1>3 DEF Sequencing

\* The counters of a running sequencer do not wrap.
LEMMA NoWrap ==
    ASSUME JobsFit, IInv, Sequencing
    PROVE  /\ state = "S_STREAM" =>
                  /\ (cyc + 1) % CNT_MOD = cyc + 1
                  /\ (total_cycles - 1) % CNT_MOD = lat.m + Latency - 1
           /\ state = "S_LOAD_DATA" /\ li # N - 1 => (li + 1) % ADDR_MOD = li + 1
<1>1. ASSUME state = "S_STREAM"
      PROVE  /\ (cyc + 1) % CNT_MOD = cyc + 1
             /\ (total_cycles - 1) % CNT_MOD = lat.m + Latency - 1
  <2>1. cyc + 1 \in 0..(CNT_MOD - 1) /\ CNT_MOD \in Nat \ {0}
    BY <1>1, Sizes DEF Sequencing, Latency
  <2>2. (cyc + 1) % CNT_MOD = cyc + 1
    BY <2>1, ModSmall
  <2>3. /\ lat.m + Latency \in 0..(CNT_MOD - 1) /\ lat.m + Latency - 1 \in 0..(CNT_MOD - 1)
        /\ job_r.m = lat.m /\ lat.m \in Int /\ Latency \in Int
    BY <1>1, Sizes DEF Sequencing, Latency
  <2>4. total_cycles = lat.m + Latency
    BY <2>1, <2>3, ModSmall DEF total_cycles
  <2>5. total_cycles - 1 = lat.m + Latency - 1
    BY <2>3, <2>4
  <2>6. QED
    BY <2>1, <2>2, <2>3, <2>5, ModSmall
<1>2. ASSUME state = "S_LOAD_DATA", li # N - 1
      PROVE  (li + 1) % ADDR_MOD = li + 1
  <2>1. li + 1 \in 0..(ADDR_MOD - 1) /\ ADDR_MOD \in Nat \ {0}
    BY <1>2, Sizes DEF Sequencing
  <2>2. QED
    BY <2>1, ModSmall
<1>3. QED
  BY <1>1, <1>2

\* A cycle of the running sequencer: it keeps its counters, and takes a word
\* or makes a row exactly when it raises the strobe.
LEMMA RunStep ==
    ASSUME JobsFit, IInv, Phases, Sequencing, bstate = "B_RUN", lat' = lat,
           TopRun, CtrlEdge(lat)
    PROVE  /\ Sequencing'
           /\ IF state' = "S_IDLE" THEN done' <=> bstate' = "B_RUN" ELSE ~done'
           /\ bstate' # "B_RUN" => state' = "S_IDLE"
           /\ Taken' = Taken + Bit(rd_en) /\ Made' = Made + Bit(wr_en)
<1>1. ~ctrl_start' /\ bstate' \in {"B_RUN", "B_DRAIN"} /\ (bstate' = "B_DRAIN" <=> done)
  BY DEF TopRun
<1>2. /\ N \in Nat /\ N >= 1 /\ lat.m \in Nat /\ lat.m >= 1 /\ Latency \in Nat
      /\ Latency = 2 * N - 1
  BY Sizes DEF Latency
<1>3. CASE state = "S_IDLE" /\ ctrl_start
  <2>1. ~done
    BY <1>3 DEF Phases
  <2>2. state' = "S_LOAD_ADDR" /\ li' = 0 /\ cyc' = cyc /\ job_r'.m = lat.m /\ done' = FALSE
    BY <1>3 DEF CtrlEdge, FsmEdge, Idle, LoadAddr, LoadData, LoadPulse, Prefetch, Stream, Finish
  <2>3. ~rd_en /\ ~wr_en /\ Taken = 0 /\ Made = 0 /\ Taken' = 0 /\ Made' = 0
    BY <1>1, <1>3, <2>1, <2>2 DEF rd_en, wr_en, Taken, Made
  <2>4. Sequencing'
    BY <1>2, <2>2 DEF Sequencing
  <2>5. QED
    BY <1>1, <2>1, <2>2, <2>3, <2>4 DEF Bit
<1>4. CASE state = "S_IDLE" /\ ~ctrl_start
  <2>1. done
    BY <1>4 DEF Phases
  <2>2. state' = "S_IDLE" /\ li' = li /\ cyc' = cyc /\ done' = FALSE
    BY <1>4 DEF CtrlEdge, FsmEdge, Idle, LoadAddr, LoadData, LoadPulse, Prefetch, Stream, Finish
  <2>3. /\ ~rd_en /\ ~wr_en /\ Taken = N + lat.m /\ Made = lat.m
        /\ Taken' = N + lat.m /\ Made' = lat.m
    BY <1>1, <1>4, <2>2 DEF rd_en, wr_en, Taken, Made
  <2>4. Sequencing'
    BY <2>2 DEF Sequencing
  <2>5. QED
    BY <1>1, <1>2, <2>1, <2>2, <2>3, <2>4 DEF Bit
<1>5. CASE state = "S_LOAD_ADDR"
  <2>1. ~done /\ li \in 0..(N - 1) /\ cyc \in Int /\ job_r.m = lat.m
    BY <1>5 DEF Phases, Sequencing
  <2>2. state' = "S_LOAD_DATA" /\ li' = li /\ cyc' = cyc /\ job_r' = job_r /\ done' = FALSE
    BY <1>5 DEF CtrlEdge, FsmEdge, Idle, LoadAddr, LoadData, LoadPulse, Prefetch, Stream, Finish
  <2>3. rd_en /\ ~wr_en /\ Taken = li /\ Made = 0 /\ Taken' = li + 1 /\ Made' = 0
    BY <1>1, <1>5, <2>1, <2>2 DEF rd_en, wr_en, Taken, Made
  <2>4. Sequencing'
    BY <2>1, <2>2 DEF Sequencing
  <2>5. QED
    BY <1>1, <2>1, <2>2, <2>3, <2>4 DEF Bit
<1>6. CASE state = "S_LOAD_DATA"
  <2>1. ~done /\ li \in 0..(N - 1) /\ cyc \in Int /\ job_r.m = lat.m
    BY <1>6 DEF Phases, Sequencing
  <2>2. /\ cyc' = cyc /\ job_r' = job_r /\ done' = FALSE
        /\ IF li = N - 1 THEN state' = "S_LOAD_PULSE" /\ li' = li
                         ELSE state' = "S_LOAD_ADDR" /\ li' = li + 1
    BY <1>6, NoWrap
       DEF CtrlEdge, FsmEdge, Idle, LoadAddr, LoadData, LoadPulse, Prefetch, Stream, Finish
  <2>3. ~rd_en /\ ~wr_en /\ Taken = li + 1 /\ Made = 0 /\ Taken' = li + 1 /\ Made' = 0
    BY <1>1, <1>2, <1>6, <2>1, <2>2 DEF rd_en, wr_en, Taken, Made
  <2>4. Sequencing'
    BY <1>2, <2>1, <2>2 DEF Sequencing
  <2>5. QED
    BY <1>1, <2>1, <2>2, <2>3, <2>4 DEF Bit
<1>7. CASE state = "S_LOAD_PULSE"
  <2>1. ~done /\ li \in Int /\ cyc \in Int /\ job_r.m = lat.m
    BY <1>7 DEF Phases, Sequencing
  <2>2. state' = "S_PREFETCH" /\ li' = li /\ cyc' = cyc /\ job_r' = job_r /\ done' = FALSE
    BY <1>7 DEF CtrlEdge, FsmEdge, Idle, LoadAddr, LoadData, LoadPulse, Prefetch, Stream, Finish
  <2>3. ~rd_en /\ ~wr_en /\ Taken = N /\ Made = 0 /\ Taken' = N /\ Made' = 0
    BY <1>1, <1>7, <2>1, <2>2 DEF rd_en, wr_en, Taken, Made
  <2>4. Sequencing'
    BY <2>1, <2>2 DEF Sequencing
  <2>5. QED
    BY <1>1, <1>2, <2>1, <2>2, <2>3, <2>4 DEF Bit
<1>8. CASE state = "S_PREFETCH"
  <2>1. ~done /\ li \in Int /\ job_r.m = lat.m
    BY <1>8 DEF Phases, Sequencing
  <2>2. state' = "S_STREAM" /\ li' = li /\ cyc' = 0 /\ job_r' = job_r /\ done' = FALSE
    BY <1>8 DEF CtrlEdge, FsmEdge, Idle, LoadAddr, LoadData, LoadPulse, Prefetch, Stream, Finish
  <2>3. rd_en /\ ~wr_en /\ Taken = N /\ Made = 0 /\ Taken' = N + 1 /\ Made' = 0
    BY <1>1, <1>2, <1>8, <2>1, <2>2 DEF rd_en, wr_en, Taken, Made, Lesser, Latency
  <2>4. Sequencing'
    BY <1>2, <2>1, <2>2 DEF Sequencing, Latency
  <2>5. QED
    BY <1>1, <2>1, <2>2, <2>3, <2>4 DEF Bit
<1>9. CASE state = "S_STREAM"
  <2>1. ~done /\ li \in Int /\ cyc \in 0..(lat.m + Latency - 1) /\ job_r.m = lat.m
    BY <1>9 DEF Phases, Sequencing
  <2>2. /\ li' = li /\ job_r' = job_r /\ done' = FALSE
        /\ IF cyc = lat.m + Latency - 1 THEN state' = "S_DONE" /\ cyc' = cyc
                                        ELSE state' = "S_STREAM" /\ cyc' = cyc + 1
    BY <1>9, NoWrap
       DEF CtrlEdge, FsmEdge, Idle, LoadAddr, LoadData, LoadPulse, Prefetch, Stream, Finish
  <2>3. /\ rd_en <=> cyc + 1 < lat.m
        /\ wr_en <=> cyc >= Latency /\ cyc - Latency < lat.m
    BY <1>9, <2>1, NoWrap DEF rd_en, wr_en
  <2>4. /\ Taken = N + Lesser(cyc + 1, lat.m)
        /\ Made = IF cyc > Latency THEN cyc - Latency ELSE 0
    BY <1>9 DEF Taken, Made
  <2>5. CASE cyc = lat.m + Latency - 1
    <3>1. Taken' = N + lat.m /\ Made' = lat.m
      BY <1>1, <2>1, <2>2, <2>5 DEF Taken, Made
    <3>2. Taken' = Taken + Bit(rd_en) /\ Made' = Made + Bit(wr_en)
      BY <1>2, <2>1, <2>3, <2>4, <2>5, <3>1 DEF Bit, Lesser
    <3>3. Sequencing'
      BY <2>1, <2>2, <2>5, <1>2 DEF Sequencing
    <3>4. QED
      BY <1>1, <2>1, <2>2, <2>5, <3>2, <3>3
  <2>6. CASE cyc # lat.m + Latency - 1
    <3>1. /\ Taken' = N + Lesser(cyc + 2, lat.m)
          /\ Made' = IF cyc + 1 > Latency THEN cyc + 1 - Latency ELSE 0
      <4>1. cyc' + 1 = cyc + 2 /\ Latency' = Latency /\ N' = N
        BY <2>1, <2>2, <2>6 DEF Latency
      <4>2. Taken' = N + Lesser(cyc' + 1, lat.m)
        BY <1>1, <2>1, <2>2, <2>6 DEF Taken, Lesser
      <4>3. Made' = IF cyc' > Latency THEN cyc' - Latency ELSE 0
        BY <1>1, <2>1, <2>2, <2>6 DEF Made
      <4>4. QED
        BY <1>2, <2>1, <2>2, <2>6, <4>1, <4>2, <4>3
    <3>2. Taken' = Taken + Bit(rd_en) /\ Made' = Made + Bit(wr_en)
      BY <1>2, <2>1, <2>3, <2>4, <2>6, <3>1 DEF Bit, Lesser
    <3>3. Sequencing'
      BY <2>1, <2>2, <2>6, <1>2 DEF Sequencing, Latency
    <3>4. QED
      BY <1>1, <2>1, <2>2, <2>6, <3>2, <3>3
  <2>7. QED
    BY <2>5, <2>6
<1>10. CASE state = "S_DONE"
  <2>1. ~done /\ li \in Int /\ cyc \in Int
    BY <1>10 DEF Phases, Sequencing
  <2>2. state' = "S_IDLE" /\ li' = li /\ cyc' = cyc /\ done' = TRUE
    BY <1>10 DEF CtrlEdge, FsmEdge, Idle, LoadAddr, LoadData, LoadPulse, Prefetch, Stream, Finish
  <2>3. /\ ~rd_en /\ ~wr_en /\ Taken = N + lat.m /\ Made = lat.m
        /\ Taken' = N + lat.m /\ Made' = lat.m
    BY <1>1, <1>10, <2>1, <2>2 DEF rd_en, wr_en, Taken, Made
  <2>4. Sequencing'
    BY <2>1, <2>2 DEF Sequencing
  <2>5. QED
    BY <1>1, <1>2, <2>1, <2>2, <2>3, <2>4 DEF Bit
<1>11. QED
  BY <1>3, <1>4, <1>5, <1>6, <1>7, <1>8, <1>9, <1>10 DEF IInv, Types, TypeOK, States

\* While the bridge is busy no command begins.
LEMMA BusyStep ==
    ASSUME RegionInv, bstate # "B_IDLE",
           NEW start \in BOOLEAN, NEW in \in Jobs, NEW arready \in BOOLEAN,
           NEW awready \in BOOLEAN, NEW wready \in BOOLEAN,
           RdEdge(start, in, arready), WrEdge(start, in, awready, wready)
    PROVE  /\ lat' = lat /\ rd_total' = rd_total /\ wr_total' = wr_total
           /\ wr_issued' = IF wstate = "W_DATA" /\ WBeat(wready) /\ wlast
                           THEN wr_issued + w_burst_len ELSE wr_issued
           /\ wr_acked' = IF wstate = "W_BRESP" /\ bvalid
                          THEN wr_acked + w_burst_len ELSE wr_acked
           /\ rstate = "R_IDLE" => rstate' = "R_IDLE"
           /\ rstate' = "R_IDLE" => rstate = "R_IDLE" \/ rd_issued >= rd_total
           /\ rd_issued' = rd_issued + Bit(RBeat)
<1>1. bridge_busy
  BY DEF bridge_busy
<1>2. rstate # "R_BURST" => ~RBeat
  BY DEF RBeat, RegionInv, IInv, ReadPort
<1>3. rd_issued \in Nat
  BY DEF RegionInv, IInv, Types, Counters
<1>4. /\ lat' = lat /\ rd_total' = rd_total
      /\ rstate = "R_IDLE" => rstate' = "R_IDLE"
      /\ rstate' = "R_IDLE" => rstate = "R_IDLE" \/ rd_issued >= rd_total
      /\ rd_issued' = rd_issued + Bit(RBeat)
  BY <1>1, <1>2, <1>3 DEF RdEdge, RdIdle, RdIssue, RdBurst, Bit
<1>5. QED
  BY <1>1, <1>4 DEF WrEdge, WrCounters

\* A beat on the write port is one row sent.
LEMMA SentStep ==
    ASSUME RegionInv, bstate # "B_IDLE",
           NEW start \in BOOLEAN, NEW in \in Jobs, NEW arready \in BOOLEAN,
           NEW awready \in BOOLEAN, NEW wready \in BOOLEAN,
           RdEdge(start, in, arready), WrEdge(start, in, awready, wready)
    PROVE  Sent' = Sent + Bit(WBeat(wready))
<1>1. wr_issued' = IF wstate = "W_DATA" /\ WBeat(wready) /\ wlast
                   THEN wr_issued + w_burst_len ELSE wr_issued
  BY BusyStep
<1>2. wr_issued \in Nat /\ w_beat_cnt \in Nat /\ w_burst_len \in Nat /\ aw_beat \in Nat
  BY DEF RegionInv, IInv, Types, Counters
<1>3. CASE wstate = "W_DATA"
  <2>1. /\ WrData(wready) /\ aw_len_r = w_burst_len - 1 /\ aw_beat = w_beat_cnt
        /\ wlast <=> aw_beat = aw_len_r
    BY <1>3 DEF WrEdge, WrIdle, WrAddr, WrResp, RegionInv, IInv, WritePort
  <2>2. CASE WBeat(wready) /\ wlast
    <3>1. wstate' = "W_BRESP" /\ wr_issued' = wr_issued + w_burst_len
      BY <1>1, <1>3, <2>1, <2>2 DEF WrData
    <3>2. w_burst_len = w_beat_cnt + 1
      BY <1>2, <2>1, <2>2
    <3>3. QED
      BY <1>2, <1>3, <2>2, <3>1, <3>2 DEF Sent, Bit
  <2>3. CASE ~(WBeat(wready) /\ wlast)
    <3>1. /\ wstate' = "W_DATA" /\ wr_issued' = wr_issued
          /\ w_beat_cnt' = w_beat_cnt + Bit(WBeat(wready))
      BY <1>1, <1>2, <1>3, <2>1, <2>3 DEF WrData, Bit
    <3>2. QED
      BY <1>2, <1>3, <3>1 DEF Sent, Bit
  <2>4. QED
    BY <2>2, <2>3
<1>4. CASE wstate # "W_DATA"
  <2>1. wr_issued' = wr_issued /\ ~WBeat(wready)
    BY <1>1, <1>4 DEF WBeat, RegionInv, IInv, WritePort
  <2>2. wstate' = "W_DATA" => w_beat_cnt' = 0
    BY <1>4 DEF WrEdge, WrIdle, WrAddr, WrData, WrResp, RegionInv, IInv, WritePort
  <2>3. QED
    BY <1>2, <1>4, <2>1, <2>2 DEF Sent, Bit
<1>5. QED
  BY <1>3, <1>4

\* The counts lie between empty and full, and a strobe finds what it needs.
LEMMA LevelBounds ==
    ASSUME JobsFit, RegionInv, LevelInv
    PROVE  /\ FifoSafe
           /\ rf_count <= N + lat.m /\ wf_count <= lat.m
           /\ RBeat => rf_count < N + lat.m
           /\ wr_en => wf_count < lat.m
           /\ bstate # "B_IDLE" => Taken \in Nat /\ Made \in Nat /\ Sent \in Nat
<1> USE DEF RegionInv, LevelInv
<1>1. /\ N \in Nat /\ N >= 1 /\ lat.m \in Nat /\ lat.m >= 1
      /\ Latency \in Nat /\ Latency = 2 * N - 1
      /\ lat.m <= WR_DEPTH /\ N + lat.m <= RD_DEPTH
      /\ RD_DEPTH \in Nat /\ WR_DEPTH \in Nat
  BY Sizes DEF Latency
<1>2. /\ rd_issued \in Nat /\ rf_count \in Nat /\ wf_count \in Nat
      /\ wr_issued \in Nat /\ w_beat_cnt \in Nat /\ Sent \in Nat
  BY StreamAssumption DEF IInv, Types, TypeOK, Counters, Sent
<1>3. bstate # "B_IDLE" => Taken \in Nat /\ Made \in Nat /\ Made <= lat.m
  <2>1. SUFFICES ASSUME bstate # "B_IDLE"
                 PROVE  Taken \in Nat /\ Made \in Nat /\ Made <= lat.m
    OBVIOUS
  <2>2. CASE state = "S_STREAM"
    <3>1. cyc \in 0..(lat.m + Latency - 1)
      BY <2>2 DEF Sequencing
    <3>2. QED
      BY <1>1, <2>2, <3>1 DEF Taken, Made, Lesser
  <2>3. CASE state # "S_STREAM"
    <3>1. state \in {"S_LOAD_ADDR", "S_LOAD_DATA"} => li \in 0..(N - 1)
      BY DEF Sequencing
    <3>2. QED
      BY <1>1, <2>3, <3>1 DEF Taken, Made, IInv, Types, TypeOK, States
  <2>4. QED
    BY <2>2, <2>3
<1>4. rd_issued <= N + lat.m \/ bstate = "B_IDLE"
  BY <1>1, <1>2 DEF Phases, ReadBurst
<1>5. rf_count <= N + lat.m /\ wf_count <= lat.m
  BY <1>1, <1>2, <1>3, <1>4 DEF Levels
<1>6. RBeat => rf_count < N + lat.m
  <2> SUFFICES ASSUME RBeat PROVE rf_count < N + lat.m
    OBVIOUS
  <2>1. rstate = "R_BURST" /\ rvalid
    BY DEF RBeat, IInv, ReadPort
  <2>2. bstate # "B_IDLE" /\ rd_issued < N + lat.m
    BY <2>1 DEF Phases, ReadBurst
  <2>3. QED
    BY <1>1, <1>2, <1>3, <2>2 DEF Levels
<1>7. wr_en => wf_count < lat.m
  <2> SUFFICES ASSUME wr_en PROVE wf_count < lat.m
    OBVIOUS
  <2>1. state = "S_STREAM" /\ cyc >= Latency /\ cyc - Latency < lat.m /\ cyc \in Int
    BY DEF wr_en, Sequencing
  <2>2. bstate = "B_RUN"
    BY <2>1 DEF Phases
  <2>3. Made = cyc - Latency
    BY <1>1, <2>1, <2>2 DEF Made
  <2>4. QED
    BY <1>1, <1>2, <2>1, <2>2, <2>3 DEF Levels
<1>8. rd_en => rf_count > 0
  <2> SUFFICES ASSUME rd_en PROVE rf_count > 0
    OBVIOUS
  <2>1. /\ state \in {"S_LOAD_ADDR", "S_PREFETCH", "S_STREAM"} /\ job_r.m = lat.m
        /\ state = "S_LOAD_ADDR" => li \in 0..(N - 1)
        /\ state = "S_STREAM" => cyc \in Int /\ cyc + 1 < lat.m
    BY NoWrap DEF rd_en, Sequencing
  <2>2. bstate = "B_RUN"
    BY <2>1 DEF Phases
  <2>3. rd_issued = N + lat.m
    BY <2>2 DEF Phases
  <2>4. Taken < N + lat.m
    BY <1>1, <2>1, <2>2 DEF Taken, Lesser
  <2>5. QED
    BY <1>1, <1>2, <1>3, <2>2, <2>3, <2>4 DEF Levels
<1>9. wvalid => wf_count > 0
  <2> SUFFICES ASSUME wvalid PROVE wf_count > 0
    OBVIOUS
  <2>1. wstate = "W_DATA" /\ w_burst_len \in Nat
    BY DEF IInv, WritePort, Types, Counters
  <2>2. QED
    BY <1>2, <2>1 DEF WriteBurst
<1>10. FifoSafe
  BY <1>1, <1>2, <1>5, <1>6, <1>7, <1>8, <1>9 DEF FifoSafe
<1>11. QED
  BY <1>2, <1>3, <1>5, <1>6, <1>7, <1>10

\* The counters of the FIFOs do not wrap.
LEMMA CountStep ==
    ASSUME JobsFit, RegionInv, LevelInv, NEW wready \in BOOLEAN,
           RdFifoEdge, WrFifoEdge(wready)
    PROVE  /\ rf_count' = rf_count + Bit(RBeat) - Bit(rd_en)
           /\ wf_count' = wf_count + Bit(wr_en) - Bit(WBeat(wready))
<1>1. /\ N \in Nat /\ N >= 1 /\ lat.m \in Nat /\ lat.m + 2 * N <= CNT_MOD
      /\ CNT_MOD \in Nat \ {0}
  BY Sizes DEF RegionInv
<1>2. rf_count \in Nat /\ wf_count \in Nat
  BY StreamAssumption DEF RegionInv, IInv, Types, TypeOK
<1>3. /\ rf_count <= N + lat.m /\ wf_count <= lat.m
      /\ RBeat => rf_count < N + lat.m
      /\ rd_en => rf_count > 0
      /\ wr_en => wf_count < lat.m
      /\ WBeat(wready) => wf_count > 0
  BY LevelBounds DEF FifoSafe, WBeat
<1>4. /\ rf_count + Bit(RBeat) - Bit(rd_en) \in 0..(CNT_MOD - 1)
      /\ wf_count + Bit(wr_en) - Bit(WBeat(wready)) \in 0..(CNT_MOD - 1)
  BY <1>1, <1>2, <1>3 DEF Bit
<1>5. QED
  BY <1>1, <1>4, ModSmall DEF RdFifoEdge, WrFifoEdge

LEMMA PhasesStep ==
    ASSUME JobsFit, RegionInv, LevelInv, RegionInv',
           NEW start \in BOOLEAN, NEW in \in Jobs, NEW arready \in BOOLEAN,
           NEW awready \in BOOLEAN, NEW wready \in BOOLEAN,
           bstate # "B_IDLE" => in = lat,
           RdEdge(start, in, arready), WrEdge(start, in, awready, wready),
           TopEdge(start), CtrlEdge(in)
    PROVE  Phases' /\ Sequencing'
<1> USE DEF RegionInv, LevelInv
<1>1. CASE bstate = "B_IDLE"
  <2>1. state' = "S_IDLE" /\ ~done' /\ Sequencing'
    BY <1>1, QuietStep
  <2>2. TopIdle(start) /\ rstate = "R_IDLE" /\ ~bridge_busy
    BY <1>1 DEF TopEdge, TopPrefetch, TopRun, TopDrain, Phases, bridge_busy
  <2>3. ~ctrl_start' /\ ~bdone'
    BY <2>2 DEF TopIdle
  <2>4. CASE start
    <3>1. bstate' = "B_PREFETCH" /\ rstate' = "R_ISSUE" /\ lat' = in /\ wr_total' = in.m
      BY <2>2, <2>4
         DEF TopIdle, RdEdge, RdIdle, RdIssue, RdBurst, WrEdge, WrCounters
    <3>2. rd_total' = N + lat'.m
      BY <3>1 DEF ReadRegion
    <3>3. QED
      BY <2>1, <2>3, <3>1, <3>2 DEF Phases
  <2>5. CASE ~start
    <3>1. bstate' = "B_IDLE" /\ rstate' = "R_IDLE"
      BY <1>1, <2>2, <2>5 DEF TopIdle, RdEdge, RdIdle, RdIssue, RdBurst
    <3>2. QED
      BY <2>1, <2>3, <3>1 DEF Phases
  <2>6. QED
    BY <2>1, <2>4, <2>5
<1>2. CASE bstate # "B_IDLE"
  <2>1. /\ lat' = lat /\ rd_total' = rd_total /\ wr_total' = wr_total
        /\ rstate = "R_IDLE" => rstate' = "R_IDLE"
        /\ rstate' = "R_IDLE" => rstate = "R_IDLE" \/ rd_issued >= rd_total
        /\ rd_issued' = rd_issued + Bit(RBeat)
    BY <1>2, BusyStep
  <2>2. rd_total = N + lat.m /\ wr_total = lat.m
    BY <1>2 DEF Phases
  <2>3. rstate' = "R_IDLE" => rd_issued' = rd_total'
    <3>1. SUFFICES ASSUME rstate' = "R_IDLE" PROVE rd_issued' = rd_total'
      OBVIOUS
    <3>2. CASE rstate = "R_IDLE"
      <4>1. ~RBeat /\ rd_issued = rd_total
        BY <1>2, <3>2 DEF RBeat, IInv, ReadPort, Phases
      <4>2. QED
        BY <2>1, <4>1 DEF Bit, IInv, Types, Counters
    <3>3. CASE rstate # "R_IDLE"
      <4>1. rd_issued = rd_total
        BY <2>1, <3>1, <3>3 DEF ReadBurst, IInv, Types, Counters
      <4>2. rstate # "R_BURST"
        BY <2>1, <3>1, <3>3, <4>1 DEF RdEdge, RdIdle, RdIssue, RdBurst
      <4>3. ~RBeat
        BY <4>2 DEF RBeat, IInv, ReadPort
      <4>4. QED
        BY <2>1, <4>1, <4>3 DEF Bit, IInv, Types, Counters
    <3>4. QED
      BY <3>2, <3>3
  <2>4. CASE bstate = "B_PREFETCH"
    <3>1. state' = "S_IDLE" /\ ~done' /\ Sequencing'
      BY <2>4, QuietStep
    <3>2. TopPrefetch
      BY <2>4 DEF TopEdge, TopIdle, TopRun, TopDrain
    <3>3. CASE rd_all_buffered
      <4>1. bstate' = "B_RUN" /\ ctrl_start' /\ ~bdone' /\ rstate = "R_IDLE"
        BY <3>2, <3>3 DEF TopPrefetch, rd_all_buffered
      <4>2. QED
        BY <2>1, <2>2, <2>3, <3>1, <4>1 DEF Phases
    <3>4. CASE ~rd_all_buffered
      <4>1. bstate' = "B_PREFETCH" /\ ~ctrl_start' /\ ~bdone'
        BY <2>4, <3>2, <3>4 DEF TopPrefetch
      <4>2. QED
        BY <2>1, <2>2, <2>3, <3>1, <4>1 DEF Phases
    <3>5. QED
      BY <3>3, <3>4
  <2>5. CASE bstate = "B_RUN"
    <3>1. TopRun /\ in = lat
      BY <2>5 DEF TopEdge, TopIdle, TopPrefetch, TopDrain
    <3>2. /\ Sequencing'
          /\ IF state' = "S_IDLE" THEN done' <=> bstate' = "B_RUN" ELSE ~done'
          /\ bstate' # "B_RUN" => state' = "S_IDLE"
      BY <2>1, <2>5, <3>1, RunStep
    <3>3. ~ctrl_start' /\ ~bdone' /\ bstate' \in {"B_RUN", "B_DRAIN"} /\ rstate' = "R_IDLE"
      BY <2>1, <2>5, <3>1 DEF TopRun, Phases
    <3>4. QED
      BY <2>1, <2>2, <2>3, <3>2, <3>3 DEF Phases
  <2>6. CASE bstate = "B_DRAIN"
    <3>1. state' = "S_IDLE" /\ ~done' /\ Sequencing'
      BY <2>6, QuietStep
    <3>2. TopDrain /\ rstate' = "R_IDLE"
      BY <2>1, <2>6 DEF TopEdge, TopIdle, TopPrefetch, TopRun, Phases
    <3>3. ~ctrl_start'
      BY <3>2 DEF TopDrain
    <3>4. CASE drained
      <4>1. bstate' = "B_IDLE"
        BY <3>2, <3>4 DEF TopDrain
      <4>2. wstate' = "W_IDLE" /\ wr_issued' = wr_total' /\ wr_acked' = wr_issued'
        BY <4>1 DEF WriteRegion
      <4>3. QED
        BY <2>1, <2>2, <3>1, <3>2, <3>3, <4>1, <4>2 DEF Phases
    <3>5. CASE ~drained
      <4>1. bstate' = "B_DRAIN" /\ ~bdone'
        BY <2>6, <3>2, <3>5 DEF TopDrain, drained, IInv, Types, Counters
      <4>2. QED
        BY <2>1, <2>2, <2>3, <3>1, <3>2, <3>3, <4>1 DEF Phases
    <3>6. QED
      BY <3>4, <3>5
  <2>7. QED
    BY <1>2, <2>4, <2>5, <2>6 DEF IInv, Types, TypeOK
<1>3. QED
  BY <1>1, <1>2

LEMMA ReadBurstStep ==
    ASSUME RegionInv, LevelInv,
           NEW start \in BOOLEAN, NEW in \in Jobs, NEW arready \in BOOLEAN,
           NEW r_gate \in BOOLEAN,
           RdEdge(start, in, arready), RamRdEdge(arready, r_gate)
    PROVE  ReadBurst'
<1> USE DEF RegionInv, LevelInv, IInv
<1>0. /\ rd_issued \in Nat /\ rd_total \in Nat /\ arlen \in Nat
      /\ ar_beat \in Nat /\ ar_len_r \in Nat
  BY BridgeAssumption DEF Types, TypeOK, Counters, ReadBurst
<1>1. CASE rstate = "R_IDLE"
  <2>1. RdIdle(start, in, arready) /\ ar_state = "AR_IDLE" /\ ~arvalid /\ ~rvalid
    BY <1>1 DEF RdEdge, RdIssue, RdBurst, ReadPort
  <2>2. ar_state' = "AR_IDLE" /\ ~rvalid' /\ UNCHANGED <<ar_beat, ar_len_r>>
    BY <2>1 DEF RamRdEdge, ramRdVars
  <2>3. rstate' # "R_IDLE" => rd_issued' <= rd_total'
    <3>1. (N + in.m) % CNT_MOD \in Nat
      <4>1. N + in.m \in Int /\ CNT_MOD \in Nat \ {0}
        BY StreamAssumption, BridgeAssumption
      <4>2. QED
        BY <4>1
    <3>2. QED
      BY <1>1, <2>1, <3>1 DEF RdIdle
  <2>4. QED
    BY <1>0, <2>2, <2>3 DEF ReadBurst
<1>2. CASE rstate = "R_ISSUE"
  <2>1. RdIssue(arready) /\ ar_state = "AR_IDLE" /\ ~arvalid /\ ~rvalid
    BY <1>2 DEF RdEdge, RdIdle, RdBurst, ReadPort
  <2>2. ar_state' = "AR_IDLE" /\ ~rvalid' /\ UNCHANGED <<ar_beat, ar_len_r>>
    BY <2>1 DEF RamRdEdge, ramRdVars
  <2>3. rd_issued' <= rd_total'
    BY <1>2, <2>1 DEF RdIssue, ReadBurst
  <2>4. QED
    BY <1>0, <2>2, <2>3 DEF ReadBurst
<1>3. CASE rstate = "R_BURST"
  <2>1. rd_issued' = rd_issued + Bit(RBeat) /\ rd_total' = rd_total
    BY <1>3 DEF RdEdge, RdIdle, RdIssue, RdBurst
  <2>2. CASE ar_state = "AR_IDLE" /\ arvalid /\ ~rvalid
    <3>0. ~rvalid'
      BY <2>2 DEF RamRdEdge
    <3>1. rd_issued' = rd_issued /\ ~rvalid'
      BY <1>0, <2>1, <2>2, <3>0 DEF RBeat, Bit
    <3>2. rd_issued + arlen < rd_total
      <4>1. rd_issued < rd_total /\ arlen < rd_remaining /\ rd_total = N + lat.m
        BY <1>3, <2>2 DEF ReadRegion
      <4>2. N \in Nat /\ lat.m \in Nat
        BY StreamAssumption, BridgeAssumption DEF Types, TypeOK
      <4>3. QED
        BY <1>0, <4>1, <4>2 DEF rd_remaining
    <3>3. CASE arready
      <4>1. ar_state' = "AR_BURST" /\ ar_len_r' = arlen /\ ar_beat' = 0
        BY <2>2, <3>3 DEF RamRdEdge
      <4>2. QED
        BY <1>0, <2>1, <3>1, <3>2, <4>1 DEF ReadBurst, Bit
    <3>4. CASE ~arready
      <4>1. ar_state' = "AR_IDLE" /\ UNCHANGED <<ar_beat, ar_len_r>>
        BY <2>2, <3>4 DEF RamRdEdge
      <4>2. QED
        BY <1>0, <2>1, <3>1, <3>2, <4>1 DEF ReadBurst
    <3>5. QED
      BY <3>3, <3>4
  <2>3. CASE ar_state = "AR_BURST"
    <3>1. ar_beat <= ar_len_r /\ rd_issued + Bit(rvalid) + (ar_len_r - ar_beat) < rd_total
      BY <2>3 DEF ReadBurst
    <3>2. CASE rvalid /\ ~rready
      <4>1. rd_issued' = rd_issued
        BY <1>0, <2>1, <3>2 DEF RBeat, Bit
      <4>2. rvalid' = rvalid /\ UNCHANGED <<ar_state, ar_beat, ar_len_r>>
        BY <2>3, <3>2 DEF RamRdEdge, ramRdVars
      <4>3. QED
        BY <1>0, <2>1, <2>3, <3>1, <3>2, <4>1, <4>2 DEF ReadBurst, Bit
    <3>3. CASE ~rvalid \/ rready
      <4>1. rd_issued' = rd_issued + Bit(rvalid)
        BY <2>1, <3>3 DEF RBeat, Bit
      <4>2. ar_len_r' = ar_len_r /\ rvalid' = r_gate
        BY <2>3, <3>3 DEF RamRdEdge
      <4>3. CASE r_gate /\ ar_beat = ar_len_r
        <5>1. ar_state' = "AR_IDLE" /\ ar_beat' = ar_beat
          BY <2>3, <3>3, <4>3 DEF RamRdEdge
        <5>2. QED
          BY <1>0, <2>1, <3>1, <4>1, <4>2, <4>3, <5>1 DEF ReadBurst, Bit
      <4>4. CASE r_gate /\ ar_beat # ar_len_r
        <5>1. ar_state' = "AR_BURST" /\ ar_beat' = ar_beat + 1
          BY <2>3, <3>3, <4>4 DEF RamRdEdge
        <5>2. QED
          BY <1>0, <2>1, <3>1, <4>1, <4>2, <4>4, <5>1 DEF ReadBurst, Bit
      <4>5. CASE ~r_gate
        <5>1. ar_state' = "AR_BURST" /\ ar_beat' = ar_beat
          BY <2>3, <3>3, <4>5 DEF RamRdEdge
        <5>2. QED
          BY <1>0, <2>1, <3>1, <4>1, <4>2, <4>5, <5>1 DEF ReadBurst, Bit
      <4>6. QED
        BY <4>3, <4>4, <4>5
    <3>4. QED
      BY <3>2, <3>3
  <2>4. CASE ar_state = "AR_IDLE" /\ ~arvalid /\ rvalid
    <3>1. /\ ar_state' = "AR_IDLE" /\ UNCHANGED <<ar_beat, ar_len_r>>
          /\ rvalid' <=> ~rready
      BY <2>4 DEF RamRdEdge
    <3>2. rd_issued' = rd_issued + (IF rready THEN 1 ELSE 0) /\ rd_issued < rd_total
      BY <2>1, <2>4 DEF RBeat, Bit, ReadBurst
    <3>3. QED
      BY <1>0, <2>1, <3>1, <3>2 DEF ReadBurst
  <2>5. QED
    BY <1>3, <2>2, <2>3, <2>4 DEF ReadPort
<1>4. QED
  BY <1>1, <1>2, <1>3 DEF ReadPort

LEMMA WriteBurstStep ==
    ASSUME JobsFit, RegionInv, LevelInv,
           NEW start \in BOOLEAN, NEW in \in Jobs,
           NEW awready \in BOOLEAN, NEW wready \in BOOLEAN,
           RdFifoEdge, WrEdge(start, in, awready, wready)
    PROVE  WriteBurst'
<1> USE DEF RegionInv, LevelInv, IInv
<1>1. wf_count' = wf_count + Bit(wr_en) - Bit(WBeat(wready))
  BY CountStep DEF WrEdge
<1>2. /\ wf_count \in Nat /\ w_burst_len \in Nat /\ w_beat_cnt \in Nat /\ aw_beat \in Nat
      /\ Bit(wr_en) \in {0, 1}
  BY StreamAssumption DEF Types, TypeOK, Counters, Bit
<1>3. CASE wstate = "W_IDLE"
  <2>1. WrIdle /\ ~WBeat(wready)
    BY <1>3 DEF WrEdge, WrAddr, WrData, WrResp, WBeat, WritePort
  <2>2. wf_count' >= wf_count
    BY <1>1, <1>2, <2>1 DEF Bit
  <2>3. CASE wr_issued < wr_total /\ next_wburst_len # 0
    <3>1. wstate' = "W_AW" /\ w_burst_len' = next_wburst_len
      BY <2>1, <2>3 DEF WrIdle
    <3>2. next_wburst_len \in Nat /\ next_wburst_len <= wf_count
      <4>1. next_wburst_len \in Nat
        BY <2>3, BurstFits
      <4>2. rem % LEN_MOD \in Int
        <5>1. wr_total - wr_issued \in Int /\ CNT_MOD \in Nat \ {0} /\ LEN_MOD \in Nat \ {0}
          BY StreamAssumption, BridgeAssumption DEF Types, Counters
        <5>2. rem \in Int
          BY <5>1 DEF rem
        <5>3. QED
          BY <5>1, <5>2
      <4>3. QED
        BY <1>2, <4>1, <4>2, BridgeAssumption DEF next_wburst_len, Lesser
    <3>3. wf_count' \in Int
      BY <1>1, <1>2, <2>1 DEF Bit
    <3>4. QED
      BY <1>2, <2>2, <3>1, <3>2, <3>3 DEF WriteBurst
  <2>4. CASE ~(wr_issued < wr_total /\ next_wburst_len # 0)
    <3>1. wstate' = "W_IDLE"
      BY <1>3, <2>1, <2>4 DEF WrIdle
    <3>2. QED
      BY <3>1 DEF WriteBurst
  <2>5. QED
    BY <2>3, <2>4
<1>4. CASE wstate = "W_AW"
  <2>1. /\ wstate' \in {"W_AW", "W_DATA"} /\ w_burst_len' = w_burst_len
        /\ w_beat_cnt' = 0 /\ ~WBeat(wready) /\ w_burst_len >= 1
    BY <1>4 DEF WrEdge, WrIdle, WrAddr, WrData, WrResp, WBeat, WritePort, WriteRegion
  <2>2. wf_count' = wf_count + Bit(wr_en) /\ w_burst_len <= wf_count
    BY <1>1, <1>2, <1>4, <2>1 DEF Bit, WriteBurst
  <2>3. QED
    BY <1>2, <2>1, <2>2 DEF WriteBurst
<1>5. CASE wstate = "W_DATA"
  <2>1. /\ WrData(wready) /\ aw_len_r = w_burst_len - 1 /\ aw_beat = w_beat_cnt
        /\ wlast <=> aw_beat = aw_len_r
        /\ w_beat_cnt < w_burst_len /\ w_burst_len - w_beat_cnt <= wf_count
    BY <1>5 DEF WrEdge, WrIdle, WrAddr, WrResp, WritePort, WriteBurst
  <2>2. CASE WBeat(wready) /\ wlast
    <3>1. wstate' = "W_BRESP"
      BY <1>5, <2>1, <2>2 DEF WrData
    <3>2. QED
      BY <3>1 DEF WriteBurst
  <2>3. CASE ~(WBeat(wready) /\ wlast)
    <3>1. /\ wstate' = "W_DATA" /\ w_burst_len' = w_burst_len
          /\ w_beat_cnt' = w_beat_cnt + Bit(WBeat(wready))
      BY <1>2, <1>5, <2>1, <2>3 DEF WrData, Bit
    <3>2. w_beat_cnt + Bit(WBeat(wready)) < w_burst_len
      BY <1>2, <2>1, <2>3 DEF Bit
    <3>3. Bit(WBeat(wready)) \in {0, 1}
      BY DEF Bit
    <3>4. QED
      BY <1>1, <1>2, <2>1, <3>1, <3>2, <3>3 DEF WriteBurst
  <2>4. QED
    BY <2>2, <2>3
<1>6. CASE wstate = "W_BRESP"
  <2>1. wstate' \in {"W_IDLE", "W_BRESP"}
    BY <1>6 DEF WrEdge, WrIdle, WrAddr, WrData, WrResp
  <2>2. QED
    BY <2>1 DEF WriteBurst
<1>7. QED
  BY <1>3, <1>4, <1>5, <1>6 DEF WritePort

\* While a command runs, every strobe counts as one word taken or row made.
LEMMA StrobeStep ==
    ASSUME JobsFit, RegionInv, LevelInv, bstate # "B_IDLE", bstate' # "B_IDLE",
           NEW start \in BOOLEAN, lat' = lat, TopEdge(start), CtrlEdge(lat)
    PROVE  Taken' = Taken + Bit(rd_en) /\ Made' = Made + Bit(wr_en)
<1> USE DEF RegionInv, LevelInv
<1>1. lat.m \in Nat /\ N \in Nat
  BY Sizes
<1>2. CASE bstate = "B_PREFETCH"
  <2>1. ~rd_en /\ ~wr_en /\ state' = "S_IDLE"
    BY <1>2, QuietStep
  <2>2. bstate' = "B_PREFETCH" \/ (bstate' = "B_RUN" /\ ctrl_start')
    BY <1>2 DEF TopEdge, TopIdle, TopPrefetch, TopRun, TopDrain
  <2>3. Taken = 0 /\ Made = 0 /\ Taken' = 0 /\ Made' = 0
    BY <1>2, <2>1, <2>2 DEF Taken, Made
  <2>4. QED
    BY <2>1, <2>3 DEF Bit
<1>3. CASE bstate = "B_RUN"
  <2>1. TopRun
    BY <1>3 DEF TopEdge, TopIdle, TopPrefetch, TopDrain
  <2>2. QED
    BY <1>3, <2>1, RunStep
<1>4. CASE bstate = "B_DRAIN"
  <2>1. ~rd_en /\ ~wr_en /\ state' = "S_IDLE" /\ state = "S_IDLE" /\ ~ctrl_start
    BY <1>4, QuietStep DEF Phases
  <2>2. bstate' = "B_DRAIN" /\ ~ctrl_start'
    BY <1>4 DEF TopEdge, TopIdle, TopPrefetch, TopRun, TopDrain
  <2>3. /\ Taken = N + lat.m /\ Made = lat.m
        /\ Taken' = N + lat.m /\ Made' = lat.m
    BY <1>4, <2>1, <2>2 DEF Taken, Made
  <2>4. QED
    BY <1>1, <2>1, <2>3 DEF Bit
<1>5. QED
  BY <1>2, <1>3, <1>4 DEF IInv, Types, TypeOK

LEMMA LevelsStep ==
    ASSUME JobsFit, RegionInv, LevelInv, RegionInv', Phases',
           NEW start \in BOOLEAN, NEW in \in Jobs, NEW arready \in BOOLEAN,
           NEW awready \in BOOLEAN, NEW wready \in BOOLEAN,
           bstate # "B_IDLE" => in = lat,
           RdEdge(start, in, arready), WrEdge(start, in, awready, wready),
           TopEdge(start), CtrlEdge(in)
    PROVE  Levels'
<1> USE DEF RegionInv, LevelInv
<1>1. /\ rf_count' = rf_count + Bit(RBeat) - Bit(rd_en)
      /\ wf_count' = wf_count + Bit(wr_en) - Bit(WBeat(wready))
  BY CountStep DEF RdEdge, WrEdge
<1>2. /\ rd_issued \in Nat /\ rf_count \in Nat /\ wf_count \in Nat
      /\ wr_issued \in Nat /\ w_beat_cnt \in Nat /\ lat.m \in Nat /\ N \in Nat
  BY StreamAssumption, BridgeAssumption DEF IInv, Types, TypeOK, Counters
<1>3. CASE bstate = "B_IDLE"
  <2>1. ~rd_en /\ ~wr_en
    BY <1>3, QuietStep
  <2>2. ~RBeat /\ ~WBeat(wready) /\ rstate = "R_IDLE" /\ wstate = "W_IDLE"
    BY <1>3 DEF Phases, WriteRegion, RBeat, WBeat, IInv, ReadPort, WritePort
  <2>3. rf_count' = 0 /\ wf_count' = 0
    BY <1>1, <1>3, <2>1, <2>2 DEF Levels, Bit
  <2>4. CASE bstate' = "B_IDLE"
    BY <2>3, <2>4 DEF Levels
  <2>5. CASE bstate' # "B_IDLE"
    <3>1. start /\ bstate' = "B_PREFETCH"
      BY <1>3, <2>5 DEF TopEdge, TopIdle, TopPrefetch, TopRun, TopDrain
    <3>2. rd_issued' = 0
      BY <1>3, <2>2, <3>1 DEF RdEdge, RdIdle, RdIssue, RdBurst, bridge_busy
    <3>3. wr_issued' = 0 /\ wstate' = "W_IDLE"
      <4>1. wr_issued = wr_total
        BY <1>3 DEF WriteRegion
      <4>2. wstate' = "W_IDLE"
        BY <2>2, <4>1 DEF WrEdge, WrIdle, WrAddr, WrData, WrResp, IInv, Types, Counters
      <4>3. wr_issued' = 0
        BY <1>3, <2>2, <3>1 DEF WrEdge, WrCounters, bridge_busy
      <4>4. QED
        BY <4>2, <4>3
    <3>4. Taken' = 0 /\ Made' = 0 /\ Sent' = 0
      BY <3>1, <3>3 DEF Taken, Made, Sent
    <3>5. QED
      BY <2>3, <2>5, <3>2, <3>4 DEF Levels
  <2>6. QED
    BY <2>4, <2>5
<1>4. CASE bstate # "B_IDLE"
  <2>1. Sent' = Sent + Bit(WBeat(wready))
    BY <1>4, SentStep
  <2>2. lat' = lat /\ rd_issued' = rd_issued + Bit(RBeat)
    BY <1>4, BusyStep
  <2>3. rf_count = rd_issued - Taken /\ wf_count = Made - Sent
    BY <1>4 DEF Levels
  <2>4. Taken \in Nat /\ Made \in Nat /\ Sent \in Nat
    BY <1>4, LevelBounds
  <2>5. /\ Bit(RBeat) \in {0, 1} /\ Bit(rd_en) \in {0, 1}
        /\ Bit(wr_en) \in {0, 1} /\ Bit(WBeat(wready)) \in {0, 1}
    BY DEF Bit
  <2>6. ASSUME Taken' = Taken + Bit(rd_en), Made' = Made + Bit(wr_en)
        PROVE  rf_count' = rd_issued' - Taken' /\ wf_count' = Made' - Sent'
    <3> DEFINE came == Bit(RBeat)
               out == Bit(rd_en)
               made == Bit(wr_en)
               sent == Bit(WBeat(wready))
    <3>1. /\ came \in Int /\ out \in Int /\ made \in Int /\ sent \in Int
          /\ rf_count' = rf_count + came - out /\ rd_issued' = rd_issued + came
          /\ wf_count' = wf_count + made - sent /\ Sent' = Sent + sent
          /\ Taken' = Taken + out /\ Made' = Made + made
      BY <1>1, <2>1, <2>2, <2>5, <2>6
    <3> HIDE DEF came, out, made, sent
    <3>2. QED
      BY <1>2, <2>3, <2>4, <3>1
  <2>7. CASE bstate' # "B_IDLE"
    <3>1. Taken' = Taken + Bit(rd_en) /\ Made' = Made + Bit(wr_en)
      BY <1>4, <2>2, <2>7, StrobeStep
    <3>2. QED
      BY <2>6, <2>7, <3>1 DEF Levels
  <2>8. CASE bstate' = "B_IDLE"
    <3>1. TopDrain /\ drained /\ bstate = "B_DRAIN"
      BY <1>4, <2>8 DEF TopEdge, TopIdle, TopPrefetch, TopRun, TopDrain
    <3>2. ~rd_en /\ ~wr_en /\ state = "S_IDLE" /\ ~ctrl_start
      BY <3>1, QuietStep DEF Phases
    <3>3. Taken = N + lat.m /\ Made = lat.m
      BY <3>1, <3>2 DEF Taken, Made
    <3>4. rd_issued = N + lat.m /\ ~RBeat /\ wr_total = lat.m
      BY <3>1 DEF Phases, RBeat, IInv, ReadPort
    <3>5. wr_issued = lat.m /\ wstate \notin {"W_AW", "W_DATA"}
      BY <1>2, <3>1, <3>4 DEF drained, WriteRegion, IInv, Types, Counters
    <3>6. Sent = lat.m /\ ~WBeat(wready)
      BY <1>2, <3>5 DEF Sent, WBeat, IInv, WritePort
    <3>7. rf_count' = 0 /\ wf_count' = 0
      BY <1>1, <1>2, <2>3, <3>2, <3>3, <3>4, <3>6 DEF Bit
    <3>8. QED
      BY <2>8, <3>7 DEF Levels
  <2>9. QED
    BY <2>7, <2>8
<1>5. QED
  BY <1>3, <1>4

LEMMA LevelInit ==
    ASSUME Init PROVE LevelInv
BY DEF Init, FsmInit, LevelInv, Phases, Sequencing, ReadBurst, WriteBurst, Levels

LEMMA LevelStep ==
    ASSUME JobsFit, RegionInv, LevelInv, RegionInv', [Next]_vars
    PROVE  LevelInv'
<1>1. CASE Cycle
  <2>0. PICK start, arready, r_gate, awready, wready, fail \in BOOLEAN, in \in Jobs :
             SomeEdge(start, in, arready, r_gate, awready, wready, fail)
    BY <1>1, CycleIsClock DEF RegionInv
  <2>1. /\ Clock(start, in, arready, r_gate, awready, wready, fail)
        /\ bridge_busy => in = lat
    BY <2>0 DEF SomeEdge
  <2>2. /\ RdEdge(start, in, arready) /\ WrEdge(start, in, awready, wready)
        /\ TopEdge(start) /\ CtrlEdge(in) /\ RamRdEdge(arready, r_gate)
        /\ bstate # "B_IDLE" => in = lat
    BY <2>1 DEF Clock, bridge_busy
  <2>3. Phases' /\ Sequencing'
    BY <2>2, PhasesStep
  <2>4. Levels'
    BY <2>2, <2>3, LevelsStep
  <2>5. ReadBurst'
    BY <2>2, ReadBurstStep
  <2>6. WriteBurst'
    BY <2>2, WriteBurstStep DEF RdEdge
  <2>7. QED
    BY <2>3, <2>4, <2>5, <2>6 DEF LevelInv
<1>2. CASE Reset
  BY <1>2 DEF Reset, ResetEdge, FsmReset, RdReset, WrReset, TopReset, RamReset,
              LevelInv, Phases, Sequencing, ReadBurst, WriteBurst, Levels
<1>3. CASE UNCHANGED vars
  BY <1>3 DEF vars, fsmVars, rdVars, wrVars, topVars, ramRdVars, ramWrVars,
              LevelInv, Phases, Sequencing, ReadBurst, WriteBurst, Levels, Taken, Made, Sent
<1>4. QED
  BY <1>1, <1>2, <1>3 DEF Next

\* Both invariants hold while the commands fit.
THEOREM LevelInvariance ==
    ASSUME JobsFit
    PROVE  Spec => [](RegionInv /\ LevelInv)
<1>1. Init => LevelInv
  BY LevelInit
<1>2. RegionInv /\ RegionInv' /\ LevelInv /\ [Next]_vars => LevelInv'
  BY LevelStep
<1>3. QED
  BY <1>1, <1>2, RegionInvariance, PTL DEF Spec

(* The FIFOs need none of the full and empty checks they do not have       *)
(* (axi4_dma_bridge.sv:133-149, 213-224): under any stalls, errors and     *)
(* resets the sequencer never finds the read FIFO dry, nothing is written  *)
(* into a full FIFO or taken from an empty one, for all FIFOs as deep as   *)
(* coproc_axi_top.sv makes them and commands of at least one row.          *)
THEOREM FifosAreSafe ==
    ASSUME JobsFit
    PROVE  Spec => []FifoSafe
<1>1. RegionInv /\ LevelInv => FifoSafe
  BY LevelBounds
<1>2. QED
  BY <1>1, LevelInvariance, PTL

(* A bridge that is not busy has empty FIFOs, and its engines and both     *)
(* ports are idle (axi4_dma_bridge.sv:262-285 looks at none of them).      *)
THEOREM IdleBridgeIsClean ==
    ASSUME JobsFit
    PROVE  Spec => []IdleIsClean
<1>1. RegionInv /\ LevelInv => IdleIsClean
  BY DEF IdleIsClean, bridge_busy, RegionInv, IInv, ReadPort, WritePort, WriteRegion,
         LevelInv, Phases, Levels
<1>2. QED
  BY <1>1, LevelInvariance, PTL

-------------------------------------------------------------------------------
(* What the words in the FIFOs and in memory are.                          *)

\* The word k of what a command reads: its weights, then its activations.
Word(k) == IF k < N THEN (lat.w + k) % ADDR_MOD ELSE (lat.a + k - N) % ADDR_MOD

\* The place i positions after p in a FIFO.
Slot(p, i, depth) == IF p + i >= depth THEN p + i - depth ELSE p + i

\* Words arrive in the order of the command, each burst from its address on.
Arriving ==
    /\ ar_addr_r \in Int
    /\ ar_state = "AR_BURST" => \A i \in 0..(ar_len_r - ar_beat) :
           (ar_addr_r + ar_beat + i) % ADDR_MOD = Word(rd_issued + Bit(rvalid) + i)
    /\ rvalid => rdata = Word(rd_issued)

\* A FIFO that holds count items of a sequence, from number first on.
Ring(ring, wptr, rptr, count, depth, items, first) ==
    /\ DOMAIN ring = 0..(depth - 1)
    /\ wptr = Slot(rptr, count, depth)
    /\ \A i \in 0..(count - 1) : ring[Slot(rptr, i, depth)] = items[first + i]

Words == [k \in Int |-> Word(k)]
Rows == [k \in Int |-> Expected(k)]

\* The read FIFO holds the words not yet taken.
Buffered == Ring(rfifo, rf_wptr, rf_rptr, rf_count, RD_DEPTH, Words, Taken)

\* The words taken are where the array needs them.
InArray ==
    /\ wbuf \in [0..(N - 1) -> Int]
    /\ state = "S_LOAD_DATA" => ctrl_rd_data = Words[li]
    /\ state \in {"S_LOAD_ADDR", "S_LOAD_DATA"} => \A i \in 0..(li - 1) : wbuf[i] = Words[i]
    /\ state \in {"S_LOAD_PULSE", "S_PREFETCH", "S_STREAM"} =>
           \A i \in 0..(N - 1) : wbuf[i] = Words[i]
    /\ state = "S_STREAM" =>
           /\ cyc < lat.m => ctrl_rd_data = Words[N + cyc]
           /\ \A i \in 1..Latency : cyc - i \in 0..(lat.m - 1) => pipe[i] = Words[N + cyc - i]

\* The write FIFO, and the write data port, hold the rows not yet sent.
Queued ==
    /\ Ring(wfifo, wf_wptr, wf_rptr, wf_count, WR_DEPTH, Rows, Sent)
    /\ wstate = "W_DATA" => wdata = Rows[Sent]

\* The rows sent are in memory, unless the memory has refused some.
Stored ==
    /\ DOMAIN wmem = 0..(ADDR_MOD - 1) /\ aw_addr_r \in Int
    /\ wstate = "W_DATA" => (aw_addr_r + aw_beat) % ADDR_MOD = (lat.c + Sent) % ADDR_MOD
    /\ ~bresp_err /\ (wstate \in {"W_DATA", "W_BRESP"} => ~aw_fail) =>
           \A k \in 0..(Sent - 1) : wmem[(lat.c + k) % ADDR_MOD] = Rows[k]
    /\ aw_fail \/ bresp_err => upsets > 0

DataInv == Arriving /\ Buffered /\ InArray /\ Queued /\ Stored

LEMMA RingPut ==
    ASSUME NEW d \in Nat \ {0}, NEW p \in 0..(d - 1), NEW n \in 0..(d - 1),
           NEW ring, NEW w, NEW items, NEW first, Ring(ring, w, p, n, d, items, first)
    PROVE  Ring([ring EXCEPT ![w] = items[first + n]], Inc(w, d), p, n + 1, d, items, first)
<1> DEFINE ring2 == [ring EXCEPT ![w] = items[first + n]]
<1>1. /\ DOMAIN ring = 0..(d - 1) /\ w = Slot(p, n, d) /\ w \in 0..(d - 1)
      /\ \A i \in 0..(n - 1) : ring[Slot(p, i, d)] = items[first + i]
  BY DEF Ring, Slot
<1>2. DOMAIN ring2 = 0..(d - 1) /\ Inc(w, d) = Slot(p, n + 1, d)
  BY <1>1 DEF Slot, Inc
<1>3. ASSUME NEW i \in 0..n PROVE ring2[Slot(p, i, d)] = items[first + i]
  <2>1. CASE i = n
    BY <1>1, <2>1
  <2>2. CASE i # n
    <3>1. Slot(p, i, d) # w /\ Slot(p, i, d) \in 0..(d - 1) /\ i \in 0..(n - 1)
      BY <1>1, <2>2 DEF Slot
    <3>2. QED
      BY <1>1, <3>1
  <2>3. QED
    BY <2>1, <2>2
<1> HIDE DEF ring2
<1>4. Ring(ring2, Inc(w, d), p, n + 1, d, items, first)
  BY <1>2, <1>3 DEF Ring
<1>5. QED
  BY <1>4 DEF ring2

LEMMA RingGet ==
    ASSUME NEW d \in Nat \ {0}, NEW p \in 0..(d - 1), NEW n \in 1..d,
           NEW ring, NEW w, NEW items, NEW first \in Int,
           Ring(ring, w, p, n, d, items, first)
    PROVE  /\ Ring(ring, w, Inc(p, d), n - 1, d, items, first + 1)
           /\ ring[p] = items[first]
<1>1. /\ DOMAIN ring = 0..(d - 1) /\ w = Slot(p, n, d)
      /\ \A i \in 0..(n - 1) : ring[Slot(p, i, d)] = items[first + i]
  BY DEF Ring
<1>2. w = Slot(Inc(p, d), n - 1, d)
  BY <1>1 DEF Slot, Inc
<1>3. ASSUME NEW i \in 0..(n - 2)
      PROVE  ring[Slot(Inc(p, d), i, d)] = items[(first + 1) + i]
  <2>1. /\ Slot(Inc(p, d), i, d) = Slot(p, i + 1, d) /\ i + 1 \in 0..(n - 1)
        /\ (first + 1) + i = first + (i + 1)
    BY DEF Slot, Inc
  <2>2. QED
    BY <1>1, <2>1
<1>4. ring[p] = items[first]
  <2>1. Slot(p, 0, d) = p /\ first + 0 = first /\ 0 \in 0..(n - 1)
    BY DEF Slot
  <2>2. ring[Slot(p, 0, d)] = items[first + 0]
    BY <1>1, <2>1
  <2>3. QED
    BY <2>1, <2>2
<1>5. Ring(ring, w, Inc(p, d), n - 1, d, items, first + 1)
  BY <1>1, <1>2, <1>3 DEF Ring
<1>6. QED
  BY <1>4, <1>5

LEMMA WordFacts ==
    ASSUME IInv
    PROVE  /\ \A k \in Int : Word(k) \in Int
           /\ lat' = lat => \A k \in Int : Word(k)' = Word(k) /\ Expected(k)' = Expected(k)
<1>1. lat.w \in Int /\ lat.a \in Int /\ N \in Int /\ ADDR_MOD \in Nat \ {0}
  BY StreamAssumption, BridgeAssumption DEF IInv, Types, TypeOK
<1>2. ASSUME NEW k \in Int PROVE Word(k) \in Int
  <2>1. lat.w + k \in Int /\ lat.a + k - N \in Int
    BY <1>1
  <2>2. (lat.w + k) % ADDR_MOD \in Int /\ (lat.a + k - N) % ADDR_MOD \in Int
    BY <1>1, <2>1
  <2>3. QED
    BY <2>2 DEF Word
<1>3. lat' = lat => \A k \in Int : Word(k)' = Word(k) /\ Expected(k)' = Expected(k)
  BY DEF Word, Expected
<1>4. QED
  BY <1>2, <1>3

\* A burst that was asked for brings the words that come next.
LEMMA BurstWords ==
    ASSUME RegionInv, arvalid
    PROVE  /\ araddr \in Int
           /\ \A i \in 0..arlen : (araddr + i) % ADDR_MOD = Word(rd_issued + i)
<1>1. /\ lat.w \in Int /\ lat.a \in Int /\ N \in Int /\ ADDR_MOD \in Nat \ {0}
      /\ rd_issued \in Nat /\ arlen \in Nat /\ rd_total \in Nat
  BY StreamAssumption, BridgeAssumption DEF RegionInv, IInv, Types, TypeOK, Counters
<1>2. araddr = rd_next_addr /\ arlen < rd_remaining
  BY DEF RegionInv, ReadRegion
<1>3. CASE rd_issued < N
  <2>1. araddr = (lat.w + rd_issued) % ADDR_MOD /\ rd_issued + arlen < N
    BY <1>1, <1>2, <1>3 DEF rd_next_addr, rd_remaining
  <2>2. lat.w + rd_issued \in Int
    BY <1>1
  <2>3. araddr \in Int
    BY <1>1, <2>1, <2>2
  <2>4. ASSUME NEW i \in 0..arlen
        PROVE  (araddr + i) % ADDR_MOD = Word(rd_issued + i)
    <3>1. (araddr + i) % ADDR_MOD = ((lat.w + rd_issued) + i) % ADDR_MOD
      <4> DEFINE b == lat.w + rd_issued
      <4>1. b \in Int /\ araddr = b % ADDR_MOD /\ i \in Int
        BY <1>1, <2>1, <2>2
      <4> HIDE DEF b
      <4>2. (araddr + i) % ADDR_MOD = (b + i) % ADDR_MOD
        BY <1>1, <4>1, ModAdd
      <4>3. QED
        BY <4>2 DEF b
    <3>2. rd_issued + i < N /\ (lat.w + rd_issued) + i = lat.w + (rd_issued + i)
      BY <1>1, <2>1
    <3>3. QED
      BY <3>1, <3>2 DEF Word
  <2>5. QED
    BY <2>3, <2>4
<1>4. CASE ~(rd_issued < N)
  <2>1. araddr = (lat.a + rd_issued - N) % ADDR_MOD
    BY <1>1, <1>2, <1>4 DEF rd_next_addr
  <2>2. lat.a + rd_issued - N \in Int
    BY <1>1
  <2>3. araddr \in Int
    BY <1>1, <2>1, <2>2
  <2>4. ASSUME NEW i \in 0..arlen
        PROVE  (araddr + i) % ADDR_MOD = Word(rd_issued + i)
    <3>1. (araddr + i) % ADDR_MOD = ((lat.a + rd_issued - N) + i) % ADDR_MOD
      BY <1>1, <2>1, <2>2, ModAdd
    <3>2. /\ ~(rd_issued + i < N)
          /\ (lat.a + rd_issued - N) + i = lat.a + (rd_issued + i) - N
      BY <1>1, <1>4
    <3>3. QED
      BY <3>1, <3>2 DEF Word
  <2>5. QED
    BY <2>3, <2>4
<1>5. QED
  BY <1>3, <1>4

LEMMA ArrivingStep ==
    ASSUME RegionInv, LevelInv, Arriving,
           NEW start \in BOOLEAN, NEW in \in Jobs, NEW arready \in BOOLEAN,
           NEW r_gate \in BOOLEAN, NEW awready \in BOOLEAN, NEW wready \in BOOLEAN,
           RdEdge(start, in, arready), WrEdge(start, in, awready, wready),
           RamRdEdge(arready, r_gate)
    PROVE  Arriving'
<1>0. /\ rd_issued \in Nat /\ arlen \in Nat /\ ar_beat \in Nat /\ ar_len_r \in Nat
      /\ ar_addr_r \in Int
  BY BridgeAssumption
     DEF RegionInv, IInv, Types, TypeOK, Counters, LevelInv, ReadBurst, Arriving
<1>1. CASE rstate \in {"R_IDLE", "R_ISSUE"}
  <2>1. ar_state = "AR_IDLE" /\ ~arvalid /\ ~rvalid
    BY <1>1 DEF RegionInv, IInv, ReadPort
  <2>2. ar_state' = "AR_IDLE" /\ ~rvalid' /\ ar_addr_r' = ar_addr_r
    BY <2>1 DEF RamRdEdge, ramRdVars
  <2>3. QED
    BY <1>0, <2>2 DEF Arriving
<1>2. CASE rstate = "R_BURST"
  <2>0. bstate # "B_IDLE"
    BY <1>2 DEF LevelInv, Phases
  <2>1. lat' = lat /\ rd_issued' = rd_issued + Bit(RBeat)
    BY <2>0, BusyStep
  <2>2. \A k \in Int : Word(k)' = Word(k)
    BY <2>1, WordFacts DEF RegionInv
  <2>3. CASE ar_state = "AR_IDLE" /\ arvalid /\ ~rvalid
    <3>1. ~rvalid'
      BY <2>3 DEF RamRdEdge
    <3>2. rd_issued' = rd_issued
      BY <1>0, <2>1, <2>3 DEF RBeat, Bit
    <3>3. CASE arready
      <4>1. ar_state' = "AR_BURST" /\ ar_addr_r' = araddr /\ ar_len_r' = arlen /\ ar_beat' = 0
        BY <2>3, <3>3 DEF RamRdEdge
      <4>2. /\ araddr \in Int
            /\ \A i \in 0..arlen : (araddr + i) % ADDR_MOD = Word(rd_issued + i)
        BY <2>3, BurstWords
      <4>3. ASSUME NEW i \in 0..(ar_len_r - ar_beat)'
            PROVE  ((ar_addr_r + ar_beat + i) % ADDR_MOD
                        = Word(rd_issued + Bit(rvalid) + i))'
        <5>1. /\ (ar_addr_r + ar_beat + i)' = araddr + i /\ i \in 0..arlen
              /\ (rd_issued + Bit(rvalid) + i)' = rd_issued + i /\ rd_issued + i \in Int
          BY <1>0, <3>1, <3>2, <4>1, <4>2 DEF Bit
        <5>2. Word(rd_issued + Bit(rvalid) + i)' = Word(rd_issued + i)
          BY <2>2, <5>1
        <5>3. QED
          BY <4>2, <5>1, <5>2
      <4>4. QED
        BY <3>1, <4>1, <4>2, <4>3 DEF Arriving
    <3>4. CASE ~arready
      <4>1. ar_state' = "AR_IDLE" /\ ar_addr_r' = ar_addr_r
        BY <2>3, <3>4 DEF RamRdEdge
      <4>2. QED
        BY <1>0, <3>1, <4>1 DEF Arriving
    <3>5. QED
      BY <3>3, <3>4
  <2>4. CASE ar_state = "AR_BURST"
    <3> DEFINE next == rd_issued + Bit(rvalid)
               left == ar_len_r - ar_beat
    <3>1. /\ \A i \in 0..left : (ar_addr_r + ar_beat + i) % ADDR_MOD = Word(next + i)
          /\ rvalid => rdata = Word(rd_issued)
          /\ next \in Nat /\ left \in Nat
      BY <1>0, <2>4 DEF Arriving, LevelInv, ReadBurst, Bit
    <3>2. CASE rvalid /\ ~rready
      <4>1. rd_issued' = rd_issued
        BY <1>0, <2>1, <3>2 DEF RBeat, Bit
      <4>2. UNCHANGED <<ar_state, ar_addr_r, ar_beat, ar_len_r, rvalid, rdata>>
        BY <2>4, <3>2 DEF RamRdEdge, ramRdVars
      <4>3. ASSUME NEW i \in 0..left PROVE Word(next + i)' = Word(next + i)
        BY <2>2, <3>1, <4>1, <4>2
      <4>4. rvalid' => rdata' = Word(rd_issued)'
        BY <1>0, <2>2, <3>1, <4>1, <4>2
      <4>5. QED
        BY <1>0, <3>1, <4>1, <4>2, <4>3, <4>4 DEF Arriving
    <3>3. CASE ~rvalid \/ rready
      <4>1. rd_issued' = next
        BY <2>1, <3>3 DEF RBeat, Bit
      <4>2. UNCHANGED <<ar_len_r, ar_addr_r>> /\ rvalid' = r_gate
        BY <2>4, <3>3 DEF RamRdEdge
      <4>3. CASE r_gate
        <5>1. /\ rdata' = (ar_addr_r + ar_beat) % ADDR_MOD
              /\ IF ar_beat = ar_len_r THEN ar_state' = "AR_IDLE"
                                       ELSE ar_beat' = ar_beat + 1
          BY <2>4, <3>3, <4>3 DEF RamRdEdge
        <5>2. rdata' = Word(next)
          <6>1. (ar_addr_r + ar_beat + 0) % ADDR_MOD = Word(next + 0)
            BY <3>1
          <6>2. ar_addr_r + ar_beat + 0 = ar_addr_r + ar_beat /\ next + 0 = next
            BY <1>0, <3>1
          <6>3. QED
            BY <5>1, <6>1, <6>2
        <5>3. rdata' = Word(rd_issued)'
          BY <2>2, <3>1, <4>1, <5>2
        <5>4. CASE ar_beat = ar_len_r
          BY <1>0, <4>2, <5>1, <5>3, <5>4 DEF Arriving
        <5>5. CASE ar_beat # ar_len_r
          <6>1. ASSUME NEW i \in 0..(ar_len_r - ar_beat)'
                PROVE  ((ar_addr_r + ar_beat + i) % ADDR_MOD
                            = Word(rd_issued + Bit(rvalid) + i))'
            <7> HIDE DEF next
            <7>1. /\ (ar_addr_r + ar_beat + i)' = ar_addr_r + ar_beat + (i + 1)
                  /\ i + 1 \in 0..left /\ next + (i + 1) \in Int
              BY <1>0, <3>1, <4>2, <5>1, <5>5
            <7>2. (rd_issued + Bit(rvalid) + i)' = next + (i + 1)
              BY <3>1, <4>1, <4>2, <4>3 DEF Bit
            <7>3. Word(rd_issued + Bit(rvalid) + i)' = Word(next + (i + 1))
              BY <2>2, <7>1, <7>2
            <7>4. (ar_addr_r + ar_beat + (i + 1)) % ADDR_MOD = Word(next + (i + 1))
              BY <3>1, <7>1
            <7>5. QED
              BY <7>1, <7>3, <7>4
          <6>2. QED
            BY <1>0, <4>2, <5>3, <6>1 DEF Arriving
        <5>6. QED
          BY <5>4, <5>5
      <4>4. CASE ~r_gate
        <5>1. UNCHANGED ar_beat /\ ~rvalid'
          BY <2>4, <3>3, <4>2, <4>4 DEF RamRdEdge
        <5>2. ASSUME NEW i \in 0..(ar_len_r - ar_beat)'
              PROVE  ((ar_addr_r + ar_beat + i) % ADDR_MOD
                          = Word(rd_issued + Bit(rvalid) + i))'
          <6> HIDE DEF next
          <6>1. /\ (ar_addr_r + ar_beat + i)' = ar_addr_r + ar_beat + i
                /\ i \in 0..left /\ next + i \in Int
            BY <1>0, <3>1, <4>2, <5>1
          <6>2. (rd_issued + Bit(rvalid) + i)' = next + i
            BY <3>1, <4>1, <5>1 DEF Bit
          <6>3. Word(rd_issued + Bit(rvalid) + i)' = Word(next + i)
            BY <2>2, <6>1, <6>2
          <6>4. QED
            BY <3>1, <6>1, <6>3
        <5>3. QED
          BY <1>0, <4>2, <5>1, <5>2 DEF Arriving
      <4>5. QED
        BY <4>3, <4>4
    <3>4. QED
      BY <3>2, <3>3
  <2>5. CASE ar_state = "AR_IDLE" /\ ~arvalid /\ rvalid
    <3>1. ar_state' = "AR_IDLE" /\ ar_addr_r' = ar_addr_r /\ rdata' = rdata
      BY <2>5 DEF RamRdEdge
    <3>2. rvalid' => ~RBeat
      BY <2>5 DEF RamRdEdge, RBeat
    <3>3. rvalid' => rd_issued' = rd_issued
      BY <1>0, <2>1, <3>2 DEF Bit
    <3>4. rdata = Word(rd_issued)
      BY <2>5 DEF Arriving
    <3>5. rvalid' => rdata' = Word(rd_issued)'
      BY <1>0, <2>2, <3>1, <3>3, <3>4
    <3>6. QED
      BY <1>0, <3>1, <3>5 DEF Arriving
  <2>6. QED
    BY <1>2, <2>3, <2>4, <2>5 DEF RegionInv, IInv, ReadPort
<1>3. QED
  BY <1>1, <1>2 DEF RegionInv, IInv, ReadPort

\* The word taken is the next one.
LEMMA WordTaken ==
    ASSUME JobsFit, RegionInv, LevelInv, Buffered, rd_en, RdFifoEdge
    PROVE  ctrl_rd_data' = Words[Taken] /\ Taken \in Int
<1>1. bstate # "B_IDLE"
  BY DEF rd_en, LevelInv, Phases
<1>2. /\ rf_count \in 1..RD_DEPTH /\ rf_rptr \in 0..(RD_DEPTH - 1) /\ RD_DEPTH \in Nat \ {0}
      /\ Taken \in Int
  BY <1>1, LevelBounds, StreamAssumption, BridgeAssumption
     DEF FifoSafe, RegionInv, IInv, Types, TypeOK
<1>3. rfifo[rf_rptr] = Words[Taken]
  BY <1>2, RingGet DEF Buffered
<1>4. QED
  BY <1>2, <1>3 DEF RdFifoEdge

LEMMA BufferedStep ==
    ASSUME JobsFit, RegionInv, LevelInv, LevelInv', Arriving, Buffered,
           NEW start \in BOOLEAN, NEW in \in Jobs, NEW arready \in BOOLEAN,
           NEW awready \in BOOLEAN, NEW wready \in BOOLEAN,
           bstate # "B_IDLE" => in = lat,
           RdEdge(start, in, arready), WrEdge(start, in, awready, wready),
           TopEdge(start), CtrlEdge(in)
    PROVE  Buffered'
<1>1. /\ RD_DEPTH \in Nat \ {0} /\ rf_rptr \in 0..(RD_DEPTH - 1) /\ rf_count \in Nat
      /\ rd_issued \in Nat
  BY StreamAssumption, BridgeAssumption DEF RegionInv, IInv, Types, TypeOK, Counters
<1>2. rf_count <= RD_DEPTH /\ (RBeat => rf_count < RD_DEPTH) /\ (rd_en => rf_count > 0)
  BY LevelBounds DEF FifoSafe
<1>3. rf_count' = rf_count + Bit(RBeat) - Bit(rd_en)
  BY CountStep DEF RdEdge, WrEdge
<1>4. /\ rf_rptr' = IF rd_en THEN Inc(rf_rptr, RD_DEPTH) ELSE rf_rptr
      /\ rf_wptr' = IF RBeat THEN Inc(rf_wptr, RD_DEPTH) ELSE rf_wptr
      /\ rfifo' = IF RBeat THEN [rfifo EXCEPT ![rf_wptr] = rdata] ELSE rfifo
  BY DEF RdEdge, RdFifoEdge
<1>5. CASE bstate = "B_IDLE"
  <2>1. ~rd_en /\ ~RBeat
    BY <1>5, QuietStep DEF LevelInv, Phases, RBeat, RegionInv, IInv, ReadPort
  <2>2. rf_count = 0 /\ rf_count' = 0
    BY <1>3, <1>5, <2>1 DEF LevelInv, Levels, Bit
  <2>3. rfifo' = rfifo /\ rf_rptr' = rf_rptr /\ rf_wptr' = rf_wptr
    BY <1>4, <2>1
  <2>4. QED
    BY <1>1, <2>2, <2>3 DEF Buffered, Ring
<1>6. CASE bstate # "B_IDLE"
  <2>1. Taken \in Nat /\ rf_count = rd_issued - Taken /\ lat' = lat
    BY <1>6, LevelBounds, BusyStep DEF LevelInv, Levels
  <2>2. Words' = Words
    BY <2>1 DEF Words, Word
  <2>3. RBeat => rdata = Words[Taken + rf_count]
    BY <1>1, <2>1 DEF Arriving, RBeat, Words
  <2>4. Ring(rfifo, rf_wptr, rf_rptr, rf_count, RD_DEPTH, Words, Taken)
    BY DEF Buffered
  <2>5. Ring(rfifo', rf_wptr', rf_rptr, rf_count + Bit(RBeat), RD_DEPTH, Words, Taken)
    <3>1. CASE RBeat
      <4>1. /\ rf_count \in 0..(RD_DEPTH - 1) /\ rf_wptr' = Inc(rf_wptr, RD_DEPTH)
            /\ rfifo' = [rfifo EXCEPT ![rf_wptr] = Words[Taken + rf_count]]
        <5>1. rf_count \in 0..(RD_DEPTH - 1) /\ RD_DEPTH \in Nat
          BY <1>1, <1>2, <3>1
        <5>2. rdata = Words[Taken + rf_count]
          BY <2>3, <3>1
        <5>3. rf_wptr' = Inc(rf_wptr, RD_DEPTH) /\ rfifo' = [rfifo EXCEPT ![rf_wptr] = rdata]
          BY <1>4, <3>1
        <5>4. QED
          BY <5>1, <5>2, <5>3
      <4>2. Ring([rfifo EXCEPT ![rf_wptr] = Words[Taken + rf_count]], Inc(rf_wptr, RD_DEPTH),
                 rf_rptr, rf_count + 1, RD_DEPTH, Words, Taken)
        BY <1>1, <2>4, <4>1, RingPut
      <4>3. rf_count + Bit(RBeat) = rf_count + 1
        BY <3>1 DEF Bit
      <4>4. QED
        BY <4>1, <4>2, <4>3
    <3>2. CASE ~RBeat
      <4>1. rf_count + Bit(RBeat) = rf_count /\ rfifo' = rfifo /\ rf_wptr' = rf_wptr
        BY <1>1, <1>4, <3>2 DEF Bit
      <4>2. QED
        BY <2>4, <4>1
    <3>3. QED
      BY <3>1, <3>2
  <2>6. Ring(rfifo', rf_wptr', rf_rptr', rf_count', RD_DEPTH, Words, Taken + Bit(rd_en))
    <3> DEFINE n == rf_count + Bit(RBeat)
    <3>1. n \in 0..RD_DEPTH /\ (rd_en => n > 0) /\ rf_count' = n - Bit(rd_en)
      BY <1>1, <1>2, <1>3 DEF Bit
    <3> HIDE DEF n
    <3>2. Ring(rfifo', rf_wptr', rf_rptr, n, RD_DEPTH, Words, Taken)
      BY <2>5 DEF n
    <3>3. CASE rd_en
      BY <1>1, <1>4, <2>1, <3>1, <3>2, <3>3, RingGet DEF Bit
    <3>4. CASE ~rd_en
      <4>1. rf_count' = n /\ rf_rptr' = rf_rptr /\ Taken + Bit(rd_en) = Taken
        BY <1>4, <2>1, <3>1, <3>4 DEF Bit
      <4>2. QED
        BY <3>2, <4>1
    <3>5. QED
      BY <3>3, <3>4
  <2>7. CASE bstate' # "B_IDLE"
    <3>1. Taken' = Taken + Bit(rd_en)
      BY <1>6, <2>1, <2>7, StrobeStep
    <3>2. QED
      BY <2>2, <2>6, <3>1 DEF Buffered
  <2>8. CASE bstate' = "B_IDLE"
    <3>1. rf_count' = 0
      BY <2>8 DEF LevelInv, Levels
    <3>2. QED
      BY <2>6, <3>1 DEF Buffered, Ring
  <2>9. QED
    BY <2>7, <2>8
<1>7. QED
  BY <1>5, <1>6

LEMMA InArrayStep ==
    ASSUME JobsFit, RegionInv, LevelInv, Buffered, InArray,
           NEW start \in BOOLEAN, NEW in \in Jobs, NEW arready \in BOOLEAN,
           NEW awready \in BOOLEAN, NEW wready \in BOOLEAN,
           bstate # "B_IDLE" => in = lat,
           RdEdge(start, in, arready), WrEdge(start, in, awready, wready),
           CtrlEdge(in), PipeEdge
    PROVE  InArray'
<1>1. CASE bstate # "B_RUN"
  <2>1. state = "S_IDLE" /\ state' = "S_IDLE" /\ wbuf' = wbuf
    BY <1>1, QuietStep DEF LevelInv, Phases, PipeEdge
  <2>2. QED
    BY <2>1 DEF InArray
<1>2. CASE bstate = "B_RUN"
  <2>0. /\ N \in Nat /\ N >= 1 /\ lat.m \in Nat /\ lat.m >= 1 /\ li \in Int /\ cyc \in Int
        /\ state # "S_IDLE" => job_r.m = lat.m
    BY Sizes DEF RegionInv, LevelInv, Sequencing
  <2>1. lat' = lat
    BY <1>2, BusyStep
  <2>2. Words' = Words /\ lat'.m = lat.m
    BY <2>1 DEF Words, Word
  <2>3. \A k \in Int : Words[k] \in Int
    BY WordFacts DEF Words, RegionInv
  <2>4. /\ rd_en => ctrl_rd_data' = Words[Taken]
        /\ ~rd_en => ctrl_rd_data' = ctrl_rd_data
    BY WordTaken DEF RdEdge, RdFifoEdge
  <2>5. FsmEdge(ctrl_start, [w |-> 0, a |-> 0, c |-> 0, m |-> lat.m])
    BY <1>2 DEF CtrlEdge
  <2>6. state # "S_LOAD_DATA" => wbuf' = wbuf
    BY DEF PipeEdge
  <2>7. CASE state = "S_IDLE"
    <3>1. state' \in {"S_IDLE", "S_LOAD_ADDR"} /\ (state' = "S_LOAD_ADDR" => li' = 0)
      BY <2>5, <2>7 DEF FsmEdge, Idle, LoadAddr, LoadData, LoadPulse, Prefetch, Stream, Finish
    <3>2. QED
      BY <2>6, <2>7, <3>1 DEF InArray
  <2>8. CASE state = "S_LOAD_ADDR"
    <3>1. state' = "S_LOAD_DATA" /\ li' = li
      BY <2>5, <2>8 DEF FsmEdge, Idle, LoadAddr, LoadData, LoadPulse, Prefetch, Stream, Finish
    <3>2. ctrl_rd_data' = Words[li]
      BY <1>2, <2>4, <2>8 DEF rd_en, Taken
    <3>3. QED
      BY <2>2, <2>6, <2>8, <3>1, <3>2 DEF InArray
  <2>9. CASE state = "S_LOAD_DATA"
    <3>1. /\ li \in 0..(N - 1) /\ ctrl_rd_data = Words[li] /\ wbuf \in [0..(N - 1) -> Int]
          /\ \A i \in 0..(li - 1) : wbuf[i] = Words[i]
      BY <2>9 DEF InArray, LevelInv, Sequencing
    <3>2. wbuf' = [wbuf EXCEPT ![li] = Words[li]]
      BY <2>9, <3>1 DEF PipeEdge
    <3>3. wbuf' \in [0..(N - 1) -> Int]
      BY <2>0, <2>3, <3>1, <3>2
    <3>4. \A i \in 0..li : wbuf'[i] = Words[i]
      <4>1. ASSUME NEW i \in 0..li PROVE wbuf'[i] = Words[i]
        BY <2>0, <3>1, <3>2
      <4>2. QED
        BY <4>1
    <3>5. IF li = N - 1 THEN state' = "S_LOAD_PULSE" /\ li' = li
                        ELSE state' = "S_LOAD_ADDR" /\ li' = li + 1
      <4>1. IF li = N - 1 THEN state' = "S_LOAD_PULSE" /\ li' = li
                          ELSE state' = "S_LOAD_ADDR" /\ li' = (li + 1) % ADDR_MOD
        BY <2>5, <2>9
           DEF FsmEdge, Idle, LoadAddr, LoadData, LoadPulse, Prefetch, Stream, Finish
      <4>2. QED
        BY <2>9, <4>1, NoWrap DEF RegionInv, LevelInv
    <3>6. CASE li = N - 1
      BY <2>2, <3>3, <3>4, <3>5, <3>6 DEF InArray
    <3>7. CASE li # N - 1
      <4>1. state' = "S_LOAD_ADDR" /\ \A i \in 0..(li' - 1) : wbuf'[i] = Words[i]
        BY <2>0, <3>4, <3>5, <3>7
      <4>2. QED
        BY <2>2, <3>3, <4>1 DEF InArray
    <3>8. QED
      BY <3>6, <3>7
  <2>10. CASE state = "S_LOAD_PULSE"
    <3>1. state' = "S_PREFETCH"
      BY <2>5, <2>10 DEF FsmEdge, Idle, LoadAddr, LoadData, LoadPulse, Prefetch, Stream, Finish
    <3>2. QED
      BY <2>2, <2>6, <2>10, <3>1 DEF InArray
  <2>11. CASE state = "S_PREFETCH"
    <3>1. state' = "S_STREAM" /\ cyc' = 0
      BY <2>5, <2>11 DEF FsmEdge, Idle, LoadAddr, LoadData, LoadPulse, Prefetch, Stream, Finish
    <3>2. ctrl_rd_data' = Words[N + cyc']
      <4>1. ctrl_rd_data' = Words[N] /\ N + cyc' = N
        BY <1>2, <2>0, <2>4, <2>11, <3>1 DEF rd_en, Taken
      <4>2. QED
        BY <4>1
    <3>3. \A i \in 1..Latency : cyc' - i \notin 0..(lat.m - 1)
      BY <2>0, <3>1 DEF Latency
    <3>4. QED
      BY <2>2, <2>6, <2>11, <3>1, <3>2, <3>3 DEF InArray
  <2>12. CASE state = "S_STREAM"
    <3>1. /\ cyc \in 0..(lat.m + Latency - 1) /\ (cyc + 1) % CNT_MOD = cyc + 1
          /\ state' = "S_DONE" \/ (state' = "S_STREAM" /\ cyc' = cyc + 1)
      <4>1. (cyc + 1) % CNT_MOD = cyc + 1 /\ cyc \in 0..(lat.m + Latency - 1)
        BY <2>12, NoWrap DEF RegionInv, LevelInv, Sequencing
      <4>2. state' = "S_DONE" \/ (state' = "S_STREAM" /\ cyc' = (cyc + 1) % CNT_MOD)
        BY <2>5, <2>12
           DEF FsmEdge, Idle, LoadAddr, LoadData, LoadPulse, Prefetch, Stream, Finish
      <4>3. QED
        BY <4>1, <4>2
    <3>2. CASE state' = "S_DONE"
      BY <2>6, <2>12, <3>2 DEF InArray
    <3>3. CASE state' = "S_STREAM" /\ cyc' = cyc + 1
      <4>1. cyc + 1 < lat.m => ctrl_rd_data' = Words[N + cyc']
        <5>1. SUFFICES ASSUME cyc + 1 < lat.m PROVE ctrl_rd_data' = Words[N + cyc']
          OBVIOUS
        <5>2. rd_en
          BY <2>0, <2>12, <3>1, <5>1 DEF rd_en
        <5>3. Taken = N + cyc'
          BY <1>2, <2>0, <2>12, <3>3, <5>1 DEF Taken, Lesser
        <5>4. QED
          BY <2>4, <5>2, <5>3
      <4>2. ASSUME NEW i \in 1..Latency, cyc' - i \in 0..(lat.m - 1)
            PROVE  pipe'[i] = Words[N + cyc' - i]
        <5>1. pipe'[i] = IF i > 1 THEN pipe[i - 1]
                         ELSE IF push_valid THEN ctrl_rd_data ELSE NoWord
          BY <2>12 DEF PipeEdge
        <5>2. CASE i > 1
          <6>1. /\ i - 1 \in 1..Latency /\ cyc - (i - 1) \in 0..(lat.m - 1)
                /\ N + cyc' - i = N + cyc - (i - 1)
            BY <2>0, <3>3, <4>2, <5>2 DEF Latency
          <6>2. pipe[i - 1] = Words[N + cyc - (i - 1)]
            BY <2>12, <6>1 DEF InArray
          <6>3. QED
            BY <5>1, <5>2, <6>1, <6>2
        <5>3. CASE ~(i > 1)
          <6>1. cyc < lat.m /\ N + cyc' - i = N + cyc
            BY <2>0, <3>3, <4>2, <5>3 DEF Latency
          <6>2. push_valid
            BY <2>0, <2>12, <6>1 DEF push_valid
          <6>3. ctrl_rd_data = Words[N + cyc]
            BY <2>12, <6>1 DEF InArray
          <6>4. QED
            BY <5>1, <5>3, <6>1, <6>2, <6>3
        <5>4. QED
          BY <5>2, <5>3
      <4>3. wbuf' = wbuf /\ wbuf \in [0..(N - 1) -> Int]
            /\ \A i \in 0..(N - 1) : wbuf[i] = Words[i]
        BY <2>6, <2>12 DEF InArray
      <4>4. QED
        BY <2>2, <3>3, <4>1, <4>2, <4>3 DEF InArray
    <3>4. QED
      BY <3>1, <3>2, <3>3
  <2>13. CASE state = "S_DONE"
    <3>1. state' = "S_IDLE"
      BY <2>5, <2>13 DEF FsmEdge, Idle, LoadAddr, LoadData, LoadPulse, Prefetch, Stream, Finish
    <3>2. QED
      BY <2>6, <2>13, <3>1 DEF InArray
  <2>14. QED
    BY <2>7, <2>8, <2>9, <2>10, <2>11, <2>12, <2>13 DEF States, RegionInv, IInv, Types, TypeOK
<1>3. QED
  BY <1>1, <1>2

\* The row that leaves the array is the next result.
LEMMA RowMade ==
    ASSUME JobsFit, RegionInv, LevelInv, InArray, wr_en
    PROVE  ctrl_wr_data = Rows[Made] /\ Made \in Nat /\ bstate = "B_RUN"
<1>0. /\ N \in Nat /\ N >= 1 /\ lat.m \in Nat /\ lat.m >= 1 /\ cyc \in Int
      /\ lat.w \in Int /\ lat.a \in Int /\ Latency \in Nat
  BY Sizes, BridgeAssumption
     DEF RegionInv, IInv, Types, TypeOK, LevelInv, Sequencing, Latency
<1>1. state = "S_STREAM" /\ cyc >= Latency /\ job_r.m = lat.m
  BY DEF wr_en, LevelInv, Sequencing
<1>2. bstate = "B_RUN"
  BY <1>1 DEF LevelInv, Phases
<1>3. Made = cyc - Latency /\ cyc - Latency \in 0..(lat.m - 1)
  BY <1>0, <1>1, <1>2 DEF Made, wr_en
<1>4. pipe[Latency] = Words[N + cyc - Latency]
  BY <1>0, <1>1, <1>3 DEF InArray, Latency
<1>5. Words[N + cyc - Latency] = (lat.a + Made) % ADDR_MOD
  <2>1. /\ N + cyc - Latency \in Int /\ ~(N + cyc - Latency < N)
        /\ lat.a + (N + cyc - Latency) - N = lat.a + Made
    BY <1>0, <1>3
  <2>2. QED
    BY <2>1 DEF Words, Word
<1>6. wbuf = [i \in 0..(N - 1) |-> (lat.w + i) % ADDR_MOD]
  <2>1. \A i \in 0..(N - 1) : wbuf[i] = Words[i]
    BY <1>1 DEF InArray
  <2>2. \A i \in 0..(N - 1) : Words[i] = (lat.w + i) % ADDR_MOD
    BY <1>0 DEF Words, Word
  <2>3. wbuf \in [0..(N - 1) -> Int]
    BY DEF InArray
  <2>4. QED
    BY <2>1, <2>2, <2>3
<1>7. Rows[Made] = Expected(Made) /\ Made \in Nat
  BY <1>0, <1>3 DEF Rows
<1>8. QED
  BY <1>2, <1>4, <1>5, <1>6, <1>7 DEF ctrl_wr_data, Expected

LEMMA QueuedStep ==
    ASSUME JobsFit, RegionInv, LevelInv, LevelInv', InArray, Queued,
           NEW start \in BOOLEAN, NEW in \in Jobs, NEW arready \in BOOLEAN,
           NEW awready \in BOOLEAN, NEW wready \in BOOLEAN,
           RdEdge(start, in, arready), WrEdge(start, in, awready, wready)
    PROVE  Queued'
<1>1. /\ WR_DEPTH \in Nat \ {0} /\ wf_rptr \in 0..(WR_DEPTH - 1) /\ wf_count \in Nat
      /\ w_beat_cnt \in Nat /\ w_burst_len \in Nat
  BY StreamAssumption, BridgeAssumption DEF RegionInv, IInv, Types, TypeOK, Counters
<1>2. /\ wf_count <= WR_DEPTH /\ (wr_en => wf_count < WR_DEPTH)
      /\ WBeat(wready) => wf_count > 0
  <2>1. wf_count <= lat.m /\ (wr_en => wf_count < lat.m) /\ lat.m <= WR_DEPTH /\ lat.m \in Nat
    BY LevelBounds, Sizes DEF RegionInv
  <2>2. WBeat(wready) => wf_count > 0
    BY LevelBounds DEF FifoSafe, WBeat
  <2>3. QED
    BY <1>1, <2>1, <2>2
<1>3. wf_count' = wf_count + Bit(wr_en) - Bit(WBeat(wready))
  BY CountStep DEF RdEdge, WrEdge
<1>4. /\ wf_rptr' = IF WBeat(wready) THEN Inc(wf_rptr, WR_DEPTH) ELSE wf_rptr
      /\ wf_wptr' = IF wr_en THEN Inc(wf_wptr, WR_DEPTH) ELSE wf_wptr
      /\ wfifo' = IF wr_en THEN [wfifo EXCEPT ![wf_wptr] = ctrl_wr_data] ELSE wfifo
  BY DEF WrEdge, WrFifoEdge
<1>5. CASE bstate = "B_IDLE"
  <2>1. ~wr_en /\ ~WBeat(wready) /\ wstate = "W_IDLE"
    BY <1>5 DEF wr_en, LevelInv, Phases, WBeat, RegionInv, WriteRegion, IInv, WritePort
  <2>2. wf_count = 0 /\ wf_count' = 0
    BY <1>3, <1>5, <2>1 DEF LevelInv, Levels, Bit
  <2>3. wfifo' = wfifo /\ wf_rptr' = wf_rptr /\ wf_wptr' = wf_wptr
    BY <1>4, <2>1
  <2>4. wstate' # "W_DATA"
    BY <2>1 DEF WrEdge, WrIdle, WrAddr, WrData, WrResp
  <2>5. QED
    BY <1>1, <2>2, <2>3, <2>4 DEF Queued, Ring
<1>6. CASE bstate # "B_IDLE"
  <2>1. Sent \in Nat /\ wf_count = Made - Sent /\ lat' = lat
    BY <1>6, LevelBounds, BusyStep DEF LevelInv, Levels
  <2>2. Rows' = Rows
    BY <2>1 DEF Rows, Expected
  <2>3. Sent' = Sent + Bit(WBeat(wready))
    BY <1>6, SentStep
  <2>4. Ring(wfifo, wf_wptr, wf_rptr, wf_count, WR_DEPTH, Rows, Sent)
    BY DEF Queued
  <2>5. Ring(wfifo', wf_wptr', wf_rptr, wf_count + Bit(wr_en), WR_DEPTH, Rows, Sent)
    <3>1. CASE wr_en
      <4>1. wf_count \in 0..(WR_DEPTH - 1)
        BY <1>1, <1>2, <3>1
      <4>2. ctrl_wr_data = Rows[Sent + wf_count]
        <5>1. ctrl_wr_data = Rows[Made] /\ Made \in Nat
          BY <3>1, RowMade
        <5>2. Made = Sent + wf_count
          BY <2>1, <5>1
        <5>3. QED
          BY <5>1, <5>2
      <4>3. Ring([wfifo EXCEPT ![wf_wptr] = Rows[Sent + wf_count]], Inc(wf_wptr, WR_DEPTH),
                 wf_rptr, wf_count + 1, WR_DEPTH, Rows, Sent)
        BY <1>1, <2>4, <4>1, RingPut
      <4>4. /\ wf_count + Bit(wr_en) = wf_count + 1 /\ wf_wptr' = Inc(wf_wptr, WR_DEPTH)
            /\ wfifo' = [wfifo EXCEPT ![wf_wptr] = ctrl_wr_data]
        BY <1>4, <3>1 DEF Bit
      <4>5. QED
        BY <4>2, <4>3, <4>4
    <3>2. CASE ~wr_en
      <4>1. wf_count + Bit(wr_en) = wf_count /\ wfifo' = wfifo /\ wf_wptr' = wf_wptr
        BY <1>1, <1>4, <3>2 DEF Bit
      <4>2. QED
        BY <2>4, <4>1
    <3>3. QED
      BY <3>1, <3>2
  <2>6. Ring(wfifo', wf_wptr', wf_rptr', wf_count', WR_DEPTH, Rows, Sent')
    <3> DEFINE n == wf_count + Bit(wr_en)
               beat == WBeat(wready)
    <3>1. n \in 0..WR_DEPTH /\ (beat => n > 0) /\ wf_count' = n - Bit(beat)
      BY <1>1, <1>2, <1>3 DEF Bit
    <3>2. Ring(wfifo', wf_wptr', wf_rptr, n, WR_DEPTH, Rows, Sent)
      BY <2>5
    <3>3. /\ wf_rptr' = IF beat THEN Inc(wf_rptr, WR_DEPTH) ELSE wf_rptr
          /\ Sent' = Sent + Bit(beat)
      BY <1>4, <2>3
    <3> HIDE DEF n, beat
    <3>4. CASE beat
      <4>1. n \in 1..WR_DEPTH /\ wf_count' = n - 1 /\ Sent' = Sent + 1 /\ Sent \in Int
            /\ wf_rptr' = Inc(wf_rptr, WR_DEPTH)
        BY <1>1, <2>1, <3>1, <3>3, <3>4 DEF Bit
      <4>2. QED
        BY <1>1, <3>2, <4>1, RingGet
    <3>5. CASE ~beat
      <4>1. wf_count' = n /\ wf_rptr' = wf_rptr /\ Sent' = Sent
        BY <2>1, <3>1, <3>3, <3>5 DEF Bit
      <4>2. QED
        BY <3>2, <4>1
    <3>6. QED
      BY <3>4, <3>5
  <2>7. ASSUME wstate' = "W_DATA" PROVE wdata' = Rows[Sent']
    <3>1. CASE wstate = "W_AW"
      <4>1. wdata' = wfifo[wf_rptr] /\ ~WBeat(wready)
        BY <2>7, <3>1
           DEF WrEdge, WrIdle, WrAddr, WrData, WrResp, WBeat, RegionInv, IInv, WritePort
      <4>2. wf_count \in 1..WR_DEPTH
        BY <1>1, <1>2, <3>1 DEF RegionInv, WriteRegion, LevelInv, WriteBurst
      <4>3. wfifo[wf_rptr] = Rows[Sent]
        <5>1. Sent \in Int
          BY <2>1
        <5>2. QED
          BY <1>1, <2>4, <4>2, <5>1, RingGet
      <4>4. Sent' = Sent
        BY <2>1, <2>3, <4>1 DEF Bit
      <4>5. QED
        BY <4>1, <4>3, <4>4
    <3>2. CASE wstate = "W_DATA" /\ ~WBeat(wready)
      <4>1. wdata' = wdata
        BY <2>7, <3>2 DEF WrEdge, WrIdle, WrAddr, WrData, WrResp
      <4>2. Sent' = Sent
        BY <2>1, <2>3, <3>2 DEF Bit
      <4>3. QED
        BY <3>2, <4>1, <4>2 DEF Queued
    <3>3. CASE wstate = "W_DATA" /\ WBeat(wready)
      <4>1. ~wlast /\ wdata' = wfifo[Inc(wf_rptr, WR_DEPTH)]
        BY <2>7, <3>3 DEF WrEdge, WrIdle, WrAddr, WrData, WrResp, next_word
      <4>2. wf_count \in 2..WR_DEPTH
        <5>1. w_beat_cnt # w_burst_len - 1
          BY <3>3, <4>1 DEF RegionInv, IInv, WritePort
        <5>2. w_beat_cnt < w_burst_len /\ w_burst_len - w_beat_cnt <= wf_count
          BY <3>3 DEF LevelInv, WriteBurst
        <5>3. QED
          BY <1>1, <1>2, <5>1, <5>2
      <4>3. wfifo[Inc(wf_rptr, WR_DEPTH)] = Rows[Sent + 1]
        <5>1. \A i \in 0..(wf_count - 1) :
                  wfifo[Slot(wf_rptr, i, WR_DEPTH)] = Rows[Sent + i]
          BY <2>4 DEF Ring
        <5>2. Slot(wf_rptr, 1, WR_DEPTH) = Inc(wf_rptr, WR_DEPTH) /\ 1 \in 0..(wf_count - 1)
          BY <1>1, <4>2 DEF Slot, Inc
        <5>3. QED
          BY <5>1, <5>2
      <4>4. Sent' = Sent + 1
        BY <2>3, <3>3 DEF Bit
      <4>5. QED
        BY <4>1, <4>3, <4>4
    <3>4. CASE wstate \in {"W_IDLE", "W_BRESP"}
      BY <2>7, <3>4 DEF WrEdge, WrIdle, WrAddr, WrData, WrResp
    <3>5. QED
      BY <3>1, <3>2, <3>3, <3>4 DEF RegionInv, IInv, Types, TypeOK
  <2>8. QED
    BY <2>2, <2>6, <2>7 DEF Queued
<1>7. QED
  BY <1>5, <1>6

LEMMA ModShift ==
    ASSUME NEW m \in Nat \ {0}, NEW a \in Int, NEW b \in Int, NEW x \in Int, NEW y \in Int,
           (a + x) % m = (a + y) % m
    PROVE  (b + x) % m = (b + y) % m
<1> DEFINE p == a + x
           q == a + y
           z == b - a
<1>1. p \in Int /\ q \in Int /\ z \in Int /\ p + z = b + x /\ q + z = b + y
  OBVIOUS
<1>2. p % m = q % m
  OBVIOUS
<1> HIDE DEF p, q, z
<1>3. ((p % m) + z) % m = (p + z) % m /\ ((q % m) + z) % m = (q + z) % m
  BY <1>1, ModAdd
<1>4. QED
  BY <1>1, <1>2, <1>3

\* A row that lands on the address of an earlier one is the same row.
LEMMA SameAddress ==
    ASSUME IInv, NEW k \in Int, NEW s \in Int,
           (lat.c + k) % ADDR_MOD = (lat.c + s) % ADDR_MOD
    PROVE  Rows[k] = Rows[s]
<1>1. lat.a \in Int /\ lat.c \in Int /\ ADDR_MOD \in Nat \ {0}
  BY StreamAssumption, BridgeAssumption DEF IInv, Types, TypeOK
<1>2. (lat.a + k) % ADDR_MOD = (lat.a + s) % ADDR_MOD
  BY <1>1, ModShift
<1>3. QED
  BY <1>2 DEF Rows, Expected

LEMMA StoredStep ==
    ASSUME JobsFit, RegionInv, LevelInv, Queued, Stored,
           NEW start \in BOOLEAN, NEW in \in Jobs, NEW arready \in BOOLEAN,
           NEW awready \in BOOLEAN, NEW wready \in BOOLEAN, NEW fail \in BOOLEAN,
           RdEdge(start, in, arready), WrEdge(start, in, awready, wready),
           RamWrEdge(awready, wready, fail), upsets' = upsets + Bit(fail)
    PROVE  Stored'
<1>0. /\ lat.c \in Int /\ ADDR_MOD \in Nat \ {0} /\ wr_issued \in Nat /\ w_beat_cnt \in Nat
      /\ aw_beat \in Nat /\ aw_addr_r \in Int /\ upsets \in Nat
  BY StreamAssumption, BridgeAssumption
     DEF RegionInv, IInv, Types, TypeOK, Counters, Stored
<1>1. aw_fail' \/ bresp_err' => upsets' > 0
  <2>1. aw_fail \/ bresp_err \/ fail => upsets + Bit(fail) > 0
    BY <1>0 DEF Stored, Bit
  <2>2. aw_fail' => aw_fail \/ fail
    BY DEF RamWrEdge
  <2>3. bresp_err' => bresp_err \/ aw_fail
    BY DEF WrEdge, RecordError
  <2>4. QED
    BY <2>1, <2>2, <2>3
<1>2. DOMAIN wmem' = 0..(ADDR_MOD - 1) /\ aw_addr_r' \in Int
  <2>1. DOMAIN wmem' = DOMAIN wmem
    BY DEF RamWrEdge
  <2>2. aw_addr_r' = aw_addr_r \/ (awvalid /\ aw_addr_r' = awaddr)
    BY DEF RamWrEdge
  <2>3. awvalid => awaddr \in Int
    <3>1. lat.c + wr_issued \in Int
      BY <1>0
    <3>2. (lat.c + wr_issued) % ADDR_MOD \in Int
      BY <1>0, <3>1
    <3>3. QED
      BY <3>2 DEF RegionInv, WriteRegion
  <2>4. QED
    BY <1>0, <2>1, <2>2, <2>3 DEF Stored
<1>3. ~bresp_err' => ~bresp_err /\ ~(wstate = "W_BRESP" /\ bvalid /\ aw_fail)
  BY DEF WrEdge, RecordError
<1>4. CASE bstate = "B_IDLE"
  <2>1. wstate = "W_IDLE" /\ aw_state = "AW_IDLE" /\ wr_issued = wr_total
    BY <1>4 DEF RegionInv, WriteRegion, IInv, WritePort
  <2>2. wstate' = "W_IDLE" /\ wmem' = wmem
    BY <1>0, <2>1 DEF WrEdge, WrIdle, WrAddr, WrData, WrResp, RamWrEdge
  <2>3. Sent' = wr_issued' /\ Sent = wr_issued
    <3>1. wstate # "W_DATA" /\ wstate' # "W_DATA"
      BY <2>1, <2>2
    <3>2. Sent = wr_issued + 0 /\ Sent' = wr_issued' + 0
      BY <3>1 DEF Sent
    <3>3. wr_issued \in Nat /\ wr_issued' \in Nat
      BY <1>0, WriteTypes DEF RegionInv, IInv
    <3>4. \A n \in Nat : n + 0 = n
      OBVIOUS
    <3>5. QED
      BY <3>2, <3>3, <3>4
  <2>4. CASE wr_issued' = 0
    BY <1>1, <1>2, <2>2, <2>3, <2>4 DEF Stored
  <2>5. CASE lat' = lat /\ wr_issued' = wr_issued
    <3>1. Rows' = Rows /\ Sent' = Sent
      BY <2>3, <2>5 DEF Rows, Expected
    <3>2. QED
      BY <1>1, <1>2, <1>3, <2>1, <2>2, <2>5, <3>1 DEF Stored
  <2>6. QED
    BY <2>1, <2>4, <2>5, BeginStep
<1>5. CASE bstate # "B_IDLE"
  <2>1. lat' = lat /\ Sent \in Nat /\ Sent' = Sent + Bit(WBeat(wready))
    BY <1>5, BusyStep, SentStep, LevelBounds
  <2>2. Rows' = Rows
    BY <2>1 DEF Rows, Expected
  <2>3. CASE wstate = "W_DATA" /\ WBeat(wready)
    <3> DEFINE here == (lat.c + Sent) % ADDR_MOD
    <3>1. /\ aw_state = "AW_DATA" /\ wdata = Rows[Sent] /\ Sent' = Sent + 1
          /\ (aw_addr_r + aw_beat) % ADDR_MOD = here
      BY <2>1, <2>3 DEF RegionInv, IInv, WritePort, Queued, Stored, Bit
    <3>2. /\ wstate' = IF wlast THEN "W_BRESP" ELSE "W_DATA"
          /\ aw_fail' = aw_fail /\ aw_addr_r' = aw_addr_r
          /\ ~wlast => aw_beat' = aw_beat + 1
          /\ ~aw_fail => wmem' = [wmem EXCEPT ![here] = Rows[Sent]]
      BY <2>3, <3>1 DEF WrEdge, WrIdle, WrAddr, WrData, WrResp, RamWrEdge
    <3>3. ~wlast => (aw_addr_r' + aw_beat') % ADDR_MOD = (lat.c + Sent') % ADDR_MOD
      <4> DEFINE p == aw_addr_r + aw_beat
                 q == lat.c + Sent
      <4>1. p \in Int /\ q \in Int /\ p % ADDR_MOD = q % ADDR_MOD
        BY <1>0, <2>1, <3>1
      <4>2. ~wlast => aw_addr_r' + aw_beat' = p + 1 /\ lat.c + Sent' = q + 1
        BY <1>0, <2>1, <3>1, <3>2
      <4> HIDE DEF p, q
      <4>3. \A z \in Int : /\ ((p % ADDR_MOD) + z) % ADDR_MOD = (p + z) % ADDR_MOD
                           /\ ((q % ADDR_MOD) + z) % ADDR_MOD = (q + z) % ADDR_MOD
        BY <1>0, <4>1, ModAdd
      <4>4. (p + 1) % ADDR_MOD = (q + 1) % ADDR_MOD
        <5>1. ((p % ADDR_MOD) + 1) % ADDR_MOD = ((q % ADDR_MOD) + 1) % ADDR_MOD
          BY <4>1
        <5>2. /\ ((p % ADDR_MOD) + 1) % ADDR_MOD = (p + 1) % ADDR_MOD
              /\ ((q % ADDR_MOD) + 1) % ADDR_MOD = (q + 1) % ADDR_MOD
          BY <4>3
        <5>3. QED
          BY <5>1, <5>2
      <4>5. QED
        BY <4>2, <4>4
    <3>4. ASSUME ~bresp_err', ~aw_fail, NEW k \in 0..Sent
          PROVE  wmem'[(lat.c + k) % ADDR_MOD] = Rows[k]
      <4>1. /\ k \in Int /\ lat.c + k \in Int /\ (k = Sent \/ k \in 0..(Sent - 1))
            /\ (lat.c + k) % ADDR_MOD \in 0..(ADDR_MOD - 1)
        <5>1. k \in Int /\ lat.c + k \in Int /\ (k = Sent \/ k \in 0..(Sent - 1))
          BY <1>0, <2>1
        <5>2. QED
          BY <1>0, <5>1
      <4>2. wmem' = [wmem EXCEPT ![here] = Rows[Sent]] /\ DOMAIN wmem = 0..(ADDR_MOD - 1)
        BY <3>2, <3>4 DEF Stored
      <4>3. CASE (lat.c + k) % ADDR_MOD = here
        <5>1. Rows[k] = Rows[Sent]
          BY <2>1, <4>1, <4>3, SameAddress DEF RegionInv
        <5>2. QED
          BY <4>1, <4>2, <4>3, <5>1
      <4>4. CASE (lat.c + k) % ADDR_MOD # here
        <5>1. k \in 0..(Sent - 1)
          BY <4>1, <4>4
        <5>2. wmem[(lat.c + k) % ADDR_MOD] = Rows[k]
          BY <1>3, <2>3, <3>4, <5>1 DEF Stored
        <5>3. QED
          BY <4>1, <4>2, <4>4, <5>2
      <4>5. QED
        BY <4>3, <4>4
    <3> HIDE DEF here
    <3>5. \A k \in 0..(Sent' - 1) : k \in 0..Sent
      BY <2>1, <3>1
    <3>6. QED
      BY <1>1, <1>2, <2>1, <2>2, <3>2, <3>3, <3>4, <3>5 DEF Stored
  <2>4. CASE ~(wstate = "W_DATA" /\ WBeat(wready))
    <3>1. ~WBeat(wready)
      BY <2>4 DEF WBeat, RegionInv, IInv, WritePort
    <3>2. Sent' = Sent /\ wmem' = wmem
      BY <2>1, <3>1 DEF Bit, RamWrEdge
    <3>3. CASE wstate = "W_AW" /\ awvalid /\ awready
      <4>1. /\ aw_state = "AW_IDLE" /\ w_beat_cnt = 0 /\ awaddr = (lat.c + wr_issued) % ADDR_MOD
        BY <3>3 DEF RegionInv, IInv, WritePort, WriteRegion
      <4>2. wstate' = "W_DATA" /\ aw_addr_r' = awaddr /\ aw_beat' = 0 /\ aw_fail' = fail
        BY <3>3, <4>1 DEF WrEdge, WrIdle, WrAddr, WrData, WrResp, RamWrEdge
      <4>3. Sent = wr_issued
        BY <1>0, <3>3 DEF Sent
      <4>4. (aw_addr_r' + aw_beat') % ADDR_MOD = (lat.c + Sent') % ADDR_MOD
        <5> DEFINE q == lat.c + wr_issued
        <5>1. q \in Int /\ aw_addr_r' = q % ADDR_MOD /\ aw_beat' = 0 /\ lat.c + Sent' = q
          BY <1>0, <3>2, <4>1, <4>2, <4>3
        <5> HIDE DEF q
        <5>2. \A z \in Int : ((q % ADDR_MOD) + z) % ADDR_MOD = (q + z) % ADDR_MOD
          BY <1>0, <5>1, ModAdd
        <5>3. ((q % ADDR_MOD) + 0) % ADDR_MOD = (q + 0) % ADDR_MOD /\ q + 0 = q
          BY <5>1, <5>2
        <5>4. QED
          BY <5>1, <5>3
      <4>5. QED
        BY <1>1, <1>2, <1>3, <2>1, <2>2, <3>2, <3>3, <4>2, <4>4 DEF Stored
    <3>4. CASE ~(wstate = "W_AW" /\ awvalid /\ awready)
      <4>1. ~(awvalid /\ awready /\ aw_state = "AW_IDLE")
        BY <3>4 DEF RegionInv, IInv, WritePort
      <4>2. UNCHANGED <<aw_addr_r, aw_fail, aw_beat>>
        BY <3>1, <4>1 DEF RamWrEdge
      <4>3. \/ wstate' = wstate
            \/ wstate = "W_IDLE" /\ wstate' = "W_AW"
            \/ wstate = "W_BRESP" /\ bvalid /\ wstate' = "W_IDLE"
        BY <3>1, <3>4 DEF WrEdge, WrIdle, WrAddr, WrData, WrResp
      <4>4. QED
        BY <1>1, <1>2, <1>3, <2>1, <2>2, <3>2, <4>2, <4>3 DEF Stored
    <3>5. QED
      BY <3>3, <3>4
  <2>5. QED
    BY <2>3, <2>4
<1>6. QED
  BY <1>4, <1>5

LEMMA DataInit ==
    ASSUME Init PROVE DataInv
<1>1. /\ N \in Nat /\ N >= 1 /\ RD_DEPTH \in Nat \ {0} /\ WR_DEPTH \in Nat \ {0}
      /\ ADDR_MOD \in Nat
  BY StreamAssumption, BridgeAssumption
<1>2. Arriving
  BY DEF Init, Arriving
<1>3. Buffered
  BY <1>1 DEF Init, Buffered, Ring, Slot
<1>4. InArray
  BY <1>1 DEF Init, FsmInit, InArray, NoWord
<1>5. Queued
  BY <1>1 DEF Init, Queued, Ring, Slot
<1>6. Stored
  <2>1. Sent = 0
    BY DEF Init, Sent
  <2>2. QED
    BY <1>1, <2>1 DEF Init, Stored
<1>7. QED
  BY <1>2, <1>3, <1>4, <1>5, <1>6 DEF DataInv

LEMMA DataReset ==
    ASSUME RegionInv, DataInv, Reset PROVE DataInv'
<1>1. /\ RD_DEPTH \in Nat \ {0} /\ WR_DEPTH \in Nat \ {0} /\ upsets \in Nat
  BY StreamAssumption, BridgeAssumption DEF RegionInv, IInv, Types, TypeOK
<1>2. Arriving'
  BY DEF DataInv, Reset, ResetEdge, RamReset, Arriving
<1>3. Buffered'
  BY <1>1 DEF DataInv, Reset, ResetEdge, RdReset, Buffered, Ring, Slot
<1>4. InArray'
  BY DEF DataInv, Reset, ResetEdge, FsmReset, TopReset, InArray
<1>5. Queued'
  BY <1>1 DEF DataInv, Reset, ResetEdge, WrReset, Queued, Ring, Slot
<1>6. Stored'
  <2>1. Sent' = 0 /\ wstate' = "W_IDLE" /\ upsets' > 0
    BY <1>1 DEF Reset, ResetEdge, WrReset, Sent
  <2>2. wmem' = wmem /\ aw_addr_r' = aw_addr_r
    BY DEF Reset, ResetEdge, RamReset
  <2>3. QED
    BY <2>1, <2>2 DEF DataInv, Stored
<1>7. QED
  BY <1>2, <1>3, <1>4, <1>5, <1>6 DEF DataInv

LEMMA DataStutter ==
    ASSUME DataInv, UNCHANGED vars PROVE DataInv'
<1>1. Words' = Words /\ Rows' = Rows /\ lat' = lat
  BY DEF vars, rdVars, Words, Rows, Word, Expected
<1>2. Taken' = Taken /\ Sent' = Sent
  BY DEF vars, fsmVars, rdVars, wrVars, topVars, Taken, Sent
<1>3. Arriving'
  BY DEF vars, rdVars, ramRdVars, DataInv, Arriving, Word
<1>4. Buffered' /\ InArray'
  BY <1>1, <1>2 DEF vars, fsmVars, rdVars, pipeVars, DataInv, Buffered, Ring, InArray
<1>5. Queued'
  BY <1>1, <1>2 DEF vars, wrVars, DataInv, Queued, Ring
<1>6. Stored'
  BY <1>1, <1>2 DEF vars, wrVars, ramWrVars, DataInv, Stored
<1>7. QED
  BY <1>3, <1>4, <1>5, <1>6 DEF DataInv

LEMMA DataStep ==
    ASSUME JobsFit, RegionInv, LevelInv, LevelInv', DataInv, [Next]_vars
    PROVE  DataInv'
<1>1. CASE Cycle
  <2>0. PICK start, arready, r_gate, awready, wready, fail \in BOOLEAN, in \in Jobs :
             SomeEdge(start, in, arready, r_gate, awready, wready, fail)
    BY <1>1, CycleIsClock DEF RegionInv
  <2>1. /\ Clock(start, in, arready, r_gate, awready, wready, fail)
        /\ bridge_busy => in = lat
    BY <2>0 DEF SomeEdge
  <2>2. /\ RdEdge(start, in, arready) /\ WrEdge(start, in, awready, wready)
        /\ TopEdge(start) /\ CtrlEdge(in) /\ PipeEdge
        /\ RamRdEdge(arready, r_gate) /\ RamWrEdge(awready, wready, fail)
        /\ upsets' = upsets + Bit(fail)
        /\ bstate # "B_IDLE" => in = lat
    BY <2>1 DEF Clock, bridge_busy
  <2>3. Arriving /\ Buffered /\ InArray /\ Queued /\ Stored
    BY DEF DataInv
  <2>4. Arriving'
    BY <2>2, <2>3, ArrivingStep
  <2>5. Buffered'
    BY <2>2, <2>3, BufferedStep
  <2>6. InArray'
    BY <2>2, <2>3, InArrayStep
  <2>7. Queued'
    BY <2>2, <2>3, QueuedStep
  <2>8. Stored'
    BY <2>2, <2>3, StoredStep
  <2>9. QED
    BY <2>4, <2>5, <2>6, <2>7, <2>8 DEF DataInv
<1>2. CASE Reset
  BY <1>2, DataReset
<1>3. CASE UNCHANGED vars
  BY <1>3, DataStutter
<1>4. QED
  BY <1>1, <1>2, <1>3 DEF Next

\* The words keep their order on the whole way, while the commands fit.
THEOREM DataInvariance ==
    ASSUME JobsFit
    PROVE  Spec => [](RegionInv /\ LevelInv /\ DataInv)
<1>1. Init => DataInv
  BY DataInit
<1>2. RegionInv /\ LevelInv /\ (RegionInv /\ LevelInv)' /\ DataInv /\ [Next]_vars => DataInv'
  BY DataStep
<1>3. QED
  BY <1>1, <1>2, LevelInvariance, PTL DEF Spec

(* When done pulses, every result row is in memory, at its address and     *)
(* computed from its own weights and activation, whatever was stalled and  *)
(* wherever the bursts were cut (axi4_dma_bridge.sv:11-15), or bresp_err   *)
(* tells that the memory has refused some (line 258).                      *)
THEOREM ResultsAreWrittenOrFlagged ==
    ASSUME JobsFit
    PROVE  Spec => []WrittenOrFlagged
<1>1. ASSUME RegionInv, LevelInv, DataInv PROVE WrittenOrFlagged
  <2>1. bresp_err => upsets > 0
    BY <1>1 DEF DataInv, Stored
  <2>2. ASSUME bdone, ~bresp_err, NEW k \in 0..(lat.m - 1)
        PROVE  wmem[(lat.c + k) % ADDR_MOD] = Expected(k)
    <3>1. wstate = "W_IDLE" /\ wr_issued = lat.m
      BY <1>1, <2>2 DEF LevelInv, Phases, RegionInv, WriteRegion
    <3>2. Sent = lat.m
      <4>1. lat.m + 0 = lat.m
        BY <1>1, BridgeAssumption DEF RegionInv, IInv, Types, TypeOK
      <4>2. QED
        BY <3>1, <4>1 DEF Sent
    <3>3. wmem[(lat.c + k) % ADDR_MOD] = Rows[k]
      BY <1>1, <2>2, <3>1, <3>2 DEF DataInv, Stored
    <3>4. QED
      BY <3>3 DEF Rows
  <2>3. QED
    BY <2>1, <2>2 DEF WrittenOrFlagged
<1>2. QED
  BY <1>1, DataInvariance, PTL
===============================================================================
