------------------------------- MODULE DmaBridge ------------------------------
(***************************************************************************)
(* rtl/axi/axi4_dma_bridge.sv around stream_ctrl (module StreamCtrl), with *)
(* the two AXI memories of rtl/axi/axi4_sim_ram.sv on its read and write   *)
(* ports.  Every step is one clock edge of all of them; the four stall     *)
(* gates of the memories open and close freely from cycle to cycle.        *)
(*                                                                         *)
(* From StreamCtrl: state, li, cyc, done, busy, rd_en, wr_en are those of  *)
(* the inner stream_ctrl (ctrl_done, ctrl_rd_en and ctrl_wr_en here).      *)
(* Addresses count words.  A word of the read memory is named by its       *)
(* address; a result row is <<the N weight words, the activation word>> it *)
(* was computed from.  The array and its skew registers are the delay line *)
(* pipe of Latency words, which StreamTop!WriteIsProduct justifies.        *)
(***************************************************************************)
EXTENDS StreamCtrl, Sequences

CONSTANTS Jobs,       \* commands [w, a, c, m]
          RD_DEPTH,   \* RD_FIFO_DEPTH
          WR_DEPTH,   \* WR_FIFO_DEPTH
          BURST_MAX,  \* longest burst, 16 in the RTL
          LEN_MOD,    \* burst lengths are 8 bits wide: 256 in the RTL
          MaxUpsets   \* bound: resets after power-up and refused bursts

ASSUME BridgeAssumption ==
    /\ RD_DEPTH \in Nat \ {0} /\ WR_DEPTH \in Nat \ {0}
    /\ BURST_MAX \in Nat \ {0} /\ LEN_MOD \in Nat /\ BURST_MAX < LEN_MOD
    /\ MaxUpsets \in Nat
    /\ \A j \in Jobs : /\ {j.w, j.a, j.c} \subseteq 0..(ADDR_MOD - 1)
                       /\ j.m \in 0..(CNT_MOD - 2 * N)

VARIABLES
    lat,                                     \* w_base_lat .. m_rows_lat
    ctrl_start, ctrl_rd_data,
    rfifo, rf_count, rf_wptr, rf_rptr,       \* read FIFO
    rstate, rd_total, rd_issued,             \* read engine
    arvalid, araddr, arlen, rready,
    wfifo, wf_count, wf_wptr, wf_rptr,       \* write FIFO
    wstate, wr_total, wr_issued, wr_acked,   \* write engine
    w_burst_len, w_beat_cnt,
    awvalid, awaddr, awlen, wvalid, wdata, wlast,
    bstate, bdone,                           \* top-level FSM and its done
    wbuf, pipe,                              \* weight_buf; rows in the array
    ar_state, ar_addr_r, ar_len_r, ar_beat, rvalid, rdata, rlast,  \* read RAM
    aw_state, aw_addr_r, aw_len_r, aw_beat, bvalid, wmem,          \* write RAM
    aw_fail,                                 \* the memory refuses this burst
    bresp_err,                               \* the bridge has seen an error
    upsets                                   \* history: resets and refusals

rdVars == <<lat, ctrl_rd_data, rfifo, rf_count, rf_wptr, rf_rptr, rstate,
            rd_total, rd_issued, arvalid, araddr, arlen, rready>>
wrVars == <<wfifo, wf_count, wf_wptr, wf_rptr, wstate, wr_total, wr_issued,
            wr_acked, w_burst_len, w_beat_cnt, awvalid, awaddr, awlen, wvalid,
            wdata, wlast, bresp_err>>
topVars == <<bstate, bdone, ctrl_start>>
pipeVars == <<wbuf, pipe>>
ramRdVars == <<ar_state, ar_addr_r, ar_len_r, ar_beat, rvalid, rdata, rlast>>
ramWrVars == <<aw_state, aw_addr_r, aw_len_r, aw_beat, bvalid, wmem, aw_fail>>
vars == <<fsmVars, rdVars, wrVars, topVars, pipeVars, ramRdVars, ramWrVars, upsets>>

NoWord == -1
Bit(b) == IF b THEN 1 ELSE 0
Lesser(a, b) == IF a < b THEN a ELSE b

Inc(ptr, depth) == IF ptr = depth - 1 THEN 0 ELSE ptr + 1

bridge_busy == bstate # "B_IDLE"

DP == INSTANCE Datapath WITH busy <- bridge_busy, done <- bdone

-------------------------------------------------------------------------------
(* Read engine.                                                            *)

rd_next_addr == IF rd_issued < N THEN (lat.w + rd_issued) % ADDR_MOD
                                 ELSE (lat.a + rd_issued - N) % ADDR_MOD

rd_remaining_Merged == rd_total - rd_issued

\* Weights and activations are separate regions: no burst spans both.
rd_remaining == IF rd_issued < N THEN N - rd_issued ELSE rd_total - rd_issued

rf_room == (RD_DEPTH - rf_count) % CNT_MOD

next_burst_len == Lesser(rd_remaining, Lesser(rf_room, BURST_MAX))

rd_all_buffered_Early ==
    rd_total # 0 /\ rd_issued # 0 /\ rd_issued <= rd_total /\ rf_count >= N + 1

rd_all_buffered_Full == rd_total # 0 /\ rf_count = RD_DEPTH

rd_all_buffered == /\ rd_total # 0 /\ rd_issued = rd_total
                   /\ rstate = "R_IDLE" /\ rf_count = rd_total

RBeat == rvalid /\ rready

ar_held_Drop(arready) == FALSE

\* ARVALID stays up until the handshake.
ar_held(arready) == arvalid /\ ~arready

RdFifoEdge ==
    /\ ctrl_rd_data' = IF rd_en THEN rfifo[rf_rptr] ELSE ctrl_rd_data
    /\ rf_rptr' = IF rd_en THEN Inc(rf_rptr, RD_DEPTH) ELSE rf_rptr
    /\ rfifo' = IF RBeat THEN [rfifo EXCEPT ![rf_wptr] = rdata] ELSE rfifo
    /\ rf_wptr' = IF RBeat THEN Inc(rf_wptr, RD_DEPTH) ELSE rf_wptr
    /\ rf_count' = (rf_count + Bit(RBeat) - Bit(rd_en)) % CNT_MOD

RdIdle(start, in, arready) ==
    /\ rstate = "R_IDLE"
    /\ IF start /\ ~bridge_busy
       THEN /\ lat' = in /\ rstate' = "R_ISSUE"
            /\ rd_total' = (N + in.m) % CNT_MOD /\ rd_issued' = 0
       ELSE UNCHANGED <<lat, rstate, rd_total, rd_issued>>
    /\ arvalid' = ar_held(arready) /\ rready' = FALSE
    /\ UNCHANGED <<araddr, arlen>>

RdIssue(arready) ==
    /\ rstate = "R_ISSUE"
    /\ rready' = FALSE
    /\ IF rd_issued < rd_total /\ next_burst_len # 0 /\ ~arvalid
       THEN /\ araddr' = rd_next_addr /\ arlen' = next_burst_len - 1
            /\ arvalid' = TRUE /\ rstate' = "R_BURST"
       ELSE /\ rstate' = IF rd_issued >= rd_total THEN "R_IDLE" ELSE rstate
            /\ arvalid' = ar_held(arready)
            /\ UNCHANGED <<araddr, arlen>>
    /\ UNCHANGED <<lat, rd_total, rd_issued>>

RdBurst(arready) ==
    /\ rstate = "R_BURST"
    /\ arvalid' = ar_held(arready)
    /\ rd_issued' = rd_issued + Bit(RBeat)
    /\ rready' = ~(RBeat /\ rlast)
    /\ rstate' = IF RBeat /\ rlast THEN "R_ISSUE" ELSE "R_BURST"
    /\ UNCHANGED <<lat, rd_total, araddr, arlen>>

RdEdge(start, in, arready) ==
    /\ RdFifoEdge
    /\ RdIdle(start, in, arready) \/ RdIssue(arready) \/ RdBurst(arready)

-------------------------------------------------------------------------------
(* Write engine.                                                           *)

rem == (wr_total - wr_issued) % CNT_MOD

\* What is in the FIFO, at most BURST_MAX, clipped to rem[7:0].
next_wburst_len == Lesser(Lesser(wf_count, BURST_MAX), rem % LEN_MOD)

WBeat(wready) == wvalid /\ wready

ctrl_wr_data == <<wbuf, pipe[Latency]>>

WrFifoEdge(wready) ==
    /\ wfifo' = IF wr_en THEN [wfifo EXCEPT ![wf_wptr] = ctrl_wr_data] ELSE wfifo
    /\ wf_wptr' = IF wr_en THEN Inc(wf_wptr, WR_DEPTH) ELSE wf_wptr
    /\ wf_rptr' = IF WBeat(wready) THEN Inc(wf_rptr, WR_DEPTH) ELSE wf_rptr
    /\ wf_count' = (wf_count + Bit(wr_en) - Bit(WBeat(wready))) % CNT_MOD

WrIdle ==
    /\ wstate = "W_IDLE"
    /\ IF wr_issued < wr_total /\ next_wburst_len # 0
       THEN /\ awaddr' = (lat.c + wr_issued) % ADDR_MOD
            /\ awlen' = next_wburst_len - 1 /\ awvalid' = TRUE
            /\ w_burst_len' = next_wburst_len /\ w_beat_cnt' = 0
            /\ wstate' = "W_AW"
       ELSE UNCHANGED <<awaddr, awlen, awvalid, w_burst_len, w_beat_cnt, wstate>>
    /\ UNCHANGED <<wvalid, wdata, wlast>>

WrAddr(awready) ==
    /\ wstate = "W_AW"
    /\ IF awvalid /\ awready
       THEN /\ awvalid' = FALSE /\ wvalid' = TRUE /\ wdata' = wfifo[wf_rptr]
            /\ wlast' = (w_burst_len = 1) /\ wstate' = "W_DATA"
       ELSE UNCHANGED <<awvalid, wvalid, wdata, wlast, wstate>>
    /\ UNCHANGED <<awaddr, awlen, w_burst_len, w_beat_cnt>>

\* The FIFO pops on this beat, so the next word is one past wf_rptr.
next_word == wfifo[Inc(wf_rptr, WR_DEPTH)]

next_last_Late == w_beat_cnt + 1 = w_burst_len

next_last == w_beat_cnt + 2 = w_burst_len

WrData(wready) ==
    /\ wstate = "W_DATA"
    /\ IF ~WBeat(wready)
       THEN UNCHANGED <<w_beat_cnt, wvalid, wdata, wlast, wstate>>
       ELSE /\ w_beat_cnt' = w_beat_cnt + 1
            /\ IF wlast
               THEN /\ wvalid' = FALSE /\ wlast' = FALSE /\ wstate' = "W_BRESP"
                    /\ UNCHANGED wdata
               ELSE /\ wdata' = next_word /\ wlast' = next_last
                    /\ UNCHANGED <<wvalid, wstate>>
    /\ UNCHANGED <<awvalid, awaddr, awlen, w_burst_len>>

WrResp ==
    /\ wstate = "W_BRESP"
    /\ wstate' = IF bvalid THEN "W_IDLE" ELSE wstate
    /\ UNCHANGED <<awvalid, awaddr, awlen, w_burst_len, w_beat_cnt, wvalid, wdata, wlast>>

\* wr_total, wr_issued and wr_acked: restarted with a command, then advanced
\* by whole bursts.
WrCounters(start, in, wready) ==
    LET begin == rstate = "R_IDLE" /\ start /\ ~bridge_busy
    IN  /\ wr_total' = IF begin THEN in.m ELSE wr_total
        /\ wr_issued' = IF wstate = "W_DATA" /\ WBeat(wready) /\ wlast
                        THEN wr_issued + w_burst_len
                        ELSE IF begin THEN 0 ELSE wr_issued
        /\ wr_acked' = IF wstate = "W_BRESP" /\ bvalid
                       THEN wr_acked + w_burst_len
                       ELSE IF begin THEN 0 ELSE wr_acked

RecordError_LastOnly ==
    bresp_err' = IF wstate = "W_BRESP" /\ bvalid THEN aw_fail ELSE bresp_err

\* bresp other than OKAY is remembered until reset; nothing else comes of it.
RecordError == bresp_err' = (bresp_err \/ (wstate = "W_BRESP" /\ bvalid /\ aw_fail))

WrEdge(start, in, awready, wready) ==
    /\ WrFifoEdge(wready)
    /\ RecordError
    /\ WrCounters(start, in, wready)
    /\ WrIdle \/ WrAddr(awready) \/ WrData(wready) \/ WrResp

-------------------------------------------------------------------------------
(* The top-level FSM, and stream_ctrl with the array behind it.            *)

TopIdle(start) ==
    /\ bstate = "B_IDLE" /\ bstate' = IF start THEN "B_PREFETCH" ELSE bstate
    /\ ctrl_start' = FALSE /\ bdone' = FALSE

TopPrefetch ==
    /\ bstate = "B_PREFETCH"
    /\ bstate' = IF rd_all_buffered THEN "B_RUN" ELSE bstate
    /\ ctrl_start' = rd_all_buffered /\ bdone' = FALSE

TopRun_DoneEarly ==
    /\ bstate = "B_RUN" /\ bstate' = IF done THEN "B_DRAIN" ELSE bstate
    /\ ctrl_start' = FALSE /\ bdone' = done

TopRun ==
    /\ bstate = "B_RUN" /\ bstate' = IF done THEN "B_DRAIN" ELSE bstate
    /\ ctrl_start' = FALSE /\ bdone' = FALSE

\* All responses are in, not only all data out.
drained == wr_acked >= wr_total

TopDrain ==
    /\ bstate = "B_DRAIN" /\ bstate' = IF drained THEN "B_IDLE" ELSE bstate
    /\ ctrl_start' = FALSE /\ bdone' = drained

TopEdge(start) == TopIdle(start) \/ TopPrefetch \/ TopRun \/ TopDrain

\* stream_ctrl gets zero bases and the live m_rows input.
CtrlEdge(in) == FsmEdge(ctrl_start, [w |-> 0, a |-> 0, c |-> 0, m |-> in.m])

PipeEdge ==
    /\ wbuf' = IF state = "S_LOAD_DATA" THEN [wbuf EXCEPT ![li] = ctrl_rd_data] ELSE wbuf
    /\ pipe' = IF state = "S_STREAM"
               THEN [i \in 1..Latency |->
                        IF i > 1 THEN pipe[i - 1]
                        ELSE IF push_valid THEN ctrl_rd_data ELSE NoWord]
               ELSE pipe

-------------------------------------------------------------------------------
(* The AXI memories.                                                       *)

RamRdEdge(arready, r_gate) ==
    \/ /\ ar_state = "AR_IDLE"
       /\ rvalid' = (rvalid /\ ~rready)
       /\ IF arvalid /\ arready
          THEN ar_addr_r' = araddr /\ ar_len_r' = arlen /\ ar_beat' = 0
               /\ ar_state' = "AR_BURST"
          ELSE UNCHANGED <<ar_addr_r, ar_len_r, ar_beat, ar_state>>
       /\ UNCHANGED <<rdata, rlast>>
    \/ /\ ar_state = "AR_BURST" /\ rvalid /\ ~rready
       /\ UNCHANGED ramRdVars
    \/ /\ ar_state = "AR_BURST" /\ (~rvalid \/ rready)
       /\ rvalid' = r_gate
       /\ IF r_gate
          THEN /\ rdata' = (ar_addr_r + ar_beat) % ADDR_MOD
               /\ rlast' = (ar_beat = ar_len_r)
               /\ ar_state' = IF ar_beat = ar_len_r THEN "AR_IDLE" ELSE ar_state
               /\ ar_beat' = IF ar_beat = ar_len_r THEN ar_beat ELSE ar_beat + 1
          ELSE UNCHANGED <<rdata, rlast, ar_state, ar_beat>>
       /\ UNCHANGED <<ar_addr_r, ar_len_r>>

\* bready is tied high, so a response lasts one cycle.  axi4_sim_ram takes
\* every burst; a memory that may not (fail) stores nothing of the burst and
\* answers with an error.
RamWrEdge(awready, wready, fail) ==
    /\ bvalid' = (aw_state = "AW_DATA" /\ WBeat(wready) /\ wlast)
    /\ \/ /\ aw_state = "AW_IDLE"
          /\ IF awvalid /\ awready
             THEN aw_addr_r' = awaddr /\ aw_len_r' = awlen /\ aw_beat' = 0
                  /\ aw_state' = "AW_DATA" /\ aw_fail' = fail
             ELSE UNCHANGED <<aw_addr_r, aw_len_r, aw_beat, aw_state, aw_fail>>
          /\ UNCHANGED wmem
       \/ /\ aw_state = "AW_DATA"
          /\ IF WBeat(wready)
             THEN /\ wmem' = IF aw_fail THEN wmem
                             ELSE [wmem EXCEPT ![(aw_addr_r + aw_beat) % ADDR_MOD] = wdata]
                  /\ aw_state' = IF wlast THEN "AW_RESP" ELSE aw_state
                  /\ aw_beat' = IF wlast THEN aw_beat ELSE aw_beat + 1
             ELSE UNCHANGED <<wmem, aw_state, aw_beat>>
          /\ UNCHANGED <<aw_addr_r, aw_len_r, aw_fail>>
       \/ /\ aw_state = "AW_RESP"
          /\ aw_state' = IF bvalid THEN "AW_IDLE" ELSE aw_state
          /\ UNCHANGED <<aw_addr_r, aw_len_r, aw_beat, wmem, aw_fail>>

-------------------------------------------------------------------------------
Clock(start, in, arready, r_gate, awready, wready, fail) ==
    /\ RdEdge(start, in, arready) /\ WrEdge(start, in, awready, wready)
    /\ TopEdge(start) /\ CtrlEdge(in) /\ PipeEdge
    /\ RamRdEdge(arready, r_gate) /\ RamWrEdge(awready, wready, fail)
    /\ upsets' = upsets + Bit(fail)

(* An edge with rst high.  Registers that only hold data keep it.         *)

RdReset_KeepsFifo ==
    /\ rstate' = "R_IDLE" /\ rd_issued' = 0 /\ rd_total' = 0
    /\ arvalid' = FALSE /\ rready' = FALSE
    /\ UNCHANGED <<lat, ctrl_rd_data, rfifo, rf_wptr, rf_rptr, rf_count, araddr, arlen>>

RdReset ==
    /\ rstate' = "R_IDLE" /\ rd_issued' = 0 /\ rd_total' = 0
    /\ rf_wptr' = 0 /\ rf_rptr' = 0 /\ rf_count' = 0
    /\ arvalid' = FALSE /\ rready' = FALSE
    /\ UNCHANGED <<lat, ctrl_rd_data, rfifo, araddr, arlen>>

WrReset ==
    /\ wstate' = "W_IDLE" /\ wf_wptr' = 0 /\ wf_rptr' = 0 /\ wf_count' = 0
    /\ wr_total' = 0 /\ wr_issued' = 0 /\ wr_acked' = 0
    /\ awvalid' = FALSE /\ wvalid' = FALSE /\ wlast' = FALSE /\ bresp_err' = FALSE
    /\ UNCHANGED <<wfifo, w_burst_len, w_beat_cnt, awaddr, awlen, wdata>>

TopReset ==
    /\ bstate' = "B_IDLE" /\ ctrl_start' = FALSE /\ bdone' = FALSE
    /\ pipe' = [i \in 1..Latency |-> NoWord] /\ UNCHANGED wbuf

RamReset ==
    /\ ar_state' = "AR_IDLE" /\ rvalid' = FALSE
    /\ aw_state' = "AW_IDLE" /\ bvalid' = FALSE
    /\ UNCHANGED <<ar_addr_r, ar_len_r, ar_beat, rdata, rlast>>
    /\ UNCHANGED <<aw_addr_r, aw_len_r, aw_beat, wmem, aw_fail>>

ResetEdge == FsmReset /\ RdReset /\ WrReset /\ TopReset /\ RamReset

Reset ==
    /\ upsets < MaxUpsets /\ upsets' = upsets + 1
    /\ ResetEdge

\* The command inputs come from cmd_queue_regs, which holds them while the
\* bridge is busy (CmdQueueRegs!CommandStable).
Inputs == IF bridge_busy THEN {lat} ELSE Jobs

\* A gate matters only in the cycles in which its channel could move.
Gate(relevant) == IF relevant THEN BOOLEAN ELSE {FALSE}
ArMoves == arvalid /\ ar_state = "AR_IDLE"
RMoves == ar_state = "AR_BURST" /\ (~rvalid \/ rready)
AwMoves == awvalid /\ aw_state = "AW_IDLE"
WMoves == wvalid /\ aw_state = "AW_DATA"

Step(ars, rs, aws, ws) ==
    \E start \in Gate(~bridge_busy), in \in Inputs,
       arready \in ars, r_gate \in rs, awready \in aws, wready \in ws :
        \E fail \in Gate(AwMoves /\ awready /\ upsets < MaxUpsets) :
            Clock(start, in, arready, r_gate, awready, wready, fail)

Cycle == Step(Gate(ArMoves), Gate(RMoves), Gate(AwMoves), Gate(WMoves))

Next == Cycle \/ Reset

Init ==
    /\ \E j \in Jobs : lat = j /\ FsmInit([w |-> 0, a |-> 0, c |-> 0, m |-> j.m])
    /\ ctrl_start = FALSE /\ ctrl_rd_data = NoWord
    /\ rfifo = [i \in 0..(RD_DEPTH - 1) |-> NoWord]
    /\ rf_count = 0 /\ rf_wptr = 0 /\ rf_rptr = 0
    /\ rstate = "R_IDLE" /\ rd_total = 0 /\ rd_issued = 0
    /\ arvalid = FALSE /\ araddr = 0 /\ arlen = 0 /\ rready = FALSE
    /\ wfifo = [i \in 0..(WR_DEPTH - 1) |-> <<>>]
    /\ wf_count = 0 /\ wf_wptr = 0 /\ wf_rptr = 0
    /\ wstate = "W_IDLE" /\ wr_total = 0 /\ wr_issued = 0 /\ wr_acked = 0
    /\ w_burst_len = 0 /\ w_beat_cnt = 0
    /\ awvalid = FALSE /\ awaddr = 0 /\ awlen = 0
    /\ wvalid = FALSE /\ wdata = <<>> /\ wlast = FALSE
    /\ bstate = "B_IDLE" /\ bdone = FALSE
    /\ wbuf = [i \in 0..(N - 1) |-> NoWord]
    /\ pipe = [i \in 1..Latency |-> NoWord]
    /\ ar_state = "AR_IDLE" /\ ar_addr_r = 0 /\ ar_len_r = 0 /\ ar_beat = 0
    /\ rvalid = FALSE /\ rdata = NoWord /\ rlast = FALSE
    /\ aw_state = "AW_IDLE" /\ aw_addr_r = 0 /\ aw_len_r = 0 /\ aw_beat = 0
    /\ bvalid = FALSE
    /\ wmem = [a \in 0..(ADDR_MOD - 1) |-> <<>>]
    /\ aw_fail = FALSE /\ bresp_err = FALSE /\ upsets = 0

Spec == Init /\ [][Next]_vars

(* The clock runs, and no channel of the memories is stalled forever: each *)
(* gate is a bit of a free-running LFSR (axi4_sim_ram.sv:51-60).           *)
Fairness ==
    /\ WF_vars(Cycle)
    /\ WF_vars(ArMoves /\ Step({TRUE}, Gate(RMoves), Gate(AwMoves), Gate(WMoves)))
    /\ WF_vars(RMoves /\ Step(Gate(ArMoves), {TRUE}, Gate(AwMoves), Gate(WMoves)))
    /\ WF_vars(AwMoves /\ Step(Gate(ArMoves), Gate(RMoves), {TRUE}, Gate(WMoves)))
    /\ WF_vars(WMoves /\ Step(Gate(ArMoves), Gate(RMoves), Gate(AwMoves), {TRUE}))

FairSpec == Spec /\ Fairness

-------------------------------------------------------------------------------
(* Properties.                                                             *)

TypeOK ==
    /\ lat \in Jobs /\ state \in States
    /\ rstate \in {"R_IDLE", "R_ISSUE", "R_BURST"}
    /\ wstate \in {"W_IDLE", "W_AW", "W_DATA", "W_BRESP"}
    /\ bstate \in {"B_IDLE", "B_PREFETCH", "B_RUN", "B_DRAIN"}
    /\ rf_wptr \in 0..(RD_DEPTH - 1) /\ rf_rptr \in 0..(RD_DEPTH - 1)
    /\ wf_wptr \in 0..(WR_DEPTH - 1) /\ wf_rptr \in 0..(WR_DEPTH - 1)
    /\ rf_count \in 0..(CNT_MOD - 1) /\ wf_count \in 0..(CNT_MOD - 1)
    /\ arlen \in 0..(LEN_MOD - 1) /\ awlen \in 0..(LEN_MOD - 1)
    /\ upsets \in 0..MaxUpsets

(* The FIFOs are used without full or empty checks (lines 133-149 and      *)
(* 213-224): the read FIFO never runs dry under stream_ctrl, which cannot  *)
(* be stalled, and neither FIFO overflows or underflows.                   *)
FifoSafe ==
    /\ rd_en => rf_count > 0
    /\ rf_count <= RD_DEPTH /\ wf_count <= WR_DEPTH
    /\ RBeat => rf_count < RD_DEPTH
    /\ wr_en => wf_count < WR_DEPTH
    /\ wvalid => wf_count > 0

\* The result of the latched command, row k.
Expected(k) == <<[i \in 0..(N - 1) |-> (lat.w + i) % ADDR_MOD], (lat.a + k) % ADDR_MOD>>

(* When done pulses, every result row of the command is in memory, at its  *)
(* address and computed from its own operands, whatever the four channels  *)
(* stalled and however the rows were cut into bursts: the replay order     *)
(* claim of the header (lines 11-15).  If the memory has refused a burst,  *)
(* done comes all the same, but bresp_err tells (line 258): no row is      *)
(* missing unnoticed, and no error is made up.                             *)
WrittenOrFlagged ==
    /\ bdone /\ ~bresp_err =>
           \A k \in 0..(lat.m - 1) : wmem[(lat.c + k) % ADDR_MOD] = Expected(k)
    /\ bresp_err => upsets > 0

(* A finished command leaves nothing behind that the next one could trip   *)
(* over: FIFOs empty, engines and both channels idle, although only bstate *)
(* decides busy.                                                           *)
IdleIsClean ==
    ~bridge_busy => /\ rstate = "R_IDLE" /\ wstate = "W_IDLE" /\ state = "S_IDLE"
                    /\ rf_count = 0 /\ wf_count = 0
                    /\ ~arvalid /\ ~rvalid /\ ~awvalid /\ ~wvalid /\ ~bvalid
                    /\ ar_state = "AR_IDLE" /\ aw_state = "AW_IDLE"

(* One transaction at most is outstanding per port (lines 3-5), and WLAST  *)
(* marks beat AWLEN (sim/axi/axi_protocol_check.sv:33-45).                 *)
OneBurstAtATime ==
    /\ arvalid => ar_state = "AR_IDLE" /\ ~rvalid
    /\ awvalid => aw_state = "AW_IDLE" /\ ~wvalid /\ ~bvalid
    /\ wvalid => aw_state = "AW_DATA" /\ (wlast <=> aw_beat = aw_len_r)
    /\ rvalid => rstate = "R_BURST"

(* A burst stays inside the region it was issued for: read bursts inside   *)
(* the weight rows or inside the activation rows, never across the end of  *)
(* one, write bursts inside the result rows.                               *)
BurstInRegion ==
    /\ arvalid => \/ \E i \in 0..(N - 1) :
                        araddr = (lat.w + i) % ADDR_MOD /\ i + arlen < N
                  \/ \E i \in 0..(lat.m - 1) :
                        araddr = (lat.a + i) % ADDR_MOD /\ i + arlen < lat.m
    /\ awvalid => \E i \in 0..(lat.m - 1) :
                        awaddr = (lat.c + i) % ADDR_MOD /\ i + awlen < lat.m

(* AXI: a request is held, unchanged, until its handshake; write data too  *)
(* (sim/axi/axi_protocol_check.sv:13-17).                                  *)
RequestsHeld ==
    [][\/ Reset
       \/ /\ arvalid /\ ar_state' = "AR_IDLE" => arvalid' /\ UNCHANGED <<araddr, arlen>>
          /\ awvalid /\ aw_state' = "AW_IDLE" => awvalid' /\ UNCHANGED <<awaddr, awlen>>
          /\ wvalid /\ aw_state' = "AW_DATA" /\ aw_beat' = aw_beat
               => wvalid' /\ UNCHANGED <<wdata, wlast>>]_vars

(* The bridge keeps the start/busy/done contract of the command queue.     *)
ImplementsDatapath == DP!Spec

(* Every command the bridge accepts finishes, under any finite stalling.   *)
CommandCompletes == DP!Completes
===============================================================================
