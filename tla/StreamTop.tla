------------------------------- MODULE StreamTop ------------------------------
(***************************************************************************)
(* rtl/stream_top.sv: stream_ctrl, the systolic array (SystolicArray), the *)
(* read RAM and the result RAM (rtl/sim_ram.sv).  Every step is one clock  *)
(* edge of all of them.                                                    *)
(*                                                                         *)
(* A word of the read RAM is named by its address, and lane j of that word *)
(* is the element <<address, j>>; sums are as in SystolicArray.            *)
(***************************************************************************)
EXTENDS StreamCtrl, Sequences

CONSTANT Jobs       \* the commands: records [w, a, c, m]

ASSUME JobsAssumption ==
    \A j \in Jobs : /\ {j.w, j.a, j.c} \subseteq 0..(ADDR_MOD - 1)
                    /\ j.m \in 0..(CNT_MOD - 2 * N)

VARIABLES rd_data,     \* registered output of the read RAM: a word address
          weight_buf,  \* the N weight rows loaded so far
          weight, act, psum,  \* the array's registers
          row_skew,    \* row_skew[r]: the r delay registers of lane r
          col_skew,    \* col_skew[c]: the N-1-c delay registers of column c
          cram         \* the result RAM: a row of N sums per address

INSTANCE SystolicArray

skewVars == <<row_skew, col_skew>>
vars == <<fsmVars, rd_data, weight_buf, weight, act, psum, skewVars, cram>>

NoWord == -1           \* a register that was never written
Elt(word, j) == <<word, j>>

DP == INSTANCE Datapath

-------------------------------------------------------------------------------
(* Combinational wiring.                                                   *)

act_push(r) == IF push_valid THEN Elt(rd_data, r) ELSE ZeroElt

\* Lane r enters the array r cycles late.
act_skewed(r) == IF r = 0 THEN act_push(0) ELSE row_skew[r][r]

\* Column c is delayed by N-1-c so that a row's columns line up.
psum_aligned(c) == IF c = N - 1 THEN psum_out(c) ELSE col_skew[c][N - 1 - c]
wr_data == [c \in Lane |-> psum_aligned(c)]

\* A shift register moves one place, taking x in.
Shift(reg, x) == [i \in DOMAIN reg |-> IF i = 1 THEN x ELSE reg[i - 1]]

-------------------------------------------------------------------------------
(* Registers, on every edge.                                               *)

ArrayEdge ==
    PeEdge(weight_load, [r \in Lane |-> [c \in Lane |-> Elt(weight_buf[r], c)]],
           [r \in Lane |-> act_skewed(r)])

\* Both sets of delay registers move in S_STREAM only.
SkewEdge ==
    IF state = "S_STREAM"
    THEN /\ row_skew' = [r \in Lane |-> Shift(row_skew[r], act_push(r))]
         /\ col_skew' = [c \in Lane |-> Shift(col_skew[c], psum_out(c))]
    ELSE UNCHANGED skewVars

RamEdge ==
    /\ rd_data' = IF rd_en THEN rd_addr ELSE rd_data
    /\ cram' = IF wr_en THEN [cram EXCEPT ![wr_addr] = wr_data] ELSE cram

WeightBufEdge ==
    weight_buf' = IF state = "S_LOAD_DATA" THEN [weight_buf EXCEPT ![li] = rd_data]
                                           ELSE weight_buf

Clock(start, job) ==
    /\ FsmEdge(start, job)
    /\ ArrayEdge /\ SkewEdge /\ RamEdge /\ WeightBufEdge

ZeroRowSkew == [r \in Lane |-> [i \in 1..r |-> ZeroElt]]
ZeroColSkew == [c \in Lane |-> [i \in 1..(N - 1 - c) |-> <<>>]]

\* An edge with rst high.  Neither RAM, rd_data nor weight_buf has a reset,
\* and the RAM ports keep working.
Reset ==
    /\ FsmReset
    /\ PeReset
    /\ row_skew' = ZeroRowSkew /\ col_skew' = ZeroColSkew
    /\ RamEdge
    /\ UNCHANGED weight_buf

Init ==
    /\ \E j \in Jobs : FsmInit(j)
    /\ rd_data = NoWord /\ weight_buf = [r \in Lane |-> NoWord]
    /\ ArrayInit
    /\ row_skew = ZeroRowSkew /\ col_skew = ZeroColSkew
    /\ cram = [a \in 0..(ADDR_MOD - 1) |-> [c \in Lane |-> <<>>]]

Next == \/ \E start \in BOOLEAN, job \in Jobs : Clock(start, job)
        \/ Reset

Spec == Init /\ [][Next]_vars

(* The clock runs; nothing else is needed for a command to finish.         *)
FairSpec == Spec /\ WF_vars(\E start \in BOOLEAN, job \in Jobs : Clock(start, job))

-------------------------------------------------------------------------------
(* Properties.                                                             *)

\* Row k of the product: column c sums A[k][r] * W[r][c] over r.
Expected(k) ==
    [c \in Lane |-> [r \in 1..N |-> <<Elt((job_r.a + k) % ADDR_MOD, r - 1),
                                      Elt((job_r.w + r - 1) % ADDR_MOD, c)>>]]

(* Whenever the write strobe is up, the de-skewed columns are exactly the  *)
(* row of A @ W that belongs at that address: the timing derivation in the *)
(* comment at stream_ctrl.sv:9-13, for back-to-back commands and whatever  *)
(* the previous command left in the pipeline.                              *)
WriteIsProduct == wr_en => wr_data = Expected(cyc - Latency)

(* When done pulses, the whole product is in the result RAM: no row was    *)
(* skipped, duplicated or still in the pipeline (stream_ctrl.sv:51,157).   *)
DoneMeansWritten ==
    done => \A k \in 0..(job_r.m - 1) : cram[(job_r.c + k) % ADDR_MOD] = Expected(k)

(* Outside S_STREAM nothing of a finished command is left in the skew      *)
(* registers, the PEs or the de-skew registers, although the PEs are       *)
(* clocked all the time and the skew registers freeze: the next command    *)
(* starts from a clean pipeline (stream_ctrl.sv:94,122).                   *)
Drained ==
    state # "S_STREAM" =>
        /\ \A r \in Lane : \A i \in 1..r : row_skew[r][i] = ZeroElt
        /\ \A c \in Lane : \A i \in 1..(N - 1 - c) : col_skew[c][i] = <<>>
        /\ \A r, c \in Lane : act[r][c] = ZeroElt /\ psum[r][c] = <<>>

(* stream_top keeps the start/busy/done contract the command queue relies  *)
(* on.                                                                     *)
ImplementsDatapath == DP!Spec

(* Every accepted command ends, m_rows = 0 included.                       *)
CommandCompletes == DP!Completes
===============================================================================
