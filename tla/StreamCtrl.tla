------------------------------ MODULE StreamCtrl ------------------------------
(***************************************************************************)
(* The sequencer of rtl/stream_ctrl.sv: its state machine, the strobes of  *)
(* its read and write ports and their addresses.  The skew registers and   *)
(* the array it feeds are in StreamTop; DmaBridge puts FIFOs and AXI ports *)
(* around the same sequencer.                                              *)
(***************************************************************************)
EXTENDS Integers

CONSTANTS N,         \* rows and columns of the systolic array
          ADDR_MOD,  \* addresses are taken modulo this (2^ADDR_W)
          CNT_MOD    \* cyc and m_rows are counted modulo this (2^32)

ASSUME StreamAssumption ==
    /\ N \in Nat \ {0}
    /\ ADDR_MOD \in Nat /\ ADDR_MOD >= N
    /\ CNT_MOD \in Nat /\ CNT_MOD > 2 * N

VARIABLES state, li, cyc, done,
          job_r      \* w_base_r, a_base_r, c_base_r, m_rows_r

fsmVars == <<state, li, cyc, done, job_r>>

States == {"S_IDLE", "S_LOAD_ADDR", "S_LOAD_DATA", "S_LOAD_PULSE",
           "S_PREFETCH", "S_STREAM", "S_DONE"}

Latency == 2 * N - 1  \* cycles from pushing a row to writing its result

total_cycles_Short == (job_r.m + Latency - 1) % CNT_MOD

total_cycles == (job_r.m + Latency) % CNT_MOD

busy == state # "S_IDLE"
weight_load == state = "S_LOAD_PULSE"
push_valid == state = "S_STREAM" /\ cyc < job_r.m

rd_en == \/ state \in {"S_LOAD_ADDR", "S_PREFETCH"}
         \/ state = "S_STREAM" /\ (cyc + 1) % CNT_MOD < job_r.m

rd_addr == CASE state = "S_LOAD_ADDR" -> (job_r.w + li) % ADDR_MOD
             [] state = "S_PREFETCH"  -> job_r.a
             [] state = "S_STREAM"    -> (job_r.a + cyc + 1) % ADDR_MOD
             [] OTHER                 -> 0

wr_en == state = "S_STREAM" /\ cyc >= Latency /\ cyc - Latency < job_r.m
wr_addr == (job_r.c + cyc - Latency) % ADDR_MOD

-------------------------------------------------------------------------------
(* The state machine: one action per state, each one clock edge.           *)

\* start is sampled in S_IDLE only.
Idle(start, job) ==
    /\ state = "S_IDLE"
    /\ state' = IF start THEN "S_LOAD_ADDR" ELSE "S_IDLE"
    /\ job_r' = IF start THEN job ELSE job_r
    /\ li' = IF start THEN 0 ELSE li
    /\ done' = FALSE
    /\ UNCHANGED cyc

LoadAddr ==
    /\ state = "S_LOAD_ADDR" /\ state' = "S_LOAD_DATA"
    /\ done' = FALSE /\ UNCHANGED <<li, cyc, job_r>>

LoadData_OneMore ==
    /\ state = "S_LOAD_DATA"
    /\ IF li = N
       THEN state' = "S_LOAD_PULSE" /\ li' = li
       ELSE state' = "S_LOAD_ADDR" /\ li' = (li + 1) % ADDR_MOD
    /\ done' = FALSE /\ UNCHANGED <<cyc, job_r>>

LoadData_NoIncrement ==
    /\ state = "S_LOAD_DATA"
    /\ state' = IF li = N - 1 THEN "S_LOAD_PULSE" ELSE "S_LOAD_ADDR"
    /\ done' = FALSE /\ UNCHANGED <<li, cyc, job_r>>

\* rd_data holds weight row li in this cycle.
LoadData ==
    /\ state = "S_LOAD_DATA"
    /\ IF li = N - 1
       THEN state' = "S_LOAD_PULSE" /\ li' = li
       ELSE state' = "S_LOAD_ADDR" /\ li' = (li + 1) % ADDR_MOD
    /\ done' = FALSE /\ UNCHANGED <<cyc, job_r>>

LoadPulse ==
    /\ state = "S_LOAD_PULSE" /\ state' = "S_PREFETCH"
    /\ done' = FALSE /\ UNCHANGED <<li, cyc, job_r>>

Prefetch ==
    /\ state = "S_PREFETCH" /\ state' = "S_STREAM" /\ cyc' = 0
    /\ done' = FALSE /\ UNCHANGED <<li, job_r>>

Stream_DoneEarly ==
    /\ state = "S_STREAM"
    /\ IF cyc = (total_cycles - 1) % CNT_MOD
       THEN state' = "S_DONE" /\ cyc' = cyc /\ done' = TRUE
       ELSE state' = "S_STREAM" /\ cyc' = (cyc + 1) % CNT_MOD /\ done' = FALSE
    /\ UNCHANGED <<li, job_r>>

Stream ==
    /\ state = "S_STREAM"
    /\ IF cyc = (total_cycles - 1) % CNT_MOD
       THEN state' = "S_DONE" /\ cyc' = cyc
       ELSE state' = "S_STREAM" /\ cyc' = (cyc + 1) % CNT_MOD
    /\ done' = FALSE /\ UNCHANGED <<li, job_r>>

Finish ==
    /\ state = "S_DONE" /\ state' = "S_IDLE"
    /\ done' = TRUE /\ UNCHANGED <<li, cyc, job_r>>

FsmEdge(start, job) ==
    \/ Idle(start, job) \/ LoadAddr \/ LoadData \/ LoadPulse
    \/ Prefetch \/ Stream \/ Finish

\* rst: the latched command is not reset.
FsmReset ==
    /\ state' = "S_IDLE" /\ li' = 0 /\ cyc' = 0 /\ done' = FALSE
    /\ UNCHANGED job_r

FsmInit(job) ==
    /\ state = "S_IDLE" /\ li = 0 /\ cyc = 0 /\ done = FALSE
    /\ job_r = job
===============================================================================
