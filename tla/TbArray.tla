-------------------------------- MODULE TbArray --------------------------------
(***************************************************************************)
(* The test programs that drive the bare array: sim/tb_main.cpp (cases     *)
(* against golden vectors), sim/perf/tb_perf.cpp with metrics.h (the same  *)
(* with performance counters), sim/power/tb_power.cpp (gated and plain     *)
(* array against a software model) and sim/sva/tb_sva.cpp (random inputs). *)
(* They share one model of the array, PeArrayCg, in which the plain and    *)
(* the gated array run side by side; a program that knows only one of them *)
(* drives both.                                                            *)
(*                                                                         *)
(* Row m of an activation matrix is <<m>> (the array row is part of the    *)
(* product), a weight matrix is the number of its case.  One step is one   *)
(* tick() of the clock with what the program does before and after it.     *)
(***************************************************************************)
EXTENDS PeArrayCg, FiniteSets

CONSTANTS MaxM,     \* bound: rows of a case
          SvaActs   \* activation vectors of the random test

ASSUME TbAssumption == MaxM \in Nat \ {0} /\ SvaActs \subseteq [Lane -> Act \cup {Zero}]

VARIABLES bench,           \* which program runs
          pc,              \* its next tick
          M, gen,          \* rows and weights of the case; tb_power: M rows are valid
          n,               \* ticks streamed
          psum_hist,       \* tb_main: the outputs after each tick
          got,             \* tb_perf: the de-skewed outputs, unset is <<"no">>
          perf,            \* PerfCounters: cycles_, valid_pe_sum_
          soft             \* tb_power: SoftArray

progVars == <<bench, M, gen, psum_hist, got, perf, soft>>
tbVars == <<pc, n, progVars>>
allVars == <<vars, tbVars>>

Unset == <<"no">>
ZeroActs == [r \in Lane |-> Zero]
AllValid == [r \in Lane |-> TRUE]
psum_out(c) == ref_psum[N - 1][c]

Edge(in) == GatedEdge(in) /\ PlainEdge(in)

\* Row k of A @ W at column c.
golden(k) == [r \in 1..N |-> <<r - 1, <<k>>, gen>>]

-------------------------------------------------------------------------------
(* tb_main and tb_perf: reset, load, stream M rows.                        *)

total_ticks_Short == M + 2 * N - 3

total_ticks == M + 2 * N - 2

\* Lane r gets row i - r in tick i.
set_act(i) == [r \in Lane |-> IF i - r \in 0..(M - 1) THEN <<i - r>> ELSE Zero]

valid_pes_Late(t) == Cardinality({p \in Lane \X Lane : t - p[2] - p[1] \in 0..(M - 1)})

\* The PEs that hold a real activation after tick t, counted from 1.
valid_pes(t) == Cardinality({p \in Lane \X Lane : t - p[2] - p[1] - 1 \in 0..(M - 1)})

begin_op == perf' = [cycles |-> 0, valid_pe_sum |-> 0]
perf_tick(v) == perf' = [cycles |-> perf.cycles + 1, valid_pe_sum |-> perf.valid_pe_sum + v]

\* A case begins: the counters and the captured rows are empty.
ResetTick ==
    /\ pc = "reset" /\ pc' = "load"
    /\ Clear /\ UNCHANGED row_valid
    /\ n' = 0 /\ psum_hist' = <<>> /\ begin_op
    /\ got' = [m \in 0..(M - 1) |-> [c \in Lane |-> Unset]]
    /\ UNCHANGED <<bench, M, gen, soft>>

\* The reload scenario counts this tick, with no valid PE.
LoadTick ==
    /\ pc = "load" /\ pc' = "stream"
    /\ Edge(ZeroActs) /\ weight' = gen /\ UNCHANGED row_valid
    /\ IF bench = "perf_reload" THEN perf_tick(0) ELSE UNCHANGED perf
    /\ UNCHANGED <<n, bench, M, gen, psum_hist, got, soft>>

\* tb_main keeps every output, tb_perf picks each row's outputs as they come.
MainSample ==
    /\ psum_hist' = Append(psum_hist, [c \in Lane |-> psum_out(c)'])
    /\ UNCHANGED <<got, perf>>

PerfSample ==
    /\ perf_tick(valid_pes(n + 1))
    /\ got' = [m \in DOMAIN got |-> [c \in Lane |->
                  IF m = n + 1 - N - c THEN psum_out(c)' ELSE got[m][c]]]
    /\ UNCHANGED psum_hist

StreamTick ==
    /\ pc = "stream" /\ pc' = IF n + 1 < total_ticks THEN "stream" ELSE "verify"
    /\ Edge(set_act(n)) /\ UNCHANGED <<weight, row_valid>>
    /\ n' = n + 1
    /\ IF bench = "main" THEN MainSample ELSE PerfSample
    /\ UNCHANGED <<bench, M, gen, soft>>

\* The next case: other weights, any number of rows, the same array.
NextCase ==
    /\ pc = "verify" /\ pc' = "reset"
    /\ M' \in 1..MaxM /\ gen' = <<1 - gen[1]>>
    /\ UNCHANGED <<vars, n, bench, psum_hist, got, perf, soft>>

\* compute_perf.
ideal_macs == M * N * N

-------------------------------------------------------------------------------
(* tb_power.                                                               *)

tail_valid_rows(m) == ((m - 1) % N) + 1

AtLeastOne(x) == IF x < 1 THEN 1 ELSE x

\* dense, idle50, idle90, tailpad_m5: how many of the first rows are valid.
build_scenarios == {N, AtLeastOne(N \div 2), AtLeastOne(N \div 10), tail_valid_rows(5)}

RowsValid(k) == [r \in Lane |-> r < k]

NewSoft == [act |-> Grid(Zero), valid |-> Grid(FALSE), psum |-> Grid(<<>>)]

\* SoftArray::step.  Its weights are those of the case from the start.
SoftStep(s, act_in_, valid_in_) ==
    LET a(r, c) == IF c = 0 THEN act_in_[r] ELSE s.act[r][c - 1]
        v(r, c) == IF c = 0 THEN valid_in_[r] ELSE s.valid[r][c - 1]
        p(r, c) == IF r = 0 THEN <<>> ELSE s.psum[r - 1][c]
        Each(f(_, _)) == [r \in Lane |-> [c \in Lane |-> f(r, c)]]
        NewAct(r, c) == IF v(r, c) THEN a(r, c) ELSE s.act[r][c]
        NewValid(r, c) == v(r, c) \/ s.valid[r][c]
        NewPsum(r, c) == IF v(r, c) THEN Mac(p(r, c), r, a(r, c), gen) ELSE p(r, c)
    IN  [act |-> Each(NewAct), valid |-> Each(NewValid), psum |-> Each(NewPsum)]

\* Three edges with rst high, n counts them; the oracle is cleared too.
PowerReset ==
    /\ pc = "power_reset" /\ pc' = IF n = 2 THEN "power_load" ELSE "power_reset"
    /\ Clear /\ UNCHANGED row_valid
    /\ n' = n + 1 /\ soft' = NewSoft
    /\ UNCHANGED <<bench, M, gen, psum_hist, got, perf>>

\* No row is valid and no activation driven yet; the oracle is not stepped.
PowerLoad ==
    /\ pc = "power_load" /\ pc' = "power_run"
    /\ Edge(ZeroActs) /\ weight' = gen /\ row_valid' = RowsValid(M)
    /\ UNCHANGED <<n, progVars>>

\* One cycle of a scenario: every row sees data, valid or not.
PowerRun ==
    /\ pc = "power_run" /\ UNCHANGED pc
    /\ \E in \in [Lane -> Act] :
           /\ Edge(in) /\ UNCHANGED <<weight, row_valid>>
           /\ soft' = SoftStep(soft, in, row_valid)
    /\ UNCHANGED <<n, bench, M, gen, psum_hist, got, perf>>

-------------------------------------------------------------------------------
(* tb_sva: reset and weight_load at any time, random data on all inputs.   *)
(* The rows the gated array takes for valid are chosen at a reset.         *)

SvaReset ==
    /\ pc \in {"sva_reset", "sva_run"} /\ pc' = "sva_run"
    /\ Clear /\ row_valid' \in [Lane -> BOOLEAN]
    /\ UNCHANGED <<n, progVars>>

SvaRun ==
    /\ pc = "sva_run" /\ UNCHANGED <<pc, row_valid>>
    /\ \E in \in SvaActs : Edge(in)
    /\ weight' \in {weight} \cup Gen
    /\ UNCHANGED <<n, progVars>>

-------------------------------------------------------------------------------
FirstPc(b) == CASE b = "power" -> "power_reset"
                [] b = "sva"   -> "sva_reset"
                [] OTHER       -> "reset"

\* A new model of the array: registers are zero before the first reset.
TbInit ==
    /\ weight = Zero
    /\ act = Grid(Zero) /\ valid = Grid(FALSE) /\ psum = Grid(<<>>)
    /\ ref_act = Grid(Zero) /\ ref_psum = Grid(<<>>)
    /\ bench \in {"main", "perf", "perf_reload", "power", "sva"} /\ pc = FirstPc(bench)
    /\ gen = <<0>> /\ n = 0
    /\ M \in CASE bench = "power" -> build_scenarios
               [] bench = "sva"   -> {0}
               [] OTHER           -> 1..MaxM
    /\ row_valid = IF bench \in {"power", "sva"} THEN RowsValid(0) ELSE AllValid
    /\ psum_hist = <<>> /\ got = <<>> /\ soft = NewSoft
    /\ perf = [cycles |-> 0, valid_pe_sum |-> 0]

TbNext == \/ ResetTick \/ LoadTick \/ StreamTick \/ NextCase
          \/ PowerReset \/ PowerLoad \/ PowerRun
          \/ SvaReset \/ SvaRun

TbSpec == TbInit /\ [][TbNext]_allVars

-------------------------------------------------------------------------------
(* Properties.                                                             *)

(* The schedule in the headers of tb_main.cpp:5-10 and tb_perf.cpp:4-7: in *)
(* M + 2N - 2 ticks every row of A @ W has left the array, column c of row *)
(* k in tick k + c + N - 1, whatever the case before left behind.          *)
EveryRowCaptured ==
    pc = "verify" =>
        \A k \in 0..(M - 1), c \in Lane :
            IF bench = "main" THEN psum_hist[k + c + N][c] = golden(k)
                              ELSE got[k][c] = golden(k)

(* valid_pes counts "the (r,c) PEs holding a real (non-padding) activation *)
(* this cycle" (metrics.h:40): it is the number of PEs that do, in every   *)
(* tick, so that over the whole operation it adds up to the M * N * N      *)
(* multiplications the utilization is computed from, and the operation     *)
(* takes the cycles the utilization M/(M+2N-2) assumes.                    *)
PerfCountsMacs ==
    bench \in {"perf", "perf_reload"} =>
        /\ pc \in {"stream", "verify"} /\ n > 0 =>
               valid_pes(n) = Cardinality({p \in Lane \X Lane : ref_act[p[1]][p[2]] # Zero})
        /\ pc = "verify" =>
               /\ perf.valid_pe_sum = ideal_macs
               /\ perf.cycles = M + 2 * N - 2 + (IF bench = "perf_reload" THEN 1 ELSE 0)

(* "gated model must match the act_valid-aware software oracle every       *)
(* cycle, every scenario", the plain array in the dense one, although the  *)
(* oracle sees neither the load nor what rst does to the weights           *)
(* (tb_power.cpp:197-222).                                                 *)
OracleAgrees ==
    pc = "power_run" =>
        \A c \in Lane : /\ psum[N - 1][c] = soft.psum[N - 1][c]
                        /\ M = N => psum_out(c) = soft.psum[N - 1][c]
===============================================================================
