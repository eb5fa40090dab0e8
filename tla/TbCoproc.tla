-------------------------------- MODULE TbCoproc ------------------------------
(***************************************************************************)
(* The register-level test programs sim/mmio/tb_mmio.cpp (coproc_mmio_top) *)
(* and sim/coproc_axi/tb_coproc_axi.cpp (coproc_axi_top) over the register *)
(* block of CoprocHost.  Unlike the hosts, the programs count edges: every *)
(* access is exactly one, and what they check depends on how long commands *)
(* take, so the datapath is timed here.                                    *)
(*                                                                         *)
(* A program is a sequence of operations <<kind, ...>>; regions are named  *)
(* 0 to 3, the data loaded into one is named by the step that loads it.    *)
(* A behaviour with pc # "tb" is one of CoprocBackend.                     *)
(***************************************************************************)
EXTENDS CoprocBackend, SequencesExt

CONSTANTS N,         \* the array is N by N
          Slack,     \* bound: cycles the AXI memory may add to a command
          RandRows   \* row counts the program may draw: 1 + rand_u32() % 64

\* The row counts are values, and done_count does not come round within a test.
ASSUME TbAssumption ==
    /\ N \in Nat \ {0} /\ Slack \in Nat /\ RandRows \subseteq 1..64
    /\ {1, 2, 3, 5, 6, 200, 255, 500} \cup RandRows \subseteq Val /\ DC_MOD > 11

VARIABLES top,        \* which top is simulated: "mmio" or "axi"
          step,       \* position in its program
          elapsed,    \* cycles the running command has taken
          status,     \* the last STATUS the program read
          dc_before,  \* the done_count it remembered
          cycles,     \* iterations of the current wait loop
          want,       \* by result region: what golden() computed for it
          all_pass

tbVars == <<top, step, elapsed, status, dc_before, cycles, want, all_pass>>
allVars == <<vars, tbVars>>

-------------------------------------------------------------------------------
(* The programs.                                                           *)

\* One row count for m, or several of which the program draws one.
Enqueue(w, a, c, ms) ==
    << <<"store", "w", {w}>>, <<"store", "a", {a}>>, <<"store", "c", {c}>>,
       <<"store", "m", ms>>, <<"cmd">> >>

FourBackToBack(timeout) ==
    LET ms == <<3, 5, 2, 6>>
    IN  [i \in 1..4 |-> <<"load", i - 1>>]
        \o FlattenSeq([i \in 1..4 |-> Enqueue(i - 1, i - 1, i - 1, {ms[i]})])
        \o << <<"status">>, <<"poll", timeout>>, <<"advanced", 4>> >>
        \o [i \in 1..4 |-> <<"check", i - 1>>]

\* Load, issue, wait and compare one command.
RunOne(c, ms, timeout) ==
    << <<"load", 0>> >> \o Enqueue(0, 0, c, ms)
    \o << <<"poll", timeout>>, <<"check", c>> >>

Boundary ==
    FlattenSeq([t \in 1..2 |->
        LET m == <<1, 255>>[t] IN RunOne(t - 1, {m}, 3 * m + 20000)])

\* The sixth command is the one the comments call the fifth.
QueueFull(m, timeout) ==
    << <<"load", 0>> >> \o Enqueue(0, 0, 0, {m})
    \o FlattenSeq([i \in 1..4 |-> Enqueue(0, 0, 0, {1})])
    \o << <<"status">>, <<"full">>, <<"save">> >> \o Enqueue(0, 0, 0, {1})
    \o << <<"status">>, <<"full">>, <<"poll", timeout>>, <<"advanced", 5>> >>

Interrupt(timeout) ==
    << <<"write_irq">>, <<"read_irq", BOOLEAN>>, <<"load", 0>> >>
    \o Enqueue(0, 0, 0, {2})
    \o << <<"wait_irq", timeout>>, <<"read_irq", {TRUE}>>, <<"write_irq">>,
          <<"tick">>, <<"irq_low">>, <<"read_irq", {FALSE}>> >>

\* Twenty commands that reuse three result regions; of the timeouts
\* 3 * m + 20000 the shortest.
Overlapping ==
    FlattenSeq([i \in 1..20 |-> RunOne((i - 1) % 3, RandRows, 20003)])

PowerUp == << <<"rst">>, <<"rst">>, <<"tick">>, <<"tick">> >>

MmioProgram == PowerUp \o FourBackToBack(5000) \o QueueFull(500, 5000)
               \o Interrupt(500)

AxiProgram == PowerUp \o FourBackToBack(200000) \o Boundary
              \o QueueFull(200, 200000) \o Interrupt(5000) \o Overlapping

Program == [mmio |-> MmioProgram, axi |-> AxiProgram]

-------------------------------------------------------------------------------
(* One operation.                                                          *)

op == Program[top][step]
At(kind) == pc = "tb" /\ op[1] = kind
Advance == /\ step' = step + 1 /\ cycles' = 0
           /\ pc' = IF step = Len(Program[top]) THEN "tb_end" ELSE pc

Pass(holds) == all_pass' = (all_pass /\ holds)

\* stream_ctrl takes m + 4N + 2 cycles (TbStream!CyclesAsDerived); the bridge
\* in front of it adds what the memory makes it wait.
Latency == cmd.m + 4 * N + 1
MaxLatency == Latency + (IF top = "axi" THEN Slack ELSE 0)

Timed ==
    /\ elapsed' = IF busy THEN elapsed + 1 ELSE 0
    /\ TakesTime(elapsed, Latency, MaxLatency)

NoAccess == Edge /\ Timed /\ UNCHANGED <<w_buf, a_buf, progVars, top>>

\* An edge with rst high.
ResetTick ==
    /\ At("rst") /\ Advance
    /\ Regs!Reset /\ elapsed' = 0
    /\ UNCHANGED <<bufVars, progVars, top, status, dc_before, want, all_pass>>

PlainTick ==
    /\ At("tick") /\ Advance
    /\ NoAccess /\ UNCHANGED <<status, dc_before, want, all_pass>>

\* load_row_i8 pokes the RAM model; no edge.
Load ==
    /\ At("load") /\ Advance
    /\ w_buf' = [w_buf EXCEPT ![op[2]] = <<step>>]
    /\ a_buf' = [a_buf EXCEPT ![op[2]] = <<step>>]
    /\ UNCHANGED <<regVars, c_buf, progVars, top, elapsed, status, dc_before,
                   want, all_pass>>

MmioWrite ==
    /\ At("store") /\ Advance
    /\ \E v \in op[3] : Store(op[2], v)
    /\ Timed
    /\ UNCHANGED <<w_buf, a_buf, progVars, top, status, dc_before, want, all_pass>>

\* The command store; golden() has computed what it should leave behind.
MmioCommand ==
    /\ At("cmd") /\ Advance
    /\ Regs!WriteCmd /\ ResultEdge /\ Timed
    /\ want' = [want EXCEPT ![hold.c] = <<w_buf[hold.w], a_buf[hold.a], hold.m>>]
    /\ UNCHANGED <<w_buf, a_buf, progVars, top, status, dc_before, all_pass>>

\* REG_IRQ <- 3: enable and clear pending.
MmioWriteIrq ==
    /\ At("write_irq") /\ Advance
    /\ Regs!WriteIrq(TRUE, TRUE) /\ ResultEdge /\ Timed
    /\ UNCHANGED <<w_buf, a_buf, progVars, top, status, dc_before, want, all_pass>>

ReadIrq ==
    /\ At("read_irq") /\ Advance
    /\ Pass(irq_pending \in op[2])
    /\ NoAccess /\ UNCHANGED <<status, dc_before, want>>

\* A load answers before its edge.
ReadStatus ==
    /\ At("status") /\ Advance
    /\ status' = Regs!Status
    /\ NoAccess /\ UNCHANGED <<dc_before, want, all_pass>>

drained == status'.qempty /\ ~status'.busy

\* poll_drained: read until drained or out of patience.
PollDrained ==
    /\ At("poll")
    /\ status' = Regs!Status
    /\ IF drained \/ cycles + 1 >= op[2]
       THEN Advance /\ Pass(drained)
       ELSE cycles' = cycles + 1 /\ UNCHANGED <<step, pc, all_pass>>
    /\ NoAccess /\ UNCHANGED <<dc_before, want>>

\* The loop on the pin looks before it ticks.
WaitIrq ==
    /\ At("wait_irq")
    /\ IF Regs!irq \/ cycles >= op[2]
       THEN /\ Advance /\ Pass(Regs!irq)
            /\ UNCHANGED <<vars, top, elapsed>>
       ELSE /\ cycles' = cycles + 1 /\ UNCHANGED <<step, pc, all_pass>>
            /\ NoAccess
    /\ UNCHANGED <<status, dc_before, want>>

IrqLow ==
    /\ At("irq_low") /\ Advance /\ Pass(~Regs!irq)
    /\ UNCHANGED <<regVars, bufVars, progVars, top, elapsed, status, dc_before, want>>

\* The checks on the last STATUS and on the result RAM take no edge.
Verify ==
    /\ \/ At("full") /\ Pass(status.qfull)
       \/ At("advanced") /\ Pass(status.done_count - dc_before = op[2])
       \/ At("check") /\ Pass(c_buf[op[2]] = want[op[2]])
    /\ Advance
    /\ UNCHANGED <<regVars, bufVars, progVars, top, elapsed, status, dc_before, want>>

Save ==
    /\ At("save") /\ Advance
    /\ dc_before' = status.done_count
    /\ UNCHANGED <<regVars, bufVars, progVars, top, elapsed, status, want, all_pass>>

-------------------------------------------------------------------------------
TbInit ==
    /\ \/ Init
       \/ HostInit /\ pc = "tb" /\ call = 0 /\ batch = 0 /\ slot = 0 /\ Ct = <<>>
    /\ top \in (IF pc = "tb" THEN {"mmio", "axi"} ELSE {"axi"})
    /\ step = 1 /\ elapsed = 0 /\ status = Regs!Status /\ dc_before = 0 /\ cycles = 0
    /\ want = [s \in Slot |-> NoToken] /\ all_pass = TRUE

TbStep ==
    \/ ResetTick \/ PlainTick \/ Load
    \/ MmioWrite \/ MmioCommand \/ MmioWriteIrq \/ ReadIrq
    \/ ReadStatus \/ PollDrained \/ WaitIrq \/ IrqLow \/ Verify \/ Save

Backend == pc \notin {"tb", "tb_end"} /\ UNCHANGED tbVars

TbNext == TbStep \/ (Backend /\ Next)

TbSpec == TbInit /\ [][TbNext]_allVars

(* A simulation goes on.  For the host: the clock runs, the datapath       *)
(* finishes, and the host keeps going; STATUS shows idle continuously once *)
(* everything has retired, so weak fairness of the poll loop is enough.    *)
TbFairSpec ==
    /\ TbSpec
    /\ WF_allVars(TbStep)
    /\ WF_allVars(Backend /\ Next) /\ WF_allVars(Backend /\ Drive)
    /\ WF_allVars(Backend /\ Next /\ Regs!DP!Finish)

-------------------------------------------------------------------------------
(* Properties.                                                             *)

(* The programs' own verdict: on either top every check passes, whatever   *)
(* time commands take within the bounds: the queue fills behind a long     *)
(* command and drops the store it has no room for, done_count accounts for *)
(* exactly the accepted ones, the interrupt comes and goes, and a reused   *)
(* result region holds the latest result (tb_mmio.cpp:243,                 *)
(* tb_coproc_axi.cpp:356).                                                 *)
AllPass == all_pass

(* run_tile returns for every tile, if the datapath finishes every         *)
(* command, and the test programs come to their end.                       *)
ProgramsEnd == <>(pc = "tb_end" \/ (pc = "call_end" /\ call = Calls))
===============================================================================
