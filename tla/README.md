# tensor-accel-coproc: TLA+ models, checks and proofs

The repository is a weight-stationary int8 systolic-array coprocessor (SystemVerilog in
`rtl/`), the drivers that run it (`sw/`, `sched/`) and its testbenches (`sim/`). This
project models the control of all of it that a model checker can reach, cycle by cycle:
the hardware, the two drivers and the tiler, and the test programs that say how each piece
is meant to be used. It proves the register block, both datapaths, the scratchpad, the clock-gated
array, both drivers, the tiled product, the convolution built on it, its rescaling to int8 and the
test programs correct for every value of their parameters.

## 1. The system

| part | source | state | operations |
|---|---|---|---|
| command queue | `rtl/mmio/cmd_queue_regs.sv` | holding registers, depth-4 FIFO, start pulse, command outputs, `done_count`, `irq_en`, `irq_pending` | bus cycles: field store, CMD store, IRQ store, anything else; reset |
| sequencer | `rtl/stream_ctrl.sv` | FSM of 7 states, `li`, `cyc`, latched command, skew and de-skew registers | one clock edge per FSM state; reset |
| array | `rtl/systolic_array.sv`, `rtl/pe.sv` | weight, activation and partial-sum registers | one clock edge |
| stream top | `rtl/stream_top.sv`, `rtl/sim_ram.sv` | two RAMs | one clock edge |
| DMA bridge | `rtl/axi/axi4_dma_bridge.sv` | read and write FIFO, read engine, write engine, top FSM | one clock edge; reset |
| AXI memories | `rtl/axi/axi4_sim_ram.sv`, `rtl/axi/stream_axi_top.sv` | read and write channel, stall LFSR | one clock edge |
| interrupt driver | `sw/coproc_driver.h` | `issued`, `collected`, `base`, slot buffers, C | issue, wait for interrupt, collect |
| polling driver | `sw/coproc_mmio.h`, `sched/coproc_backend.py`, `sched/coproc_runner.cpp` | chunk list, batch, slot buffers | issue a batch, poll STATUS, read back |
| scratchpad | `rtl/scratchpad_dbuf.sv` | two banks, bank bit, read register | write, read, swap in one cycle; reset |
| gated array | `rtl/cg/*.sv` | the array's registers plus `act_valid` | one clock edge, weight load, reset |
| tiler | `sched/tiler.py` | schedule, padded result, cycle total | plan, write a request, read a row, finish a job, close |
| pipe runner | `sched/tile_runner.cpp`, `rtl/top.sv` | request, tick counter, sampled sums | read, reset tick, load tick, stream tick, write |
| tile packing | `sw/coproc_driver.h` | row block, tile, flat result | collect a tile, next row block |
| layer graph | `sched/nn/layers.py`, `sched/nn/quant.py` | patches, feature maps | im2col, convolution, ReLU, max-pooling, flatten |
| requantisation | `sched/mnist/quantize.py`, `sw/int8_mlp.h` | multiplier, shift | normalise, round, rescale, saturate |
| array test programs | `sim/tb_main.cpp`, `sim/perf/`, `sim/power/`, `sim/sva/` | tick counter, captured outputs, performance counters, software oracle | reset, load, stream a row, verify, next case |
| component test programs | `sim/stream/`, `sim/axi/`, `sim/scratchpad/` | cycle count, shadow model | pulse start, wait with timeout, read back, directed and random cycles |
| register-level test programs | `sim/mmio/`, `sim/coproc_axi/` | last STATUS, remembered `done_count`, expected results | a fixed sequence of bus operations and checks |
| full-stack test program | `sim/fullstack/` | counts of interrupts and commands | the four `coproc_ops` of the driver |
| training, physical design | `sched/`, `pd/` | | section 8 |

How they interact. A driver stores the four fields of a command and then CMD; the queue
pops the head when the datapath is idle and pulses `start` one cycle later; the datapath
(`stream_top`, or the DMA bridge around the same sequencer) raises `busy` a cycle after
that and ends with a one-cycle `done`, which a cycle later is counted in `done_count` and
raises `irq_pending`. Drivers learn of completion by polling STATUS or by interrupt. Operands
and results are in memory that driver and datapath share, one buffer per queue slot.

Above the drivers, the layer graph turns each convolution into a matrix product (im2col);
the tiler cuts the product into weight tiles and hands them to a backend: the polling
driver, or a subprocess that runs the bare array behind a pair of pipes. The C library does
the same cutting itself, on flat arrays. Both rescale the sums to int8 with the same
fixed-point multiplier.

What is hard. Nothing here has threads, but everything happens on the same clock edge and
is visible one or two edges late: the hand-over pop / start / busy / done has gaps of a
cycle; four AXI channels stall independently; a reset can come in any cycle; the sequencer
cannot be stalled, so FIFOs without full or empty checks must never run dry; drivers act on
counters that wrap, buffers that are reused every four commands, and one interrupt bit for
any number of completions. In the software, shapes that are no multiple of the tile and three
places that must agree on the order of the axes: nothing fails loudly when they do not.
`PROJECT.json` lists each of these under "hazards", at its line.

## 2. Modules

| module | models | role |
|---|---|---|
| `Datapath` | the start/busy/done contract | abstract specification; both datapaths implement it, the queue assumes it |
| `CommandQueue` | what the queue promises software: a FIFO whose commands each run once, in order, one at a time | abstract specification |
| `CmdQueueRegs` | `cmd_queue_regs.sv` | component; implements `CommandQueue` |
| `StreamCtrl` | the FSM, strobes and addresses of `stream_ctrl.sv` | shared by `StreamTop` and `DmaBridge` |
| `SystolicArray` | `systolic_array.sv`, `pe.sv` with symbolic data | used by `StreamTop` and `TileRunner` |
| `StreamTop` | `stream_top.sv`: skew, array, RAMs around `StreamCtrl` | component; implements `Datapath` |
| `TbStream` | `tb_stream.cpp` | composition test program + `StreamTop` |
| `DmaBridge` | `axi4_dma_bridge.sv` and two `axi4_sim_ram.sv` around `StreamCtrl` (that is, `stream_axi_top.sv`), with memories that may refuse a write burst | component; implements `Datapath` |
| `TbAxi` | `tb_axi.cpp` | composition test program + `DmaBridge` |
| `CoprocHost` | what both drivers share: registers (`INSTANCE CmdQueueRegs`), buffers, issuing a command | |
| `CoprocDriver` | `coproc_matmul_tiled`, once per layer of `int8_mlp_infer` | composition driver + queue |
| `TbFullstack` | `tb_fullstack.cpp` | composition of its `coproc_ops` + `CoprocDriver`, timed |
| `CoprocBackend` | `CoprocBackend.run_tile`, `coproc_wait` | composition driver + queue |
| `TbCoproc` | `tb_mmio.cpp`, `tb_coproc_axi.cpp` | composition test programs + queue, timed; beside `CoprocBackend` |
| `PingPong`, `ScratchpadDbuf` | `scratchpad_dbuf.sv` | abstract frame exchange, component |
| `TbScratchpad` | `tb_scratchpad.cpp` with its shadow model | composition test program + `ScratchpadDbuf` |
| `PeArrayCg` | `systolic_array_cg.sv` beside `systolic_array.sv` | component and reference in lock step |
| `TbArray` | `tb_main.cpp`, `tb_perf.cpp`, `metrics.h`, `tb_power.cpp`, `tb_sva.cpp` | composition test programs + `PeArrayCg` |
| `TileRunner` | `tile_runner.cpp` and `top.sv`: requests, software skew, sampling | component |
| `Tiler` | `tiler.py` at the other end of the pipes, and the packing loops of `coproc_driver.h` | composition tiler + runner + array |
| `Requant` | `quantize_multiplier`, `apply_requant`, `int8_mlp_requant`, the clips | component |
| `ConvNet` | `graph_forward_int8` over `layers.py`, and the first layer of `int8_mlp_infer` | composition of the last three |
| `*_proof` | | theorems, section 6 |
| `MC*` | | instances for TLC; `MCDmaBridge`, `MCCoprocDriver` and `MCPeArrayCg` serve only the runs of section 5 |

Conventions. One step is one rising clock edge of everything in the module; wires are
operators with the RTL's names, and each `always_ff` block is an operator ending in `Edge`
(or one operator per FSM state). Names with an underscore suffix such as
`pop` / `Pop_NoStartCheck` are faulty variants of the definition below them: replacing the
definition by its variant must break a property, which shows that the property depends on
that line of code.

Data is symbolic. A memory word is its address, a matrix element is (word, lane), a partial
sum is the sequence of products that were added into it: two sums are equal only if the same
products were added, so a skew off by one cycle or a product counted twice shows. Int8 and
int32 arithmetic itself is not modelled.

`CmdQueueRegs`: a bus cycle is one of four actions, each of which contains the whole edge
(FIFO block, retirement block, datapath). `accepted`, `retired` and `acked` are history
variables. `MaxCmds` bounds the commands accepted between two resets; it restrains only
CMD writes that would be accepted, writes to a full FIFO remain possible.

`StreamTop`: `start` and the command inputs are free on every edge, so commands come back
to back, with gaps, and while busy (where they must be ignored).

`DmaBridge`: the array behind the bridge is a delay line of 2N-1 words moving in `S_STREAM`;
`StreamTop!WriteIsProduct` and `Drained` are what justify that. Stall gates are free Booleans
on exactly the cycles on which they matter. Command inputs are stable while the bridge is
busy, which `CmdQueueRegs!CommandStable` justifies. Addresses count words, so the byte
scaling of the bases is not modelled. Fault model: a memory may refuse any write burst, stores
nothing of it and answers with an error (`aw_fail`); the bridge records that in `bresp_err`
and goes on. A read error would be no event at all, since nothing looks at `rresp`.
`MaxUpsets` bounds resets and refused bursts together.

`CoprocHost`: a register store takes one clock edge; a register read or memory access takes
one or none (the simulated bus of `coproc_runner.cpp` answers both without an edge); any
number of edges may pass in between. The datapath is `Datapath`; the result appears in the
slot's buffer on the edge that raises `done`.

`TbCoproc`, `TbFullstack`: the test programs count edges, and whether their checks hold depends
on how long a command takes: the queue is only full, the last interrupt only one for one
command, because the program is faster than the datapath. There the datapath is timed
(`CoprocHost!TakesTime`): a command takes what `StreamTop` takes, which
`TbStream!CyclesAsDerived` checks, and up to `Slack` cycles more behind the bridge. One
operation of the program is one step. A word of memory is named by the program step that
loaded it, so a stale result differs from the expected one.

`TbArray`: the programs drive the plain array or the gated one; both run side by side in
`PeArrayCg`, and a program that knows only one of them drives the other with all rows valid.
The random programs draw from all inputs, or from a representative set of them (`SvaActs`).

`TbScratchpad`: the shadow is a second, independently written model of the two banks. As in
the program, it is not told of the write that is still enabled in the cycle of directed
test b's first swap.

`TileRunner`: a request is one message with its tiles in it, an answer is one line per row and
the `END` line; the operations between two clock ticks are one action with the tick.
`stream_ticks` is one more than the last sample needs, and the reset before the load is not
needed to drain the array after a whole request; neither is wrong.

`Tiler`: matrix elements come from the extending module, zero padding is `<<>>` and vanishes
from sums. The C driver's half takes a tile's product as computed; which command runs when,
and in which buffer, is `CoprocDriver`. An index outside a flat array reads a value that
equals no element, so it shows in the comparison.

`Requant`: the real multiplier is a fraction, so doubling and halving are exact, as they are
for a double. M0 has `B` bits instead of 31, accumulators B + 1 and products 2(B + 1), the
proportion of int32 and int64; products wrap.

`ConvNet`: input and kernel elements are named by their place, so that an output shows which
element met which; a pooled maximum is the set of its arguments. Rescaling acts on each
element alone and needs numbers: one accumulator of any value is followed through it in place
of all of them. The bias is part of that freely chosen accumulator. The graph starts where
`quantize` computes the layer's multiplier.

## 3. Composition

The queue with a datapath behind it is checked by assume-guarantee rather than as one state
space: `CmdQueueRegs` is checked against any datapath that keeps `Datapath!Spec`; `StreamTop`
and `DmaBridge` are each checked, and proved, to implement `Datapath!Spec`
(`ImplementsDatapath`), and checked to have its liveness (`CommandCompletes`); in return they
are given inputs that are stable as `CommandStable` says. The drivers and the register-level
test programs run against `CmdQueueRegs` itself.

`ConvNet` EXTENDS `Tiler`, which EXTENDS `TileRunner`, which instantiates `SystolicArray`: a
convolution is checked through all of them, from the image to the PEs and back.

Each `Tb` module composes a test program with the component it drives, and keeps the
component's own, freer next-state relation as the alternative (`pc = "any"`, `sim = FALSE`,
`test = "random"`, the power and random programs of `TbArray`), chosen in the initial state.
One run therefore asks the component's properties of both.

## 4. Runs

| run | what it asks | instance |
|---|---|---|
| `queue` | no command lost, torn, reordered or overwritten; STATUS never shows idle early; no interrupt lost; every accepted command runs | 2 fields of 2 values, `DC_MOD` 4, 5 commands |
| `stream` | every written row is the right row of A @ W; all written when `done`; nothing left in the pipeline; in `tb_stream`, exactly the derived number of cycles, within budget and timeout | N = 3, commands of 0, 1, 2 and 5 rows with overlapping and wrapping regions |
| `bridge` | the same through FIFOs, bursts and four stalling channels, with a reset in any cycle and refused bursts, which `done` must not hide; AXI rules; `tb_axi` without stalls | N = 2, 4 and 1 rows, bursts of at most 3, two upsets |
| `driver` | slots never overwritten or read early, each tile accumulated once and in order, across a wrap of `done_count` and across two layers; in `tb_fullstack`, one interrupt per command, and it ends | 2 images, 2 layers, 2 row blocks of 3x2 and 2x1 tiles, `DC_MOD` 8, up to 4 cycles of memory delay |
| `backend` | no dropped CMD, poll exit means all retired, result exact, all calls return; every check of `tb_mmio` and `tb_coproc_axi` passes | 11 rows in chunks of 2, three calls; the programs with their own row counts, 1, 2 and 64 for the random ones, up to 3 cycles of memory delay |
| `scratchpad` | implements the frame exchange; agrees with the shadow in all four tests | 2 addresses, the words the tests write |
| `clock_gating` | the gated array computes what the plain array does on masked inputs; every row captured when it should be; `PerfCounters` count the multiplications; the power oracle agrees | N = 3, up to 5 rows, cases back to back |
| `network` | tiler, pipes and array compute the product, and so does the C packing; layers keep their order of axes; rescaling rounds; the pass ends | TILE = 2, row blocks of 2, shapes below, B = 4 |
| `bridge_long`, `bridge_empty`, `driver_wakeup`, `clock_gating_toggle` | disagreements, section 5 | |

Why the bounds are enough. The queue's FIFO is modelled at its real depth of four, and five
commands fill it with one running, wrap both pointers and `done_count`. N = 3 is the smallest
array with a skew chain longer than one register, and five rows are as many as the 2N-1 = 5
cycles of latency, so that pushes and writes overlap. Four rows in bursts of three give a full
and a partial burst, one row a single beat; consecutive commands wrap both FIFO pointers (depths are
MAX_ROWS + N and MAX_ROWS as in `coproc_axi_top.sv`) and fill both FIFOs to the brim. Two
upsets are a reset and an error, two errors of which the second burst may hide the first, or
two resets. Six tiles reuse slots 0 and 1 in each block, and sixteen commands in each image wrap a
`done_count` of eight twice. In `TbArray`, five rows are the M = 5 of the tail-padding
scenario, and more than N, so that a full array occurs. `CNT_MOD`, `ADDR_MOD`, `LEN_MOD` and `DC_MOD` stand
for 2^32, 2^ADDR_W, 2^8 and 2^16. `GUARD` and the programs' timeouts are far above what they bound.

`network` covers every product M x K by K x N with all three from 1 to 5, that is below, at and
above one and two tiles and one and two row blocks, as 1 x 1 convolutions; and 2 x 3 kernels on
images of 3 or 5 by 4 or 6 with one and two images and channels, which gives pooled maps of
one, two and four windows a channel, square and not. (The products have an odd output width
and skip pooling.) All of these run with one multiplier; the smallest shape runs with every multiplier n/128 below 3/2 that is
not too small for the shift, some large ones that shift to the left, and every accumulator of
five bits.

Deadlock is checked in `queue`, `stream`, `bridge` and `clock_gating`: hardware never stops, and a
test program that timed out would. It is off where the software comes to an end: `driver`, `backend`,
`scratchpad` and `network`.

Fairness. Weak fairness of the clock edge everywhere: the clock runs. For the queue and the
drivers, weak fairness of `Datapath!Finish`: this is `CommandCompletes`, checked of both
datapaths. For the bridge, each of the four channels is served after finitely many cycles of
waiting; the gates are bits of a free-running LFSR. For the drivers and the test programs, weak fairness of the
program: the processor executes it. In the timed programs no fairness of the datapath is needed,
since a command has a longest time. For `network`, weak fairness of the next step: the process
and the subprocess it started both run, and whenever one of them can only wait the other is
the next step. None of the models assumes anything about which
command comes next or when.

## 5. Disagreements between code and documentation

1. `bridge_long`. `axi4_dma_bridge.sv:198` limits a write burst to `rem[7:0]`. When the
   remaining row count is a multiple of 256 the limit is 0 and the engine waits for ever, so
   every command of 256 rows or more hangs although `coproc_axi_top.sv:8-10` allows up to
   MAX_ROWS = 1024 and both drivers use 1024. The run has `LEN_MOD` = 4 and a command of
   four rows. The testbench knows (`tb_coproc_axi.cpp:185-196`).
2. `bridge_empty`. With `m_rows` = 0 the sequencer still reads one activation row
   (`stream_ctrl.sv:59`), the FIFO count goes below zero, and the next command never leaves
   B_PREFETCH. `coproc_backend.py:95-96` issues such a command for M = 0.
3. `driver_wakeup`. `coproc_wait_retired` blocks on the interrupt before it looks at
   `done_count`; two retirements can share one interrupt, and the second wait never returns.
   The comment above it claims one interrupt per retirement. The `driver` run therefore states
   liveness only of `tb_fullstack`, whose host is faster than the datapath (`Infers`).
4. `clock_gating_toggle`. `act_valid_out` freezes together with `act_out`, so a falling
   `act_valid` leaves a valid stale activation for the next column, against the comment at
   `pe_cg.sv:4-7`. The power scenarios keep `act_valid` fixed for a run, where the gated
   array is right (`clock_gating`).

## 6. Proofs

All proofs are for every value of the constants, from the named assumptions in the modules
that declare them (each says only that a size is a positive number, that a value set contains
the values the code stores, that a counter is wide enough for what the code counts with it, or,
in `Requant`, that a multiplier lies where the C shift is defined).
The few theorems that need more say so in their statement; each such hypothesis is discussed
below.

`CmdQueueRegs_proof`: `Invariance`, `Spec => []Inv`, where `Inv` is `TypeOK`;
`InFlightExclusive` (at most one of start, busy, done); `Conservation` (accepted = retired +
queued + start + busy + done); `RingConsistent` (the pointers are `fifo_cnt` apart modulo 4);
`CountsRetired` (`done_count` is `retired` modulo its width, acknowledgements do not run ahead)
and `PendingIffUnacked`. From it the run's invariants and `CommandIsStable`, the action property
the bridge relies on. The strengthening is needed because `IdleMeansRetired` alone says nothing
about a state with a command in flight, so the step in which it finishes cannot be shown to
restore it; `Conservation` counts the command through the hand-over, and is itself kept only
because start, busy and done exclude each other. One lemma per `always_ff` block, combined once
for all bus cycles. `ImplementsQueueSafety` is the safety half of `ImplementsCommandQueue`: the
sequence read off the ring between the pointers behaves as the queue of `CommandQueue`, step by
step, also in a cycle that both enqueues and pops.

`ScratchpadDbuf_proof`: type correctness and `Refinement`, `Spec => ImplementsPingPong`.
`WriteHitsFill` is the heart: a write changes the back frame only, whichever bank that is, in a
cycle with or without swap. `TestsPass` proves the comparisons of the test program
(`ChecksPass`) for every depth and stride. `Mirror` ties the shadow's banks to the scratchpad's;
`AfterA`, `AfterB` and `AfterC` say, from the number of cycles a directed test has run, which bank
is read, which words of the other have been filled, and with what.

`StreamTop_proof`: `StreamTopIsDatapath` is a refinement that needs no invariant: every state of
the sequencer is one of idle, running and finishing of `Datapath`. The rest is one invariant,
`StreamInv`, of four parts: `Control` (state, `li` and `cyc` together), `Loading` (the weight rows
loaded so far), `Pipeline` (what every skew register, PE and de-skew register holds, as a function
of `cyc` alone: row k of A is at the PE of row r and column c in cycle k + r + c + 1) and
`Written` (the rows in memory). It is as large as it is because a register of the pipeline is only
determined by its neighbour one cycle earlier; no smaller part is inductive. From it
`WritesAreProducts`, `ProductIsWritten` and `PipelineDrains`, for every N and every command, with
overlapping regions and addresses that wrap. `CyclesAreAsDerived` proves the cycle counts and
budgets of `tb_stream` for N up to 26. That bound belongs to the program: it gives up after
10 m + 100 cycles, and from N = 27 on a command of one row takes longer.

`DmaBridge_proof`: `IInv` is `Types` and two disjunctions, `ReadPort` and `WritePort`: an engine
of the bridge and the engine of the memory opposite it walk through one burst in step, so only
four pairs of states per port can occur. `OneBurst` and `HandshakesHold` follow; neither is
inductive alone, because what a handshake leaves behind depends on where the other side is.
`BurstsStayInRegion` adds `RegionInv`: bursts issued never exceed the total, the engine is ahead
of its responses by at most one burst, and all is settled when the bridge is idle.
`BridgeIsDatapath` is the refinement. Resets, stalls and refused bursts are included.
`LevelInv` adds the FIFOs: the count of each is what was put in less what was taken out, and
each of the four is bounded by the phase of the command and the state of the engine that moves it.
Hence `FifosAreSafe` and `IdleBridgeIsClean`. `DataInv` adds the contents: item k put into a ring
is item k taken out, from the read port through the sequencer to the write port, so every word is
where its number in the command says, and of rows written to one address the last one stays; hence
`ResultsAreWrittenOrFlagged`. These three assume `JobsFit`: every command has from one to
WR_DEPTH rows and its words fit the operand FIFO, for which `coproc_axi_top.sv` gives the FIFOs
MAX_ROWS and MAX_ROWS + N entries. Without it they are false: `bridge_empty` is a command of no
rows.

`PeArrayCg_proof`, `GatingIsTransparent`: under `Toggle = FALSE`, the gated array's sums equal the
plain array's. The invariant: a PE that has been valid is fed by valid neighbours, and where it has
been the plain array holds the same activation, elsewhere zero. `clock_gating_toggle` shows the
assumption is needed. `GatingInPrograms` is the same property of the test programs, without the
assumption, since they set the validity of a run while the array is clear. For `tb_main` and `tb_perf` the
invariant is `Wavefront`: after n ticks row k is at the PEs with k + r + c = n - 1, with the
products of the lanes above. `RowsAreCaptured` follows by the tick in which a row leaves a column.
`CountersCountMacs` needs more: the counter is a sum over ticks of the active PEs, the claim a
number of rows times lanes. `Counting` says that the counter is the cardinality of the set of
multiplications done so far, by a bijection between these and the pairs of an active PE and a tick. `OracleIsTheArray` is a lock step of `tb_power`'s software model with
the gated array.

The proofs about drivers begin by instantiating `CmdQueueRegs_proof` for the block the driver
stores to. That module ends with what they need of it: a lemma for each kind of bus cycle
(`IdleStep`, `FieldStep`, `CommandStep`, `IrqStep`), what the counts say about the commands
outstanding (`Counting`, `Draining`), and `HandedOn`: a command keeps its number through the queue.

`CoprocBackend_proof`: at position k of a batch at most k commands are outstanding, and none
after the poll has let through (`Conservation` again). Hence `StoresAreAccepted` (`NeverDropped`)
and `PollIsSafe` (`PollSeesAllRetired`), for all row counts, chunk sizes and calls. The chunk
arithmetic needs the two facts `NumChunksPositive` and `ChunkRows`. `TileIsExact` (`ResultExact`)
follows each command by its number through the queue (`HandedOn`): the one in flight has the
operands of its chunk, and a result buffer read back holds the product of that chunk.

`ProgramsPass` (`AllPass`), in the same module, is about the register-level test programs: every
check passes for every size of the array, every set of random row counts and whatever time a
command takes within its bounds. The invariant, `TbInv`, says of each place in the two programs how
many commands have been accepted and which each of them is (`InLine`), which results
`golden()` has computed and which regions hold theirs (`Computed`, `Answered`), and what is in the
holding registers (`Held`). A wait ends well because `Work`, a bound on the edges until everything
accepted has been counted, falls with every edge and begins below the timeout; `Price` is what it
charges for a command. Where the programs rely on being faster than the datapath, the argument runs
the other way: `Ahead` says how long the command of 200 or 500 rows has been running at most,
which is less than it takes, so the queue is still full behind it when STATUS is read. Each test
(`OneStep`, `FourStep`, `FullStep`, `InterruptStep`) is proved once, at any place in a program
and after any number of commands; `MmioOps` and `AxiOps` say where the tests stand. The theorem
assumes `InTime`: the two waits on the interrupt pin, of 500 and 5000 iterations, are as long as a
command of two rows may take. With the repository's N = 4 the first holds, and the second for every memory
delay up to 4977 cycles a command. Every other timeout then suffices as well.

`CoprocDriver_proof`: completions acknowledged are at least the results collected, because each
result takes an interrupt of its own; the commands in flight lie between `collected` and `issued`,
at most four apart; command j of a block uses slot j % 4 throughout the queue. Hence
`ResultsHaveRetired` (`ReadAfterRetired`), `SlotsAreSafe` (`SlotSafe`) and `TilesAreAccepted`.
`done_count`, which may wrap, plays no part: the driver would be right if it never read it.
With the operands of command j added to what is known of slot j % 4, `TilesAccumulateOnce`: every
tile is added once, in order, from its own operands. `InterruptPerCommand` is about `tb_fullstack`,
whose host sees each retirement before the next: interrupts counted, acknowledged and results
collected are the same number.

`ConvNet_proof` is about the layer graph, the tiler, its runner and the array together, and about
the C library's packing. `ProductIsGolden` (`ExecuteIsGolden`) has two levels. Within a request
(`Working`), `Wavefront` says what every PE holds after n ticks, as in `StreamTop` but with the skew
done in software: row k has met r + 1 lanes at the PEs (r, c) with k + r + c = n - 1, which is why
the sampling tick of each lane is the right one. Between requests, `Progress` says that C holds, in
each column, the K-tiles that the number of jobs done implies; `Executing` joins the two over the
states of the two pipes. No smaller invariant is inductive: what a row adds to C has been decided
when the request was written. `OutputIsDirect` (`ConvIsDirect`) adds the places: `Layout`, the part
of the patches that im2col's loops have filled; `InPlace`, operands that are patches and kernels; and
`IndexApart`, that an index made of three can be taken apart again, on which the order of the axes of
`ConvOutput`, `MaxPool` and `Flatten` depends. `BlocksAreGolden` (`DriverIsGolden`): the packed tile
is the tile, rows below the block are finished, rows of the block hold the tiles collected
(`Driving`). The assumption is that of `ConvNet` on its shapes: every extent is at least one and a
kernel fits its image. The tile product is a recursive function; that it equals the sum of its
products is shown without an induction theorem, from a least number at which the two would differ
(`SumsAre`). `RescalingIsExact` (`ActivationIsRounded`) is about `Requant`. While
`quantize_multiplier` runs, the fraction is the one asked for times a power of two, halved or doubled
but never both (`Scaled`); `LoopBounds` limits both loops, so the shift lies in -(B+1)..B+2. When it
returns, M0 has B significant bits and is off by at most half a unit (`Multiplier`, `Near`).
`RequantIs` shows that no product of `requant` is wrapped and that it rounds to nearest;
`RescaledIsRounded` adds the two errors. The provers know nothing of `2^n`: the facts needed
(`TwoSucc`, `TwoPlus`, `TwoOrder`) are proved by counting the subsets of 1..n. The assumption is that
of `Requant`: a multiplier is 0 or between 2^-(B+2), below which the shift of `int8_mlp.h` is
undefined (the hazard at line 30), and 2^(B+1), above which the product no longer fits.

Only model-checked: all liveness (fairness and ENABLED are beyond the prover), that is
`CommandCompletes`, `Infers`, `ProgramsEnd`, `GraphReturns` and the fairness half of
`ImplementsCommandQueue`. Every safety property of a passing run is proved.

## 7. Plan

Done: sections 2 to 6. What would add most next:

1. A monolithic composition of `CmdQueueRegs` with `DmaBridge` (`coproc_axi_top.sv`) under one
   fixed stall pattern, to exercise the argument of section 3 end to end.
2. Bias addition and argmax of `int8_mlp_infer`.

## 8. Not modelled

- The values of int8/int32 sums and their overflow, bias, calibration, training, argmax:
  pure or floating-point computation. Rescaling is modelled on its own widths (`Requant`).
- `Dense`: the same product as a 1 x 1 convolution.
- The `ID` register and the check of it, beat counters, statistics other than the cycle counts:
  nothing depends on them.
- The text of the pipe protocol, and a runner that dies: `run_tile` has no handling for it.
- The byte order and lanes of backdoor memory access in the test programs, vector and image files, waveforms,
  tables; `test_metrics.cpp`, which compares a formula on constants.
- The 4 KB burst boundary: see the hazard's note. Read error responses: nothing looks at `rresp`.
- m_rows > MAX_ROWS: documented to hang, and both drivers cut their rows to MAX_ROWS.
- The latch inside the clock gate: an enable sampled at the edge.
- The PE assertions of `rtl/sva`: they restate single register updates; the inputs `tb_sva` drives
  them with are modelled.
- Synthesis and layout scripts.
