------------------------------ MODULE TileRunner -------------------------------
(***************************************************************************)
(* sched/tile_runner.cpp: the program at the other end of the pipes of     *)
(* VerilatorBackend.  It drives the bare array (rtl/top.sv) and does in    *)
(* software the skewing that stream_ctrl does in hardware.                 *)
(*                                                                         *)
(* A request ("TILE M", the weights, the activations) is one message,      *)
(* because the runner reads all of it before it answers.  The answer is    *)
(* one line per row and a last line with the cycle count.                  *)
(***************************************************************************)
EXTENDS Integers, Sequences

CONSTANT TILE           \* TN, the size of the array

ASSUME TileAssumption == TILE \in Nat \ {0}

VARIABLES to_runner, to_host,   \* the pipes: requests, answer lines
          closed,               \* the backend has closed the runner's stdin
          rpc, req, tick,       \* the runner: next operation, request, loop
          results,              \* counter and sampled sums
          edges,                \* clock edges the array has seen
          weight, act, psum     \* the array

INSTANCE SystolicArray WITH N <- TILE

pipeVars == <<to_runner, to_host, closed>>
arrayVars == <<weight, act, psum>>
runnerVars == <<rpc, req, tick, results, edges, arrayVars>>

stream_ticks == req.rows + 2 * (TILE - 1) + 1

\* Lane r is fed row i - r in tick i.
set_act(i) ==
    [r \in Lane |-> IF i - r \in 0..(req.rows - 1) THEN req.At[i - r][r] ELSE ZeroElt]

\* The row whose sum leaves column c in tick i.
SampledRow(i, c) == i - (TILE - 1) - c

ReadRequest ==
    /\ rpc = "read" /\ to_runner # <<>>
    /\ req' = Head(to_runner) /\ to_runner' = Tail(to_runner)
    /\ rpc' = "reset"
    /\ UNCHANGED <<to_host, closed, tick, results, edges, arrayVars>>

\* Each of the next three operations contains one tick() of the clock.
ResetTick ==
    /\ rpc = "reset" /\ rpc' = "load"
    /\ PeReset /\ edges' = edges + 1
    /\ UNCHANGED <<pipeVars, req, tick, results>>

LoadTick ==
    /\ rpc = "load" /\ rpc' = "stream"
    /\ PeEdge(TRUE, [r \in Lane |-> [c \in Lane |-> req.Wt[r][c]]], ZeroLanes)
    /\ edges' = edges + 1 /\ tick' = 0
    /\ results' = [m \in 0..(req.rows - 1) |-> [c \in Lane |-> <<>>]]
    /\ UNCHANGED <<pipeVars, req>>

StreamTick ==
    /\ rpc = "stream"
    /\ PeEdge(FALSE, ZeroArray, set_act(tick))
    /\ edges' = edges + 1 /\ tick' = tick + 1
    /\ results' = [m \in 0..(req.rows - 1) |-> [c \in Lane |->
                      IF SampledRow(tick, c) = m THEN psum_out(c)' ELSE results[m][c]]]
    /\ rpc' = IF tick + 1 < stream_ticks THEN "stream" ELSE "print"
    /\ UNCHANGED <<pipeVars, req>>

cycles == 2 + stream_ticks

Answer_NoEnd == [m \in 1..req.rows |-> results[m - 1]]

Answer == Append([m \in 1..req.rows |-> results[m - 1]], <<"END", cycles>>)

Write ==
    /\ rpc = "print" /\ rpc' = "read"
    /\ to_host' = to_host \o Answer
    /\ UNCHANGED <<to_runner, closed, req, tick, results, edges, arrayVars>>

\* fgets returns NULL and the loop ends.
Exit ==
    /\ rpc = "read" /\ to_runner = <<>> /\ closed
    /\ rpc' = "exited"
    /\ UNCHANGED <<pipeVars, req, tick, results, edges, arrayVars>>

RunnerInit ==
    /\ to_runner = <<>> /\ to_host = <<>> /\ closed = FALSE
    /\ rpc = "read" /\ req = [rows |-> 0] /\ tick = 0 /\ results = <<>> /\ edges = 0
    /\ ArrayInit

Runner == ReadRequest \/ ResetTick \/ LoadTick \/ StreamTick \/ Write \/ Exit
===============================================================================
