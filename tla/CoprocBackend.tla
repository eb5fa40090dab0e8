----------------------------- MODULE CoprocBackend ----------------------------
(***************************************************************************)
(* The polling host: CoprocBackend.run_tile in sched/coproc_backend.py     *)
(* with the coproc_wait loop of sw/coproc_mmio.h.  It cuts the M rows of a *)
(* tile into chunks of at most MAX_ROWS, issues up to four chunks, polls   *)
(* STATUS until the queue is empty and not busy, reads the four results    *)
(* back and goes on with the next batch.  run_tile is called Calls times,  *)
(* with a different weight tile each time (sched/tiler.py:79-106); the     *)
(* weights are named by the call, a chunk of activations by <<row0, rows>>.*)
(***************************************************************************)
EXTENDS CoprocHost

CONSTANTS M,          \* rows of A
          MAX_ROWS,   \* rows of the longest command
          Calls       \* run_tile calls, one per weight tile

ASSUME BackendAssumption ==
    /\ M \in Nat /\ MAX_ROWS \in Nat \ {0} /\ Calls \in Nat \ {0}
    /\ 0..MAX_ROWS \subseteq Val

VARIABLES call,       \* which run_tile call this is
          batch,      \* i: index of the first chunk of the batch
          slot,       \* position in the batch
          Ct          \* by row: the <<weights, row>> the result was computed from

progVars == <<call, batch, slot, Ct>>
vars == <<regVars, bufVars, pc, progVars>>

Unset == <<>>

Lesser(a, b) == IF a < b THEN a ELSE b

NumChunks_Floor == M \div MAX_ROWS

\* M = 0 still issues one chunk, of no rows.
NumChunks == IF M = 0 THEN 1 ELSE (M + MAX_ROWS - 1) \div MAX_ROWS
Chunk(k) == <<k * MAX_ROWS, Lesser(MAX_ROWS, M - k * MAX_ROWS)>>

BatchLen_Overfull == Lesser(QDEPTH + 2, NumChunks - batch)

BatchLen == Lesser(QDEPTH, NumChunks - batch)
CurrentChunk == Chunk(batch + slot)
\* Each position in the batch has its own buffers.
HostSlot == slot

-------------------------------------------------------------------------------
Issue ==
    \/ MemWriteW(HostSlot, <<call>>) /\ UNCHANGED progVars
    \/ MemWriteA(HostSlot, CurrentChunk) /\ UNCHANGED progVars
    \/ WriteRegs(HostSlot, CurrentChunk[2]) /\ UNCHANGED progVars
    \/ /\ StoreCmd
       /\ IF slot + 1 < BatchLen
          THEN slot' = slot + 1 /\ pc' = "mem_w"
          ELSE slot' = 0 /\ pc' = "poll"
       /\ UNCHANGED <<call, batch, Ct>>

PollExit_QueueOnly == Regs!Status.qempty

PollExit_Count == Regs!Status.done_count = BatchLen

\* coproc_wait: queue empty and not busy in one STATUS read.
PollExit == Regs!Status.qempty /\ ~Regs!Status.busy

Poll ==
    /\ pc = "poll" /\ PollExit /\ pc' = "read"
    /\ Tick /\ UNCHANGED <<w_buf, a_buf, progVars>>

\* Row r of the chunk at row0, as the result buffer has it.
RowOf(res, r, row0) == <<res[1], res[2][1] + r - row0>>

\* Read one result back; a chunk without rows is skipped.  After the last of
\* the batch go on with the next batch, the next call, or return.
ReadBack ==
    /\ pc = "read"
    /\ LET row0 == CurrentChunk[1]
           rows == CurrentChunk[2]
           res == c_buf[HostSlot]
       IN  Ct' = [r \in DOMAIN Ct |-> IF r >= row0 /\ r < row0 + rows
                                      THEN RowOf(res, r, row0) ELSE Ct[r]]
    /\ IF slot + 1 < BatchLen
       THEN slot' = slot + 1 /\ pc' = "read" /\ UNCHANGED <<batch, call>>
       ELSE /\ slot' = 0
            /\ IF batch + BatchLen < NumChunks
               THEN batch' = batch + BatchLen /\ pc' = "mem_w" /\ UNCHANGED call
               ELSE pc' = "call_end" /\ UNCHANGED <<batch, call>>
    /\ Tick /\ UNCHANGED <<w_buf, a_buf>>

\* run_tile returns Ct; the scheduler calls it for the next tile.
NextCall ==
    /\ pc = "call_end" /\ call < Calls
    /\ call' = call + 1 /\ batch' = 0 /\ slot' = 0 /\ pc' = "mem_w"
    /\ Ct' = [r \in DOMAIN Ct |-> Unset]
    /\ Tick /\ UNCHANGED <<w_buf, a_buf>>

OtherCycle == Edge /\ UNCHANGED <<pc, w_buf, a_buf, progVars>>

Init ==
    /\ HostInit /\ pc = "mem_w" /\ call = 1 /\ batch = 0 /\ slot = 0
    /\ Ct = [r \in 0..(M - 1) |-> Unset]

Drive == Issue \/ Poll \/ ReadBack \/ NextCall

Next == Drive \/ OtherCycle

Spec == Init /\ [][Next]_vars

-------------------------------------------------------------------------------
(* Properties.                                                             *)

(* Whatever the poll loop has let through has retired: there is no cycle   *)
(* between pop, start, busy and done at which the single STATUS read shows *)
(* an idle coprocessor with a command of the batch still to come.          *)
PollSeesAllRetired == pc = "read" => retired = accepted /\ InFlight = {}

(* run_tile returns the product of this call's weights with every row of   *)
(* A, each in its place, although the buffers still hold the results of    *)
(* earlier batches and calls.                                              *)
ResultExact == pc = "call_end" => \A r \in DOMAIN Ct : Ct[r] = <<<<call>>, r>>
===============================================================================
