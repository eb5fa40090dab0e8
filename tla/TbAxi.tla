--------------------------------- MODULE TbAxi --------------------------------
(***************************************************************************)
(* The test program sim/axi/tb_axi.cpp over DmaBridge: pulse start, tick   *)
(* until done, compare the result RAM, again and again with no reset in    *)
(* between.  In the runs it makes without backpressure the gates of the    *)
(* memories are open all the time, and it counts cycles; those it makes    *)
(* with backpressure are within the free use of the bridge, pc = "any".    *)
(***************************************************************************)
EXTENDS DmaBridge

VARIABLES pc,      \* the program's next operation
          cycles   \* edges counted since the start pulse

tbVars == <<pc, cycles>>
allVars == <<vars, tbVars>>

\* An edge with all stall masks zero.
Unstalled(start, in) == Clock(start, in, TRUE, TRUE, TRUE, TRUE, FALSE)

\* rst for two edges, then one without.
TbReset ==
    /\ \/ pc = "rst1" /\ pc' = "rst2" /\ ResetEdge /\ UNCHANGED upsets
       \/ pc = "rst2" /\ pc' = "settle" /\ ResetEdge /\ UNCHANGED upsets
       \/ pc = "settle" /\ pc' = "run_one" /\ Unstalled(FALSE, lat)
    /\ UNCHANGED cycles

StartPulse ==
    /\ pc = "run_one" /\ pc' = "wait"
    /\ \E job \in Jobs : Unstalled(TRUE, job)
    /\ cycles' = 0

timeout == 200 * lat.m + 4000

\* while (!top->done).  After a timeout nothing is enabled: a deadlock.
WaitTick ==
    /\ pc = "wait" /\ ~bdone
    /\ Unstalled(FALSE, lat)
    /\ cycles' = cycles + 1
    /\ pc' = IF cycles' > timeout THEN "timed_out" ELSE "wait"

\* done is seen without an edge; what golden() and check() say of the result
\* rows then is WrittenOrFlagged.
ReadBack ==
    /\ pc = "wait" /\ bdone /\ pc' = "run_one"
    /\ cycles' = 0 /\ UNCHANGED vars

AnyUse == pc = "any" /\ Next /\ UNCHANGED tbVars

TbInit == Init /\ pc \in {"any", "rst1"} /\ cycles = 0

TbProgram == TbReset \/ StartPulse \/ WaitTick \/ ReadBack

TbNext == TbProgram \/ AnyUse

(* The simulation goes on; otherwise the fairness of DmaBridge.            *)
TbSpec == TbInit /\ [][TbNext]_allVars

Any(step) == pc = "any" /\ step /\ UNCHANGED tbVars

TbFairSpec ==
    /\ TbSpec
    /\ WF_allVars(TbProgram)
    /\ WF_allVars(Any(Cycle))
    /\ WF_allVars(Any(ArMoves /\ Step({TRUE}, Gate(RMoves), Gate(AwMoves), Gate(WMoves))))
    /\ WF_allVars(Any(RMoves /\ Step(Gate(ArMoves), {TRUE}, Gate(AwMoves), Gate(WMoves))))
    /\ WF_allVars(Any(AwMoves /\ Step(Gate(ArMoves), Gate(RMoves), {TRUE}, Gate(WMoves))))
    /\ WF_allVars(Any(WMoves /\ Step(Gate(ArMoves), Gate(RMoves), Gate(AwMoves), {TRUE})))
===============================================================================
