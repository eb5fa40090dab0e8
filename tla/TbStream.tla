------------------------------- MODULE TbStream -------------------------------
(***************************************************************************)
(* The test program sim/stream/tb_stream.cpp over StreamTop: pulse start,  *)
(* count clock edges until done, read the result RAM, again and again with *)
(* no reset in between.  The program overwrites one weight and one         *)
(* activation region for every run; here, where a word is its address,     *)
(* other data is another region.                                           *)
(*                                                                         *)
(* The program is one user of the sequencer.  The other, with pc = "any",  *)
(* is StreamTop's own: start, command and reset at any time.               *)
(***************************************************************************)
EXTENDS StreamTop

VARIABLES pc,      \* the program's next operation
          cycles   \* edges counted since the start pulse

allVars == <<vars, pc, cycles>>

\* rst for two edges, then one without.
TbReset ==
    \/ pc = "rst1" /\ pc' = "rst2" /\ Reset /\ UNCHANGED cycles
    \/ pc = "rst2" /\ pc' = "settle" /\ Reset /\ UNCHANGED cycles
    \/ /\ pc = "settle" /\ pc' = "run_one"
       /\ \E job \in Jobs : Clock(FALSE, job)
       /\ UNCHANGED cycles

\* run_one up to the falling start.
StartPulse ==
    /\ pc = "run_one" /\ pc' = "wait"
    /\ \E job \in Jobs : job.m > 0 /\ Clock(TRUE, job)
    /\ cycles' = 0

\* while (!top->done): one edge, and give up after the timeout.
timeout == 10 * job_r.m + 100

WaitTick ==
    /\ pc = "wait" /\ ~done
    /\ Clock(FALSE, job_r)
    /\ cycles' = cycles + 1
    /\ pc' = IF cycles' > timeout THEN "timed_out" ELSE "wait"

\* done is seen without an edge; the rows are read and the next run begins.
ReadBack ==
    /\ pc = "wait" /\ done /\ pc' = "run_one"
    /\ UNCHANGED <<vars, cycles>>

AnyUse == pc = "any" /\ Next /\ UNCHANGED <<pc, cycles>>

TbInit == Init /\ pc \in {"any", "rst1"} /\ cycles = 0

TbNext == TbReset \/ StartPulse \/ WaitTick \/ ReadBack \/ AnyUse

TbSpec == TbInit /\ [][TbNext]_allVars

(* The clock runs.                                                         *)
TbFairSpec ==
    /\ TbSpec
    /\ WF_allVars(TbReset \/ StartPulse \/ WaitTick \/ ReadBack)
    /\ WF_allVars(pc = "any" /\ (\E start \in BOOLEAN, job \in Jobs : Clock(start, job))
                  /\ UNCHANGED <<pc, cycles>>)

-------------------------------------------------------------------------------
(* Properties.                                                             *)

(* A matrix product takes exactly the cycles the comment at                *)
(* tb_stream.cpp:90-92 adds up, whatever ran before: 2N for the weights,   *)
(* a pulse, a prefetch, 2N - 1 of skew, m rows and one for done; that is   *)
(* within the program's budget and its timeout.                            *)
budget == job_r.m + 2 * N + N * N + 16

CyclesAsDerived ==
    /\ pc = "wait" /\ done =>
           /\ cycles = job_r.m + 2 * N + 1 + 1 + (2 * N - 1) + 1
           /\ cycles <= budget
    /\ pc # "timed_out"
===============================================================================
