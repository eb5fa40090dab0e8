---------------------------- MODULE ScratchpadDbuf ----------------------------
(***************************************************************************)
(* The ping-pong scratchpad rtl/scratchpad_dbuf.sv.  One step is one clock *)
(* edge; a write, a read and a swap may all be requested in the same cycle.*)
(* A request is <<>> (no request), <<a>> for a read and <<a, d>> for a     *)
(* write.                                                                  *)
(***************************************************************************)
EXTENDS Integers

CONSTANTS Addr, Data,
          Zero      \* what reset leaves in rd_data

ASSUME ScratchAssumption == Zero \in Data

VARIABLES mem0, mem1,
          consume_bank_q,  \* which bank is read: TRUE is bank 1
          rd_data, rd_valid,
          asked            \* history: the address of the last read

vars == <<mem0, mem1, consume_bank_q, rd_data, rd_valid, asked>>

consume == IF consume_bank_q THEN mem1 ELSE mem0
fill == IF consume_bank_q THEN mem0 ELSE mem1

BankEdge(swap) == consume_bank_q' = IF swap THEN ~consume_bank_q ELSE consume_bank_q

WriteEdge_NextBank(wr) ==
    /\ mem1' = IF wr # <<>> /\ ~consume_bank_q' THEN [mem1 EXCEPT ![wr[1]] = wr[2]] ELSE mem1
    /\ mem0' = IF wr # <<>> /\ consume_bank_q' THEN [mem0 EXCEPT ![wr[1]] = wr[2]] ELSE mem0

\* The bank is the one of this cycle, swap or no swap.
WriteEdge(wr) ==
    /\ mem1' = IF wr # <<>> /\ ~consume_bank_q THEN [mem1 EXCEPT ![wr[1]] = wr[2]] ELSE mem1
    /\ mem0' = IF wr # <<>> /\ consume_bank_q THEN [mem0 EXCEPT ![wr[1]] = wr[2]] ELSE mem0

ReadEdge_PostSwap(rd) ==
    /\ rd_valid' = (rd # <<>>)
    /\ rd_data' = IF rd = <<>> THEN rd_data
                  ELSE IF consume_bank_q' THEN mem1[rd[1]] ELSE mem0[rd[1]]

ReadEdge(rd) ==
    /\ rd_valid' = (rd # <<>>)
    /\ rd_data' = IF rd = <<>> THEN rd_data
                  ELSE IF consume_bank_q THEN mem1[rd[1]] ELSE mem0[rd[1]]

WriteReq == {<<>>} \cup (Addr \X Data)
ReadReq == {<<>>} \cup {<<a>> : a \in Addr}

Cycle(wr, rd, swap) ==
    /\ BankEdge(swap) /\ WriteEdge(wr) /\ ReadEdge(rd)
    /\ asked' = IF rd = <<>> THEN asked ELSE rd[1]

\* rst high.  The write port has no reset: a write still lands.
Reset(wr) ==
    /\ consume_bank_q' = TRUE /\ rd_valid' = FALSE /\ rd_data' = Zero
    /\ WriteEdge(wr)
    /\ UNCHANGED asked

\* Memory contents are arbitrary after power-up.
Init ==
    /\ mem0 \in [Addr -> Data] /\ mem1 \in [Addr -> Data]
    /\ consume_bank_q = TRUE /\ rd_data = Zero /\ rd_valid = FALSE
    /\ asked \in Addr

Next == \/ \E wr \in WriteReq, rd \in ReadReq, swap \in BOOLEAN : Cycle(wr, rd, swap)
        \/ \E wr \in WriteReq : Reset(wr)

Spec == Init /\ [][Next]_vars

-------------------------------------------------------------------------------
TypeOK ==
    /\ mem0 \in [Addr -> Data] /\ mem1 \in [Addr -> Data]
    /\ consume_bank_q \in BOOLEAN /\ rd_valid \in BOOLEAN /\ rd_data \in Data
    /\ asked \in Addr

PP == INSTANCE PingPong WITH
    front <- consume, back <- fill,
    answer <- IF rd_valid THEN <<asked, rd_data>> ELSE <<>>

(* The two banks and the registered bank bit implement the frame exchange: *)
(* reads see one whole frame, writes never reach it, and a swap in the     *)
(* cycle of a read or a write changes neither: "without ever corrupting an *)
(* in-flight registered read" (header, lines 1-3).                         *)
ImplementsPingPong == PP!PSpec
===============================================================================
