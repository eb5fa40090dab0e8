------------------------------- MODULE PingPong -------------------------------
(***************************************************************************)
(* What a double-buffered scratchpad promises: a front frame that is read, *)
(* a back frame that is written, and a swap that exchanges the two between *)
(* cycles.  A read answers one cycle later with what the front frame held  *)
(* in the cycle it was issued.  ScratchpadDbuf implements this.            *)
(***************************************************************************)
CONSTANTS Addr, Data

VARIABLES front, back,
          answer    \* <<a, d>> after a cycle that read d at a, else <<>>

pvars == <<front, back, answer>>

PInit == front \in [Addr -> Data] /\ back \in [Addr -> Data] /\ answer = <<>>

\* The back frame after this cycle's write, if there is one.
Written(f) == f = back \/ \E a \in Addr, d \in Data : f = [back EXCEPT ![a] = d]

Answers == {<<>>} \cup {<<a, front[a]>> : a \in Addr}

\* Keep filling, or exchange the frames, the write of this cycle included.
Fill(f) == front' = front /\ back' = f
Swap(f) == front' = f /\ back' = front

PCycle == \E f \in [Addr -> Data] :
             Written(f) /\ (Fill(f) \/ Swap(f)) /\ answer' \in Answers

\* Reset drops the answer; which frame is in front is then fixed by the bank.
PReset == \E f \in [Addr -> Data] :
             Written(f) /\ (Fill(f) \/ Swap(f)) /\ answer' = <<>>

PNext == PCycle \/ PReset

PSpec == PInit /\ [][PNext]_pvars
===============================================================================
