---------------------------- MODULE MCTbScratchpad ----------------------------
(* Two words per bank; the data are zero and the four pattern words.         *)
EXTENDS TbScratchpad
MCData == {Zero} \cup {pattern_a(a) : a \in Addr} \cup {pattern_b(a) : a \in Addr}
===============================================================================
