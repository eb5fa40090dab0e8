------------------------------- MODULE MCTbArray ------------------------------
(* All activations or none in one cycle, or row 0 only, for the random test. *)
EXTENDS TbArray
MCAct == {<<"x">>, <<"y">>}
MCGen == {<<0>>, <<1>>}
MCSvaActs == {[r \in Lane |-> <<"x">>], ZeroActs, [ZeroActs EXCEPT ![0] = <<"x">>]}
===============================================================================
