------------------------------ MODULE TbScratchpad -----------------------------
(***************************************************************************)
(* The test program sim/scratchpad/tb_scratchpad.cpp: the scratchpad       *)
(* (module ScratchpadDbuf) and the program's own model of it (Shadow),     *)
(* clocked with the same inputs and compared after every cycle.            *)
(*                                                                         *)
(* A directed test is a sequence of cycles; each gives the inputs of one   *)
(* edge and what the program compares after it besides the shadow.         *)
(***************************************************************************)
EXTENDS ScratchpadDbuf, Sequences

CONSTANTS DEPTH,      \* words per bank
          Stride      \* distance of the addresses in the spot check

ASSUME TbAssumption ==
    /\ DEPTH \in Nat \ {0} /\ Addr = 0..(DEPTH - 1) /\ Stride \in Nat \ {0}

VARIABLES test,       \* which test runs
          cycle,      \* cycles of it that have run
          sh          \* the Shadow

tbVars == <<test, cycle, sh>>
allVars == <<vars, tbVars>>

\* Both bank patterns of the directed tests, and the words 0xAAAA and 0xBBBB.
pattern_a(a) == a * 3 + 1
pattern_b(a) == a * 5 + 2

-------------------------------------------------------------------------------
(* The Shadow.  Banks are numbered, bank 1 is consumed after a reset.      *)

NewShadow == [mem |-> [b \in 0..1 |-> [a \in Addr |-> Zero]],
              consume_bank |-> 0, rd_valid |-> FALSE, rd_data |-> Zero]

ShadowTick(rst, wr, rd, swap) ==
    LET bank == sh.consume_bank
        written == IF wr = <<>> THEN sh.mem
                   ELSE [sh.mem EXCEPT ![1 - bank][wr[1]] = wr[2]]
    IN  sh' = [mem |-> written,
               consume_bank |-> IF rst THEN 1 ELSE IF swap THEN 1 - bank ELSE bank,
               rd_valid |-> ~rst /\ rd # <<>>,
               rd_data |-> IF rst THEN Zero
                           ELSE IF rd = <<>> THEN sh.rd_data ELSE sh.mem[bank][rd[1]]]

-------------------------------------------------------------------------------
(* The directed tests.  A cycle's data is the word the program expects to  *)
(* have read, its fill the bank it expects to be filled, <<>> if it does   *)
(* not look.                                                               *)

Quiet == [rst |-> FALSE, wr |-> <<>>, rd |-> <<>>, swap |-> FALSE,
          sh_wr |-> <<>>,   \* the write the shadow is told of
          data |-> <<>>, fill |-> <<>>]
ResetCycle(f) == <<[Quiet EXCEPT !.rst = TRUE, !.fill = f]>>
SwapCycle(f) == <<[Quiet EXCEPT !.swap = TRUE, !.fill = f]>>
Writing(a, d) == [Quiet EXCEPT !.wr = <<a, d>>, !.sh_wr = <<a, d>>]
Reading(a, d) == [Quiet EXCEPT !.rd = <<a>>, !.data = <<d>>]

\* One cycle per address, in order.
Sweep(In(_)) == [i \in 1..DEPTH |-> In(i - 1)]

\* Fill bank 0, swap, read it back while filling bank 1, swap, read bank 1,
\* swap, look at bank 0 again.
directed_a ==
    LET FillA(a) == Writing(a, pattern_a(a))
        ReadAFillB(a) == [Writing(a, pattern_b(a)) EXCEPT !.rd = <<a>>, !.data = <<pattern_a(a)>>]
        ReadB(a) == Reading(a, pattern_b(a))
        Spot(i) == Reading((i - 1) * Stride, pattern_a((i - 1) * Stride))
    IN  ResetCycle(<<0>>) \o Sweep(FillA) \o SwapCycle(<<1>>) \o Sweep(ReadAFillB)
        \o SwapCycle(<<0>>) \o Sweep(ReadB) \o SwapCycle(<<>>)
        \o [i \in 1..((DEPTH + Stride - 1) \div Stride) |-> Spot(i)]

\* Read and swap in one cycle, at the last address.  wr_en is still up in the
\* cycle of the first swap, of which the shadow is not told.
directed_b ==
    LET a == DEPTH - 1
    IN  ResetCycle(<<>>)
        \o <<Writing(a, pattern_a(a)),
             [Quiet EXCEPT !.swap = TRUE, !.wr = <<a, pattern_a(a)>>],
             Writing(a, pattern_b(a)),
             [Reading(a, pattern_a(a)) EXCEPT !.swap = TRUE, !.fill = <<0>>]>>

\* A reset after a swap.
directed_c == ResetCycle(<<>>) \o SwapCycle(<<1>>) \o ResetCycle(<<0>>)

Script == [a |-> directed_a, b |-> directed_b, c |-> directed_c]

-------------------------------------------------------------------------------
\* The cycle's inputs at the scratchpad.
Drive(in) == IF in.rst THEN Reset(in.wr) ELSE Cycle(in.wr, in.rd, in.swap)

Directed ==
    /\ test \in DOMAIN Script /\ cycle < Len(Script[test])
    /\ LET in == Script[test][cycle + 1]
       IN  Drive(in) /\ ShadowTick(in.rst, in.sh_wr, in.rd, in.swap)
    /\ cycle' = cycle + 1 /\ UNCHANGED test

\* One cycle of the random test, after its reset: any inputs.  The program
\* does not reset again; here it may.
Random ==
    /\ test = "random"
    /\ \E rst \in BOOLEAN, wr \in WriteReq, rd \in ReadReq, swap \in BOOLEAN :
           /\ cycle = 0 => rst /\ wr = <<>>
           /\ rst => rd = <<>> /\ ~swap
           /\ Drive([rst |-> rst, wr |-> wr, rd |-> rd, swap |-> swap])
           /\ ShadowTick(rst, wr, rd, swap)
    /\ cycle' = 1 /\ UNCHANGED test

\* A new scratchpad, all zero as a simulation starts it, and a new Shadow.
TbInit ==
    /\ mem0 = NewShadow.mem[0] /\ mem1 = NewShadow.mem[1]
    /\ consume_bank_q = FALSE /\ rd_data = Zero /\ rd_valid = FALSE
    /\ asked \in Addr
    /\ test \in DOMAIN Script \cup {"random"} /\ cycle = 0 /\ sh = NewShadow

TbNext == Directed \/ Random

TbSpec == TbInit /\ [][TbNext]_allVars

-------------------------------------------------------------------------------
(* Properties.                                                             *)

\* check(): the outputs are those of the shadow.
Check == rd_valid = sh.rd_valid /\ (sh.rd_valid => rd_data = sh.rd_data)

Expected(e) == /\ e.data # <<>> => rd_data = e.data[1]
               /\ e.fill # <<>> => consume_bank_q = (e.fill[1] = 0)

(* Every comparison of the four tests succeeds: an independently written   *)
(* model of the two banks (tb_scratchpad.cpp:15-42) and the scratchpad     *)
(* agree on every read in every sequence of writes, reads, swaps and       *)
(* resets, and the directed tests read back what they wrote, from the      *)
(* frame they wrote it in.                                                 *)
ChecksPass ==
    /\ Check
    /\ test # "random" /\ cycle > 0 => Expected(Script[test][cycle])
===============================================================================
