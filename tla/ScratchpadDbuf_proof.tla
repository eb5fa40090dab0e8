------------------------- MODULE ScratchpadDbuf_proof -------------------------
(***************************************************************************)
(* The proofs about the scratchpad and the program that tests it, for      *)
(* every data set, depth of the banks and stride of the spot check: type   *)
(* correctness, that the two banks implement PingPong, and that every      *)
(* comparison of the test program succeeds.  For the last one the shadow   *)
(* holds what the scratchpad holds (Mirror), and a directed test knows     *)
(* from the number of its cycles which bank is read and which words have   *)
(* been filled (AfterA, AfterB, AfterC).                                   *)
(***************************************************************************)
EXTENDS TbScratchpad, TLAPS

(* A write leaves both banks total functions, whichever bank it hits.      *)
LEMMA WriteTyped ==
    ASSUME TypeOK, NEW wr \in WriteReq, WriteEdge(wr)
    PROVE  mem0' \in [Addr -> Data] /\ mem1' \in [Addr -> Data]
<1>1. wr # <<>> => wr[1] \in Addr /\ wr[2] \in Data
  BY DEF WriteReq
<1>2. QED
  BY <1>1 DEF TypeOK, WriteEdge

(* The registers of scratchpad_dbuf.sv keep their types over every cycle.  *)
THEOREM TypeCorrect == Spec => []TypeOK
<1>1. Init => TypeOK
  BY ScratchAssumption DEF Init, TypeOK
<1>2. TypeOK /\ [Next]_vars => TypeOK'
  <2> SUFFICES ASSUME TypeOK, [Next]_vars PROVE TypeOK'
    OBVIOUS
  <2>1. ASSUME NEW wr \in WriteReq, NEW rd \in ReadReq, NEW swap \in BOOLEAN,
               Cycle(wr, rd, swap)
        PROVE  TypeOK'
    <3>1. rd # <<>> => rd[1] \in Addr
      BY DEF ReadReq
    <3>2. mem0' \in [Addr -> Data] /\ mem1' \in [Addr -> Data]
      BY <2>1, WriteTyped DEF Cycle
    <3>3. consume_bank_q' \in BOOLEAN
      BY <2>1 DEF Cycle, BankEdge, TypeOK
    <3>4. rd_valid' \in BOOLEAN
      BY <2>1 DEF Cycle, ReadEdge
    <3>5. rd_data' \in Data /\ asked' \in Addr
      BY <2>1, <3>1 DEF Cycle, ReadEdge, TypeOK
    <3>6. QED
      BY <3>2, <3>3, <3>4, <3>5 DEF TypeOK
  <2>2. ASSUME NEW wr \in WriteReq, Reset(wr) PROVE TypeOK'
    <3>1. mem0' \in [Addr -> Data] /\ mem1' \in [Addr -> Data]
      BY <2>2, WriteTyped DEF Reset
    <3>2. QED
      BY <2>2, <3>1, ScratchAssumption DEF Reset, TypeOK
  <2>3. CASE UNCHANGED vars
    BY <2>3 DEF vars, TypeOK
  <2>4. QED
    BY <2>1, <2>2, <2>3 DEF Next
<1>3. QED
  BY <1>1, <1>2, PTL DEF Spec

(* The fill bank after a write is the abstract back frame after a write,   *)
(* and the consume bank is untouched.                                      *)
LEMMA WriteHitsFill ==
    ASSUME TypeOK, NEW wr \in WriteReq, WriteEdge(wr),
           NEW f, f = IF consume_bank_q THEN mem0' ELSE mem1'
    PROVE  /\ f \in [Addr -> Data]
           /\ PP!Written(f)
           /\ consume = IF consume_bank_q THEN mem1' ELSE mem0'
<1>1. wr # <<>> => wr[1] \in Addr /\ wr[2] \in Data
  BY DEF WriteReq
<1>2. f \in [Addr -> Data]
  BY WriteTyped
<1>3. PP!Written(f)
  <2>1. CASE wr = <<>>
    BY <2>1 DEF PP!Written, WriteEdge, fill
  <2>2. CASE wr # <<>>
    <3>1. f = [fill EXCEPT ![wr[1]] = wr[2]]
      BY <2>2 DEF WriteEdge, fill
    <3>2. QED
      BY <2>2, <3>1, <1>1 DEF PP!Written
  <2>3. QED
    BY <2>1, <2>2
<1>4. consume = IF consume_bank_q THEN mem1' ELSE mem0'
  BY DEF WriteEdge, consume
<1>5. QED
  BY <1>2, <1>3, <1>4

(* scratchpad_dbuf.sv implements the abstract frame exchange: initial      *)
(* states map to initial states, every clock edge, with any combination of *)
(* write, read, swap and reset, maps to one abstract step.                 *)
THEOREM Refinement == Spec => ImplementsPingPong
<1>1. Init => PP!PInit
  BY DEF Init, PP!PInit, consume, fill
<1>2. TypeOK /\ [Next]_vars => [PP!PNext]_(PP!pvars)
  <2> SUFFICES ASSUME TypeOK, [Next]_vars PROVE [PP!PNext]_(PP!pvars)
    OBVIOUS
  <2> DEFINE f == IF consume_bank_q THEN mem0' ELSE mem1'
  <2>1. ASSUME NEW wr \in WriteReq, NEW rd \in ReadReq, NEW swap \in BOOLEAN,
               Cycle(wr, rd, swap)
        PROVE  PP!PCycle
    <3>1. /\ f \in [Addr -> Data] /\ PP!Written(f)
          /\ consume = IF consume_bank_q THEN mem1' ELSE mem0'
      BY <2>1, WriteHitsFill DEF Cycle
    <3>2. PP!Fill(f) \/ PP!Swap(f)
      <4>1. CASE ~swap
        BY <2>1, <3>1, <4>1 DEF Cycle, BankEdge, PP!Fill, consume, fill
      <4>2. CASE swap
        BY <2>1, <3>1, <4>2 DEF Cycle, BankEdge, PP!Swap, consume, fill, TypeOK
      <4>3. QED
        BY <4>1, <4>2
    <3>3. (IF rd_valid' THEN <<asked', rd_data'>> ELSE <<>>) \in PP!Answers
      <4>1. CASE rd = <<>>
        BY <2>1, <4>1 DEF Cycle, ReadEdge, PP!Answers
      <4>2. CASE rd # <<>>
        <5>1. PICK a \in Addr : rd = <<a>>
          BY <4>2 DEF ReadReq
        <5>2. rd_valid' /\ asked' = a /\ rd_data' = consume[a]
          BY <2>1, <5>1, <4>2 DEF Cycle, ReadEdge, consume
        <5>3. QED
          BY <5>2 DEF PP!Answers
      <4>3. QED
        BY <4>1, <4>2
    <3>4. QED
      BY <3>1, <3>2, <3>3 DEF PP!PCycle
  <2>2. ASSUME NEW wr \in WriteReq, Reset(wr)
        PROVE  PP!PReset
    <3>1. /\ f \in [Addr -> Data] /\ PP!Written(f)
          /\ consume = IF consume_bank_q THEN mem1' ELSE mem0'
      BY <2>2, WriteHitsFill DEF Reset
    <3>2. PP!Fill(f) \/ PP!Swap(f)
      BY <2>2, <3>1 DEF Reset, PP!Fill, PP!Swap, consume, fill, TypeOK
    <3>3. (IF rd_valid' THEN <<asked', rd_data'>> ELSE <<>>) = <<>>
      BY <2>2 DEF Reset
    <3>4. QED
      BY <3>1, <3>2, <3>3 DEF PP!PReset
  <2>3. CASE UNCHANGED vars
    BY <2>3 DEF vars, PP!pvars, consume, fill
  <2>4. QED
    BY <2>1, <2>2, <2>3 DEF Next, PP!PNext
<1>3. QED
  BY <1>1, <1>2, TypeCorrect, PTL DEF Spec, ImplementsPingPong, PP!PSpec

-------------------------------------------------------------------------------
(* The test program: its shadow, and where a directed test is.             *)

\* What a directed test may put into a cycle.
Word == {<<>>} \cup {<<a>> : a \in Int}
Pair == {<<>>} \cup (Int \X Int)
CycleType == [rst : BOOLEAN, wr : Pair, rd : Word, swap : BOOLEAN,
              sh_wr : Pair, data : Word, fill : Word]

\* q is s, of length k, and then t, m long in all.
Joined(q, s, t, k, m) ==
    /\ q \in Seq(CycleType) /\ Len(q) = m
    /\ \A i \in 1..k : q[i] = s[i]
    /\ \A i \in (k + 1)..m : q[i] = t[i - k]

LEMMA ConcatAt ==
    ASSUME NEW s \in Seq(CycleType), NEW t \in Seq(CycleType),
           NEW k \in Nat, NEW l \in Nat, NEW m \in Nat, Len(s) = k, Len(t) = l, m = k + l
    PROVE  Joined(s \o t, s, t, k, m)
<1>1. s \o t \in Seq(CycleType) /\ Len(s \o t) = m
  OBVIOUS
<1>2. \A i \in 1..k : (s \o t)[i] = s[i]
  OBVIOUS
<1>3. ASSUME NEW i \in (k + 1)..m PROVE (s \o t)[i] = t[i - k]
  OBVIOUS
<1>4. QED
  BY <1>1, <1>2, <1>3 DEF Joined

LEMMA CyclesTyped ==
    /\ \A f \in Word : /\ [Quiet EXCEPT !.rst = TRUE, !.fill = f] \in CycleType
                       /\ [Quiet EXCEPT !.swap = TRUE, !.fill = f] \in CycleType
    /\ \A a, d, e \in Int :
           /\ Writing(a, d) \in CycleType /\ Reading(a, d) \in CycleType
           /\ [Writing(a, d) EXCEPT !.rd = <<a>>, !.data = <<e>>] \in CycleType
<1>1. /\ <<>> \in Pair /\ <<>> \in Word
      /\ \A a, d \in Int : <<a>> \in Word /\ <<a, d>> \in Pair
  BY DEF Word, Pair
<1>2. ASSUME NEW f \in Word
      PROVE  /\ [Quiet EXCEPT !.rst = TRUE, !.fill = f] \in CycleType
             /\ [Quiet EXCEPT !.swap = TRUE, !.fill = f] \in CycleType
  BY <1>1 DEF CycleType, Quiet
<1>3. ASSUME NEW a \in Int, NEW d \in Int, NEW e \in Int
      PROVE  /\ Writing(a, d) \in CycleType /\ Reading(a, d) \in CycleType
             /\ [Writing(a, d) EXCEPT !.rd = <<a>>, !.data = <<e>>] \in CycleType
  BY <1>1 DEF CycleType, Quiet, Writing, Reading
<1>4. QED
  BY <1>2, <1>3

LEMMA ProductBound ==
    ASSUME NEW x \in Nat, NEW s \in Nat \ {0} PROVE (x \div s) * s <= x /\ x \div s \in Nat
OBVIOUS

LEMMA StrideInRange ==
    ASSUME NEW i \in 1..((DEPTH + Stride - 1) \div Stride)
    PROVE  (i - 1) * Stride \in 0..(DEPTH - 1)
<1> DEFINE q == (DEPTH + Stride - 1) \div Stride
<1>1. DEPTH \in Nat \ {0} /\ Stride \in Nat \ {0} /\ DEPTH + Stride - 1 \in Nat
  BY TbAssumption
<1>2. q \in Nat /\ q * Stride <= DEPTH + Stride - 1
  BY <1>1, ProductBound
<1> HIDE DEF q
<1>3. i \in Nat /\ i <= q /\ 0 <= i - 1
  BY <1>2 DEF q
<1>4. (i - 1) * Stride <= (q - 1) * Stride /\ 0 <= (i - 1) * Stride
  BY <1>1, <1>2, <1>3
<1>5. (q - 1) * Stride = q * Stride - Stride
  BY <1>1, <1>2
<1>6. (i - 1) * Stride \in Int
  BY <1>1, <1>3
<1>7. QED
  BY <1>1, <1>2, <1>4, <1>5, <1>6

\* The cycles of test a: what is driven at each position.
FillA(a) == Writing(a, pattern_a(a))
ReadAFillB(a) == [Writing(a, pattern_b(a)) EXCEPT !.rd = <<a>>, !.data = <<pattern_a(a)>>]
ReadB(a) == Reading(a, pattern_b(a))
Spots == (DEPTH + Stride - 1) \div Stride

AtA(i, in) ==
    /\ i = 1 => in = ResetCycle(<<0>>)[1]
    /\ \A a \in Addr : i = a + 2 => in = FillA(a)
    /\ i = DEPTH + 2 => in = SwapCycle(<<1>>)[1]
    /\ \A a \in Addr : i = DEPTH + 3 + a => in = ReadAFillB(a)
    /\ i = 2 * DEPTH + 3 => in = SwapCycle(<<0>>)[1]
    /\ \A a \in Addr : i = 2 * DEPTH + 4 + a => in = ReadB(a)
    /\ i = 3 * DEPTH + 4 => in = SwapCycle(<<>>)[1]
    /\ i > 3 * DEPTH + 4 => \E a \in Addr : in = Reading(a, pattern_a(a))

LEMMA ScriptA ==
    Len(directed_a) \in Nat /\ \A i \in 1..Len(directed_a) : AtA(i, directed_a[i])
<1> DEFINE P1 == ResetCycle(<<0>>)
           P2 == [i \in 1..DEPTH |-> FillA(i - 1)]
           P3 == SwapCycle(<<1>>)
           P4 == [i \in 1..DEPTH |-> ReadAFillB(i - 1)]
           P5 == SwapCycle(<<0>>)
           P6 == [i \in 1..DEPTH |-> ReadB(i - 1)]
           P7 == SwapCycle(<<>>)
           P8 == [i \in 1..Spots |-> Reading((i - 1) * Stride, pattern_a((i - 1) * Stride))]
           Q2 == P1 \o P2
           Q3 == Q2 \o P3
           Q4 == Q3 \o P4
           Q5 == Q4 \o P5
           Q6 == Q5 \o P6
           Q7 == Q6 \o P7
<1>1. directed_a = Q7 \o P8
  BY DEF directed_a, Sweep, FillA, ReadAFillB, ReadB, Spots
<1>2. /\ DEPTH \in Nat \ {0} /\ Spots \in Nat /\ \A i \in 1..DEPTH : i - 1 \in Addr
      /\ \A a \in Addr : a \in Int /\ 0 <= a /\ a <= DEPTH - 1
  <2>1. DEPTH \in Nat \ {0} /\ Stride \in Nat \ {0} /\ DEPTH + Stride - 1 \in Nat
    BY TbAssumption
  <2>2. Spots \in Nat
    BY <2>1, ProductBound DEF Spots
  <2>3. QED
    BY <2>1, <2>2, TbAssumption
<1>3. \A a \in Int : pattern_a(a) \in Int /\ pattern_b(a) \in Int
  BY DEF pattern_a, pattern_b
<1>4. /\ <<>> \in Word /\ <<0>> \in Word /\ <<1>> \in Word
  BY DEF Word
<1>5. /\ P1 \in Seq(CycleType) /\ Len(P1) = 1 /\ P3 \in Seq(CycleType) /\ Len(P3) = 1
      /\ P5 \in Seq(CycleType) /\ Len(P5) = 1 /\ P7 \in Seq(CycleType) /\ Len(P7) = 1
  <2>1. \A x \in CycleType : <<x>> \in Seq(CycleType) /\ Len(<<x>>) = 1
    OBVIOUS
  <2>2. \A f \in Word : /\ [Quiet EXCEPT !.rst = TRUE, !.fill = f] \in CycleType
                        /\ [Quiet EXCEPT !.swap = TRUE, !.fill = f] \in CycleType
    BY CyclesTyped, Zenon
  <2>3. \A f \in Word : /\ ResetCycle(f) \in Seq(CycleType) /\ Len(ResetCycle(f)) = 1
                        /\ SwapCycle(f) \in Seq(CycleType) /\ Len(SwapCycle(f)) = 1
    BY <2>1, <2>2, Zenon DEF ResetCycle, SwapCycle
  <2>4. QED
    BY <1>4, <2>3
<1>6. P2 \in Seq(CycleType) /\ Len(P2) = DEPTH
  <2>1. \A i \in 1..DEPTH : FillA(i - 1) \in CycleType
    BY <1>2, <1>3, <1>4, CyclesTyped DEF FillA
  <2>2. QED
    BY <1>2, <2>1
<1>7. P4 \in Seq(CycleType) /\ Len(P4) = DEPTH
  <2>1. \A i \in 1..DEPTH : ReadAFillB(i - 1) \in CycleType
    BY <1>2, <1>3, <1>4, CyclesTyped DEF ReadAFillB
  <2>2. QED
    BY <1>2, <2>1
<1>8. P6 \in Seq(CycleType) /\ Len(P6) = DEPTH
  <2>1. \A i \in 1..DEPTH : ReadB(i - 1) \in CycleType
    BY <1>2, <1>3, <1>4, CyclesTyped DEF ReadB
  <2>2. QED
    BY <1>2, <2>1
<1>9. /\ P8 \in Seq(CycleType) /\ Len(P8) = Spots
      /\ \A i \in 1..Spots : (i - 1) * Stride \in Addr
  <2>1. \A i \in 1..Spots : (i - 1) * Stride \in Addr
    BY StrideInRange, TbAssumption DEF Spots
  <2>2. \A i \in 1..Spots : Reading((i - 1) * Stride, pattern_a((i - 1) * Stride)) \in CycleType
    BY <1>2, <1>3, <1>4, <2>1, CyclesTyped
  <2>3. QED
    BY <1>2, <2>1, <2>2
<1> DEFINE A(i) == directed_a[i]
<1> HIDE DEF P1, P2, P3, P4, P5, P6, P7, P8
<1>10. Joined(Q2, P1, P2, 1, DEPTH + 1)
  <2>1. 1 \in Nat /\ DEPTH \in Nat /\ DEPTH + 1 \in Nat /\ DEPTH + 1 = (1) + DEPTH
    BY <1>2
  <2>2. P1 \in Seq(CycleType) /\ P2 \in Seq(CycleType) /\ Len(P1) = 1 /\ Len(P2) = DEPTH
    BY <1>5, <1>6 DEF Joined
  <2>3. QED
    BY <2>1, <2>2, ConcatAt
<1> HIDE DEF Q2
<1>11. Joined(Q3, Q2, P3, DEPTH + 1, DEPTH + 2)
  <2>1. DEPTH + 1 \in Nat /\ 1 \in Nat /\ DEPTH + 2 \in Nat /\ DEPTH + 2 = (DEPTH + 1) + 1
    BY <1>2
  <2>2. Q2 \in Seq(CycleType) /\ P3 \in Seq(CycleType) /\ Len(Q2) = DEPTH + 1 /\ Len(P3) = 1
    BY <1>10, <1>5 DEF Joined
  <2>3. QED
    BY <2>1, <2>2, ConcatAt
<1> HIDE DEF Q3
<1>12. Joined(Q4, Q3, P4, DEPTH + 2, 2 * DEPTH + 2)
  <2>1. DEPTH + 2 \in Nat /\ DEPTH \in Nat /\ 2 * DEPTH + 2 \in Nat /\ 2 * DEPTH + 2 = (DEPTH + 2) + DEPTH
    BY <1>2
  <2>2. Q3 \in Seq(CycleType) /\ P4 \in Seq(CycleType) /\ Len(Q3) = DEPTH + 2 /\ Len(P4) = DEPTH
    BY <1>11, <1>7 DEF Joined
  <2>3. QED
    BY <2>1, <2>2, ConcatAt
<1> HIDE DEF Q4
<1>13. Joined(Q5, Q4, P5, 2 * DEPTH + 2, 2 * DEPTH + 3)
  <2>1. 2 * DEPTH + 2 \in Nat /\ 1 \in Nat /\ 2 * DEPTH + 3 \in Nat /\ 2 * DEPTH + 3 = (2 * DEPTH + 2) + 1
    BY <1>2
  <2>2. Q4 \in Seq(CycleType) /\ P5 \in Seq(CycleType) /\ Len(Q4) = 2 * DEPTH + 2 /\ Len(P5) = 1
    BY <1>12, <1>5 DEF Joined
  <2>3. QED
    BY <2>1, <2>2, ConcatAt
<1> HIDE DEF Q5
<1>14. Joined(Q6, Q5, P6, 2 * DEPTH + 3, 3 * DEPTH + 3)
  <2>1. 2 * DEPTH + 3 \in Nat /\ DEPTH \in Nat /\ 3 * DEPTH + 3 \in Nat /\ 3 * DEPTH + 3 = (2 * DEPTH + 3) + DEPTH
    BY <1>2
  <2>2. Q5 \in Seq(CycleType) /\ P6 \in Seq(CycleType) /\ Len(Q5) = 2 * DEPTH + 3 /\ Len(P6) = DEPTH
    BY <1>13, <1>8 DEF Joined
  <2>3. QED
    BY <2>1, <2>2, ConcatAt
<1> HIDE DEF Q6
<1>15. Joined(Q7, Q6, P7, 3 * DEPTH + 3, 3 * DEPTH + 4)
  <2>1. 3 * DEPTH + 3 \in Nat /\ 1 \in Nat /\ 3 * DEPTH + 4 \in Nat /\ 3 * DEPTH + 4 = (3 * DEPTH + 3) + 1
    BY <1>2
  <2>2. Q6 \in Seq(CycleType) /\ P7 \in Seq(CycleType) /\ Len(Q6) = 3 * DEPTH + 3 /\ Len(P7) = 1
    BY <1>14, <1>5 DEF Joined
  <2>3. QED
    BY <2>1, <2>2, ConcatAt
<1> HIDE DEF Q7
<1>16. Joined(directed_a, Q7, P8, 3 * DEPTH + 4, 3 * DEPTH + 4 + Spots)
  <2>1. 3 * DEPTH + 4 \in Nat /\ Spots \in Nat /\ 3 * DEPTH + 4 + Spots \in Nat /\ 3 * DEPTH + 4 + Spots = (3 * DEPTH + 4) + Spots
    BY <1>2
  <2>2. Q7 \in Seq(CycleType) /\ P8 \in Seq(CycleType) /\ Len(Q7) = 3 * DEPTH + 4 /\ Len(P8) = Spots
    BY <1>15, <1>9 DEF Joined
  <2>3. QED
    BY <1>1, <2>1, <2>2, ConcatAt
<1>17. \A i \in 1..(2 * DEPTH + 3) : directed_a[i] = Q5[i]
  BY <1>2, <1>14, <1>15, <1>16 DEF Joined
<1>18. \A i \in 1..(DEPTH + 2) : directed_a[i] = Q3[i]
  BY <1>2, <1>12, <1>13, <1>17 DEF Joined
<1>19. directed_a[1] = ResetCycle(<<0>>)[1]
  BY <1>2, <1>10, <1>11, <1>18 DEF Joined, P1
<1>20. ASSUME NEW a \in Addr
       PROVE  /\ directed_a[a + 2] = FillA(a)
              /\ directed_a[DEPTH + 3 + a] = ReadAFillB(a)
              /\ directed_a[2 * DEPTH + 4 + a] = ReadB(a)
  <2>1. a + 1 \in 1..DEPTH /\ (a + 1) - 1 = a
    BY <1>2
  <2>2. directed_a[a + 2] = P2[a + 1]
    <3>1. a + 2 \in 1..(DEPTH + 2) /\ a + 2 \in 1..(DEPTH + 1) /\ a + 2 \in 2..(1 + DEPTH)
          /\ (a + 2) - 1 = a + 1
      BY <1>2
    <3>2. QED
      BY <3>1, <1>10, <1>11, <1>18 DEF Joined
  <2>3. directed_a[DEPTH + 3 + a] = P4[a + 1]
    <3>1. /\ DEPTH + 3 + a \in 1..(2 * DEPTH + 3) /\ DEPTH + 3 + a \in 1..(2 * DEPTH + 2)
          /\ DEPTH + 3 + a \in ((DEPTH + 2) + 1)..(2 * DEPTH + 2)
          /\ (DEPTH + 3 + a) - (DEPTH + 2) = a + 1
      BY <1>2
    <3>2. QED
      BY <3>1, <1>12, <1>13, <1>17 DEF Joined
  <2>4. directed_a[2 * DEPTH + 4 + a] = P6[a + 1]
    <3>1. /\ 2 * DEPTH + 4 + a \in 1..(3 * DEPTH + 4) /\ 2 * DEPTH + 4 + a \in 1..(3 * DEPTH + 3)
          /\ 2 * DEPTH + 4 + a \in ((2 * DEPTH + 3) + 1)..(3 * DEPTH + 3)
          /\ (2 * DEPTH + 4 + a) - (2 * DEPTH + 3) = a + 1
      BY <1>2
    <3>2. QED
      BY <3>1, <1>14, <1>15, <1>16 DEF Joined
  <2>5. P2[a + 1] = FillA(a) /\ P4[a + 1] = ReadAFillB(a) /\ P6[a + 1] = ReadB(a)
    BY <2>1 DEF P2, P4, P6
  <2>6. QED
    BY <2>2, <2>3, <2>4, <2>5
<1>21. /\ directed_a[DEPTH + 2] = SwapCycle(<<1>>)[1]
       /\ directed_a[2 * DEPTH + 3] = SwapCycle(<<0>>)[1]
       /\ directed_a[3 * DEPTH + 4] = SwapCycle(<<>>)[1]
  <2>1. directed_a[DEPTH + 2] = P3[1]
    BY <1>2, <1>11, <1>18 DEF Joined
  <2>2. directed_a[2 * DEPTH + 3] = P5[1]
    BY <1>2, <1>13, <1>17 DEF Joined
  <2>3. directed_a[3 * DEPTH + 4] = P7[1]
    BY <1>2, <1>15, <1>16 DEF Joined
  <2>4. QED
    BY <2>1, <2>2, <2>3 DEF P3, P5, P7
<1>22. ASSUME NEW i \in 1..Len(directed_a), i > 3 * DEPTH + 4
       PROVE  \E a \in Addr : directed_a[i] = Reading(a, pattern_a(a))
  <2> DEFINE j == i - (3 * DEPTH + 4)
  <2>1. j \in 1..Spots /\ i \in ((3 * DEPTH + 4) + 1)..(3 * DEPTH + 4 + Spots)
    BY <1>2, <1>16, <1>22 DEF Joined
  <2>2. directed_a[i] = P8[j]
    BY <1>16, <2>1 DEF Joined
  <2> HIDE DEF j
  <2>3. QED
    BY <1>9, <2>1, <2>2 DEF P8
<1>23. QED
  BY <1>19, <1>20, <1>21, <1>22 DEF AtA

\* The cycles of test b, at the last address, and of test c.
AtB(i, in) ==
    LET a == DEPTH - 1
    IN  /\ i = 1 => in = ResetCycle(<<>>)[1]
        /\ i = 2 => in = Writing(a, pattern_a(a))
        /\ i = 3 => in = [Quiet EXCEPT !.swap = TRUE, !.wr = <<a, pattern_a(a)>>]
        /\ i = 4 => in = Writing(a, pattern_b(a))
        /\ i = 5 => in = [Reading(a, pattern_a(a)) EXCEPT !.swap = TRUE, !.fill = <<0>>]
        /\ i \in 1..5

AtC(i, in) ==
    /\ i = 1 => in = ResetCycle(<<>>)[1]
    /\ i = 2 => in = SwapCycle(<<1>>)[1]
    /\ i = 3 => in = ResetCycle(<<0>>)[1]
    /\ i \in 1..3

LEMMA FiveCycles ==
    \A x1, x2, x3, x4, x5 :
        LET s == <<x1>> \o <<x2, x3, x4, x5>>
        IN  /\ Len(s) = 5
            /\ s[1] = x1 /\ s[2] = x2 /\ s[3] = x3 /\ s[4] = x4 /\ s[5] = x5
OBVIOUS

LEMMA TwoCycles ==
    ASSUME NEW x1 \in CycleType, NEW x2 \in CycleType
    PROVE  /\ <<x1>> \o <<x2>> \in Seq(CycleType) /\ Len(<<x1>> \o <<x2>>) = 2
           /\ (<<x1>> \o <<x2>>)[1] = x1 /\ (<<x1>> \o <<x2>>)[2] = x2
OBVIOUS

LEMMA OneMoreCycle ==
    ASSUME NEW t \in Seq(CycleType), Len(t) = 2, NEW x \in CycleType
    PROVE  /\ Len(t \o <<x>>) = 3
           /\ (t \o <<x>>)[1] = t[1] /\ (t \o <<x>>)[2] = t[2] /\ (t \o <<x>>)[3] = x
<1> DEFINE u == <<x>>
<1>1. u \in Seq(CycleType) /\ Len(u) = 1 /\ u[1] = x
  OBVIOUS
<1> HIDE DEF u
<1>2. 2 \in Nat /\ 1 \in Nat /\ 3 \in Nat /\ 3 = 2 + 1
  OBVIOUS
<1>3. Joined(t \o u, t, u, 2, 3)
  BY <1>1, <1>2, ConcatAt
<1>4. QED
  BY <1>1, <1>3 DEF Joined, u

LEMMA ScriptB == Len(directed_b) \in Nat /\ \A i \in 1..Len(directed_b) : AtB(i, directed_b[i])
<1> DEFINE a == DEPTH - 1
           w1 == [Quiet EXCEPT !.rst = TRUE, !.fill = <<>>]
           w2 == Writing(a, pattern_a(a))
           w3 == [Quiet EXCEPT !.swap = TRUE, !.wr = <<a, pattern_a(a)>>]
           w4 == Writing(a, pattern_b(a))
           w5 == [Reading(a, pattern_a(a)) EXCEPT !.swap = TRUE, !.fill = <<0>>]
           s == <<w1>> \o <<w2, w3, w4, w5>>
<1>1. directed_b = s
  BY Zenon DEF directed_b, ResetCycle
<1>2. /\ Len(s) = 5
      /\ s[1] = w1 /\ s[2] = w2 /\ s[3] = w3 /\ s[4] = w4 /\ s[5] = w5
  <2> HIDE DEF w1, w2, w3, w4, w5
  <2>1. QED
    BY FiveCycles
<1>3. ResetCycle(<<>>)[1] = w1
  BY DEF ResetCycle
<1> HIDE DEF s
<1>4. QED
  BY <1>1, <1>2, <1>3 DEF AtB

LEMMA ScriptC == Len(directed_c) \in Nat /\ \A i \in 1..Len(directed_c) : AtC(i, directed_c[i])
<1> DEFINE w1 == [Quiet EXCEPT !.rst = TRUE, !.fill = <<>>]
           w2 == [Quiet EXCEPT !.swap = TRUE, !.fill = <<1>>]
           w3 == [Quiet EXCEPT !.rst = TRUE, !.fill = <<0>>]
           t == <<w1>> \o <<w2>>
<1>1. directed_c = t \o <<w3>>
  BY Zenon DEF directed_c, ResetCycle, SwapCycle
<1>2. w1 \in CycleType /\ w2 \in CycleType /\ w3 \in CycleType
  <2>1. <<>> \in Word /\ <<0>> \in Word /\ <<1>> \in Word
    BY DEF Word
  <2>2. QED
    BY <2>1, CyclesTyped, Zenon
<1>3. ResetCycle(<<>>)[1] = w1 /\ SwapCycle(<<1>>)[1] = w2 /\ ResetCycle(<<0>>)[1] = w3
  BY DEF ResetCycle, SwapCycle
<1> HIDE DEF w1, w2, w3
<1>4. t \in Seq(CycleType) /\ Len(t) = 2 /\ t[1] = w1 /\ t[2] = w2
  BY <1>2, TwoCycles
<1> HIDE DEF t
<1>5. Len(directed_c) = 3 /\ directed_c[1] = w1 /\ directed_c[2] = w2 /\ directed_c[3] = w3
  BY <1>1, <1>2, <1>4, OneMoreCycle
<1>6. QED
  BY <1>3, <1>5 DEF AtC

\* The scratchpad and the shadow hold the same.
Mirror ==
    /\ DOMAIN mem0 = Addr /\ DOMAIN mem1 = Addr
    /\ mem0 = [x \in DOMAIN mem0 |-> mem0[x]]
    /\ DOMAIN sh.mem = 0..1 /\ sh.mem = [b \in 0..1 |-> sh.mem[b]]
    /\ sh.mem[0] = mem0 /\ sh.mem[1] = mem1
    /\ sh.consume_bank = IF consume_bank_q THEN 1 ELSE 0
    /\ consume_bank_q \in BOOLEAN
    /\ rd_valid = sh.rd_valid /\ rd_data = sh.rd_data

\* A write of the program that the shadow is not told of changes nothing.
Told(wr, sh_wr) ==
    \/ sh_wr = wr
    \/ /\ sh_wr = <<>> /\ consume_bank_q
       /\ [mem0 EXCEPT ![wr[1]] = wr[2]] = mem0

LEMMA MirrorStep ==
    ASSUME Mirror, NEW in, Drive(in), ShadowTick(in.rst, in.sh_wr, in.rd, in.swap),
           in.rst \in BOOLEAN, in.swap \in BOOLEAN, Told(in.wr, in.sh_wr)
    PROVE  /\ Mirror'
           /\ consume_bank_q' = IF in.rst THEN TRUE
                                ELSE IF in.swap THEN ~ consume_bank_q ELSE consume_bank_q
           /\ mem0' = IF in.wr # <<>> /\ consume_bank_q
                      THEN [mem0 EXCEPT ![in.wr[1]] = in.wr[2]] ELSE mem0
           /\ mem1' = IF in.wr # <<>> /\ ~ consume_bank_q
                      THEN [mem1 EXCEPT ![in.wr[1]] = in.wr[2]] ELSE mem1
           /\ rd_data' = IF in.rst THEN Zero ELSE IF in.rd = <<>> THEN rd_data
                         ELSE IF consume_bank_q THEN mem1[in.rd[1]] ELSE mem0[in.rd[1]]
<1>1. WriteEdge(in.wr)
  BY DEF Drive, Reset, Cycle
<1>2. /\ mem0' = IF in.wr # <<>> /\ consume_bank_q
                 THEN [mem0 EXCEPT ![in.wr[1]] = in.wr[2]] ELSE mem0
      /\ mem1' = IF in.wr # <<>> /\ ~ consume_bank_q
                 THEN [mem1 EXCEPT ![in.wr[1]] = in.wr[2]] ELSE mem1
  BY <1>1 DEF WriteEdge
<1>3. consume_bank_q' = IF in.rst THEN TRUE
                        ELSE IF in.swap THEN ~ consume_bank_q ELSE consume_bank_q
  BY DEF Drive, Reset, Cycle, BankEdge
<1>4. rd_data' = IF in.rst THEN Zero ELSE IF in.rd = <<>> THEN rd_data
                 ELSE IF consume_bank_q THEN mem1[in.rd[1]] ELSE mem0[in.rd[1]]
  BY DEF Drive, Reset, Cycle, ReadEdge
<1>5. rd_valid' = (~ in.rst /\ in.rd # <<>>)
  BY DEF Drive, Reset, Cycle, ReadEdge
<1>6. /\ sh'.mem = IF in.sh_wr = <<>> THEN sh.mem
                   ELSE [sh.mem EXCEPT ![1 - sh.consume_bank][in.sh_wr[1]] = in.sh_wr[2]]
      /\ sh'.consume_bank = IF in.rst THEN 1 ELSE IF in.swap THEN 1 - sh.consume_bank
                                                  ELSE sh.consume_bank
      /\ sh'.rd_valid = (~ in.rst /\ in.rd # <<>>)
      /\ sh'.rd_data = IF in.rst THEN Zero ELSE IF in.rd = <<>> THEN sh.rd_data
                       ELSE sh.mem[sh.consume_bank][in.rd[1]]
  BY DEF ShadowTick
<1>7. /\ DOMAIN sh'.mem = 0..1 /\ sh'.mem = [b \in 0..1 |-> sh'.mem[b]]
      /\ sh'.mem[0] = mem0' /\ sh'.mem[1] = mem1'
  <2>1. CASE in.sh_wr = <<>>
    <3>1. sh'.mem = sh.mem /\ mem0' = mem0 /\ mem1' = mem1
      BY <1>2, <1>6, <2>1 DEF Told
    <3>2. QED
      BY <3>1 DEF Mirror
  <2>2. CASE in.sh_wr # <<>>
    <3>1. in.sh_wr = in.wr
      BY <2>2 DEF Told
    <3>2. /\ DOMAIN sh'.mem = 0..1 /\ sh'.mem = [b \in 0..1 |-> sh'.mem[b]]
          /\ \A b \in 0..1 : sh'.mem[b] = IF b = 1 - sh.consume_bank
                                          THEN [sh.mem[b] EXCEPT ![in.wr[1]] = in.wr[2]]
                                          ELSE sh.mem[b]
      BY <1>6, <2>2, <3>1 DEF Mirror
    <3>3. CASE consume_bank_q
      <4>1. 1 - sh.consume_bank = 0
        BY <3>3 DEF Mirror
      <4>2. sh'.mem[0] = [sh.mem[0] EXCEPT ![in.wr[1]] = in.wr[2]] /\ sh'.mem[1] = sh.mem[1]
        BY <3>2, <4>1
      <4>3. mem0' = [mem0 EXCEPT ![in.wr[1]] = in.wr[2]] /\ mem1' = mem1
        BY <1>2, <2>2, <3>1, <3>3
      <4>4. QED
        BY <3>2, <4>2, <4>3 DEF Mirror
    <3>4. CASE ~ consume_bank_q
      <4>1. 1 - sh.consume_bank = 1
        BY <3>4 DEF Mirror
      <4>2. sh'.mem[1] = [sh.mem[1] EXCEPT ![in.wr[1]] = in.wr[2]] /\ sh'.mem[0] = sh.mem[0]
        BY <3>2, <4>1
      <4>3. mem1' = [mem1 EXCEPT ![in.wr[1]] = in.wr[2]] /\ mem0' = mem0
        BY <1>2, <2>2, <3>1, <3>4
      <4>4. QED
        BY <3>2, <4>2, <4>3 DEF Mirror
    <3>5. QED
      BY <3>3, <3>4
  <2>3. QED
    BY <2>1, <2>2
<1>8. DOMAIN mem0' = Addr /\ DOMAIN mem1' = Addr /\ mem0' = [x \in DOMAIN mem0' |-> mem0'[x]]
  BY <1>2 DEF Mirror
<1>9. sh'.consume_bank = (IF consume_bank_q' THEN 1 ELSE 0) /\ consume_bank_q' \in BOOLEAN
  <2>1. consume_bank_q' \in BOOLEAN
    BY <1>3, Zenon DEF Mirror
  <2>2. CASE in.rst
    BY <1>3, <1>6, <2>2, <2>1
  <2>3. CASE ~ in.rst /\ in.swap
    <3>1. consume_bank_q' <=> ~ consume_bank_q
      BY <1>3, <2>3, Zenon
    <3>2. sh'.consume_bank = 1 - sh.consume_bank
      BY <1>6, <2>3
    <3>3. sh.consume_bank = IF consume_bank_q' THEN 0 ELSE 1
      BY <3>1, Zenon DEF Mirror
    <3>4. QED
      BY <2>1, <3>2, <3>3
  <2>4. CASE ~ in.rst /\ ~ in.swap
    <3>1. sh'.consume_bank = sh.consume_bank /\ (consume_bank_q' <=> consume_bank_q)
      BY <1>3, <1>6, <2>4, Zenon
    <3>2. QED
      BY <2>1, <3>1, Zenon DEF Mirror
  <2>5. QED
    BY <2>2, <2>3, <2>4
<1>10. rd_valid' = sh'.rd_valid /\ rd_data' = sh'.rd_data
  BY <1>4, <1>5, <1>6 DEF Mirror
<1>11. QED
  BY <1>2, <1>3, <1>4, <1>7, <1>8, <1>9, <1>10 DEF Mirror

\* Test a after a number of cycles: which bank is read, and what has been filled.
AfterA ==
    cycle > 0 =>
        /\ consume_bank_q <=> \/ cycle <= DEPTH + 1
                              \/ 2 * DEPTH + 3 <= cycle /\ cycle <= 3 * DEPTH + 3
        /\ \A a \in Addr : a + 2 <= cycle => mem0[a] = pattern_a(a)
        /\ \A a \in Addr : a + DEPTH + 3 <= cycle => mem1[a] = pattern_b(a)

AfterB ==
    cycle > 0 => /\ consume_bank_q <=> cycle \notin {3, 4}
                 /\ cycle \in 2..4 => mem0[DEPTH - 1] = pattern_a(DEPTH - 1)

AfterC == cycle > 0 => (consume_bank_q <=> cycle # 2)

\* What the program compares after this cycle.
Seen(in) ==
    /\ in.data # <<>> => rd_data' = in.data[1]
    /\ in.fill # <<>> => (consume_bank_q' <=> in.fill[1] = 0)

\* One cycle of a directed test, with inputs in.
Clocked(in) ==
    /\ Mirror /\ cycle \in Nat /\ cycle' = cycle + 1
    /\ Drive(in) /\ ShadowTick(in.rst, in.sh_wr, in.rd, in.swap)

LEMMA SwapIsNoReset == \A f : SwapCycle(f)[1] # ResetCycle(f)[1]
<1>1. \A f : ~ SwapCycle(f)[1].rst /\ ResetCycle(f)[1].rst
  BY DEF SwapCycle, ResetCycle, Quiet
<1>2. QED
  BY <1>1

LEMMA ResetOrSwap ==
    ASSUME NEW f, NEW in, Clocked(in),
           in = ResetCycle(f)[1] \/ in = SwapCycle(f)[1]
    PROVE  /\ Mirror' /\ mem0' = mem0 /\ mem1' = mem1 /\ in.data = <<>> /\ in.fill = f
           /\ consume_bank_q' <=> (in = ResetCycle(f)[1] \/ ~ consume_bank_q)
<1>1. /\ in.rst \in BOOLEAN /\ in.swap \in BOOLEAN /\ in.wr = <<>> /\ in.sh_wr = <<>>
      /\ in.rd = <<>> /\ in.data = <<>> /\ in.fill = f
      /\ in.rst <=> in = ResetCycle(f)[1]
      /\ in.swap <=> ~ in.rst
  BY DEF ResetCycle, SwapCycle, Quiet
<1>2. Told(in.wr, in.sh_wr)
  BY <1>1 DEF Told
<1>3. /\ Mirror' /\ mem0' = mem0 /\ mem1' = mem1
      /\ consume_bank_q' = IF in.rst THEN TRUE
                           ELSE IF in.swap THEN ~ consume_bank_q ELSE consume_bank_q
  BY <1>1, <1>2, MirrorStep DEF Clocked
<1>4. consume_bank_q' <=> (in.rst \/ ~ consume_bank_q)
  BY <1>1, <1>3
<1>5. QED
  BY <1>1, <1>3, <1>4

LEMMA Transfer ==
    ASSUME NEW in, Clocked(in), ~ in.rst, ~ in.swap, in.rst \in BOOLEAN, in.swap \in BOOLEAN,
           in.sh_wr = in.wr
    PROVE  /\ Mirror'
           /\ consume_bank_q' <=> consume_bank_q
           /\ mem0' = IF in.wr # <<>> /\ consume_bank_q
                      THEN [mem0 EXCEPT ![in.wr[1]] = in.wr[2]] ELSE mem0
           /\ mem1' = IF in.wr # <<>> /\ ~ consume_bank_q
                      THEN [mem1 EXCEPT ![in.wr[1]] = in.wr[2]] ELSE mem1
           /\ in.rd # <<>> =>
                  rd_data' = IF consume_bank_q THEN mem1[in.rd[1]] ELSE mem0[in.rd[1]]
<1>1. Told(in.wr, in.sh_wr)
  BY DEF Told
<1>2. QED
  BY <1>1, MirrorStep DEF Clocked

LEMMA StepA ==
    ASSUME NEW in, Clocked(in), AfterA, AtA(cycle + 1, in),
           cycle + 1 \in 1..Len(directed_a)
    PROVE  Mirror' /\ AfterA' /\ Seen(in)
<1>1. /\ DEPTH \in Nat \ {0} /\ Addr = 0..(DEPTH - 1) /\ cycle \in Nat /\ cycle' = cycle + 1
      /\ DOMAIN mem0 = Addr /\ DOMAIN mem1 = Addr /\ consume_bank_q \in BOOLEAN
  BY TbAssumption DEF Clocked, Mirror
<1> DEFINE i == cycle + 1
           CB(k) == \/ k <= DEPTH + 1
                    \/ 2 * DEPTH + 3 <= k /\ k <= 3 * DEPTH + 3
           F0(m, k) == \A a \in Addr : a + 2 <= k => m[a] = pattern_a(a)
           F1(m, k) == \A a \in Addr : a + DEPTH + 3 <= k => m[a] = pattern_b(a)
<1>2. cycle > 0 => /\ consume_bank_q <=> CB(cycle)
                   /\ F0(mem0, cycle) /\ F1(mem1, cycle)
  BY DEF AfterA
<1>3. SUFFICES Mirror' /\ (consume_bank_q' <=> CB(i)) /\ F0(mem0', i) /\ F1(mem1', i) /\ Seen(in)
  BY <1>1 DEF AfterA
<1>4. CASE i = 1
  <2>1. in = ResetCycle(<<0>>)[1] /\ <<0>>[1] = 0
    BY <1>4 DEF AtA
  <2>2. /\ Mirror' /\ mem0' = mem0 /\ mem1' = mem1 /\ consume_bank_q'
        /\ in.data = <<>> /\ in.fill = <<0>>
    BY <2>1, ResetOrSwap
  <2>3. CB(i) /\ F0(mem0', i) /\ F1(mem1', i)
    BY <1>1, <1>4
  <2>4. QED
    BY <2>1, <2>2, <2>3 DEF Seen
<1>5. CASE i \in 2..(DEPTH + 1)
  <2> DEFINE a == i - 2
  <2>1. a \in Addr /\ i = a + 2 /\ cycle > 0
    BY <1>1, <1>5
  <2>2. in = FillA(a)
    BY <2>1 DEF AtA
  <2>3. /\ ~ in.rst /\ ~ in.swap /\ in.rst \in BOOLEAN /\ in.swap \in BOOLEAN
        /\ in.sh_wr = in.wr /\ in.wr # <<>> /\ in.wr[1] = a /\ in.wr[2] = pattern_a(a)
        /\ in.data = <<>> /\ in.fill = <<>>
    BY <2>2 DEF FillA, Writing, Quiet
  <2>4. consume_bank_q /\ CB(i)
    BY <1>1, <1>2, <1>5
  <2>5. /\ Mirror' /\ consume_bank_q' /\ mem1' = mem1
        /\ mem0' = [mem0 EXCEPT ![a] = pattern_a(a)]
    BY <2>3, <2>4, Transfer
  <2>6. F0(mem0', i)
    <3>1. ASSUME NEW b \in Addr, b + 2 <= i PROVE mem0'[b] = pattern_a(b)
      <4>1. b = a \/ b + 2 <= cycle
        BY <1>1, <3>1
      <4>2. QED
        BY <1>1, <1>2, <2>1, <2>5, <4>1
    <3>2. QED
      BY <3>1
  <2>7. F1(mem1', i)
    BY <1>1, <1>5
  <2>8. QED
    BY <2>3, <2>4, <2>5, <2>6, <2>7 DEF Seen
<1>6. CASE i = DEPTH + 2
  <2>1. in = SwapCycle(<<1>>)[1] /\ in # ResetCycle(<<1>>)[1] /\ <<1>>[1] = 1 /\ cycle > 0
    BY <1>1, <1>6, SwapIsNoReset DEF AtA
  <2>2. consume_bank_q /\ ~ CB(i)
    BY <1>1, <1>2, <1>6, <2>1
  <2>3. /\ Mirror' /\ mem0' = mem0 /\ mem1' = mem1 /\ ~ consume_bank_q'
        /\ in.data = <<>> /\ in.fill = <<1>>
    BY <2>1, <2>2, ResetOrSwap
  <2>4. F0(mem0', i) /\ F1(mem1', i)
    BY <1>1, <1>2, <1>6, <2>1, <2>3
  <2>5. QED
    BY <2>1, <2>2, <2>3, <2>4 DEF Seen
<1>7. CASE i \in (DEPTH + 3)..(2 * DEPTH + 2)
  <2> DEFINE a == i - (DEPTH + 3)
  <2>1. a \in Addr /\ i = DEPTH + 3 + a /\ cycle > 0 /\ a + 2 <= cycle
    BY <1>1, <1>7
  <2>2. in = ReadAFillB(a)
    BY <2>1 DEF AtA
  <2>3. /\ ~ in.rst /\ ~ in.swap /\ in.rst \in BOOLEAN /\ in.swap \in BOOLEAN
        /\ in.sh_wr = in.wr /\ in.wr # <<>> /\ in.wr[1] = a /\ in.wr[2] = pattern_b(a)
        /\ in.rd # <<>> /\ in.rd[1] = a
        /\ in.data[1] = pattern_a(a) /\ in.fill = <<>>
    BY <2>2 DEF ReadAFillB, Writing, Quiet
  <2>4. ~ consume_bank_q /\ ~ CB(i)
    BY <1>1, <1>2, <1>7, <2>1
  <2>5. /\ Mirror' /\ ~ consume_bank_q' /\ mem0' = mem0 /\ rd_data' = mem0[a]
        /\ mem1' = [mem1 EXCEPT ![a] = pattern_b(a)]
    BY <2>3, <2>4, Transfer
  <2>6. F1(mem1', i)
    <3>1. ASSUME NEW b \in Addr, b + DEPTH + 3 <= i PROVE mem1'[b] = pattern_b(b)
      <4>1. b = a \/ b + DEPTH + 3 <= cycle
        BY <1>1, <3>1
      <4>2. QED
        BY <1>1, <1>2, <2>1, <2>5, <4>1
    <3>2. QED
      BY <3>1
  <2>7. F0(mem0', i)
    BY <1>1, <1>2, <1>7, <2>1, <2>5
  <2>8. rd_data' = pattern_a(a)
    BY <1>2, <2>1, <2>5
  <2>9. QED
    BY <2>3, <2>4, <2>5, <2>6, <2>7, <2>8 DEF Seen
<1>8. CASE i = 2 * DEPTH + 3
  <2>1. in = SwapCycle(<<0>>)[1] /\ <<0>>[1] = 0 /\ cycle > 0
    BY <1>1, <1>8 DEF AtA
  <2>2. ~ consume_bank_q /\ CB(i)
    BY <1>1, <1>2, <1>8, <2>1
  <2>3. /\ Mirror' /\ mem0' = mem0 /\ mem1' = mem1 /\ consume_bank_q'
        /\ in.data = <<>> /\ in.fill = <<0>>
    BY <2>1, <2>2, ResetOrSwap
  <2>4. F0(mem0', i) /\ F1(mem1', i)
    BY <1>1, <1>2, <1>8, <2>1, <2>3
  <2>5. QED
    BY <2>1, <2>2, <2>3, <2>4 DEF Seen
<1>9. CASE i \in (2 * DEPTH + 4)..(3 * DEPTH + 3)
  <2> DEFINE a == i - (2 * DEPTH + 4)
  <2>1. a \in Addr /\ i = 2 * DEPTH + 4 + a /\ cycle > 0 /\ a + DEPTH + 3 <= cycle
    BY <1>1, <1>9
  <2>2. in = ReadB(a)
    BY <2>1 DEF AtA
  <2>3. /\ ~ in.rst /\ ~ in.swap /\ in.rst \in BOOLEAN /\ in.swap \in BOOLEAN
        /\ in.sh_wr = in.wr /\ in.wr = <<>> /\ in.rd # <<>> /\ in.rd[1] = a
        /\ in.data[1] = pattern_b(a) /\ in.fill = <<>>
    BY <2>2 DEF ReadB, Reading, Quiet
  <2>4. consume_bank_q /\ CB(i)
    BY <1>1, <1>2, <1>9, <2>1
  <2>5. Mirror' /\ consume_bank_q' /\ mem0' = mem0 /\ rd_data' = mem1[a] /\ mem1' = mem1
    BY <2>3, <2>4, Transfer
  <2>6. F0(mem0', i) /\ F1(mem1', i)
    BY <1>1, <1>2, <1>9, <2>1, <2>5
  <2>7. rd_data' = pattern_b(a)
    BY <1>2, <2>1, <2>5
  <2>8. QED
    BY <2>3, <2>4, <2>5, <2>6, <2>7 DEF Seen
<1>10. CASE i = 3 * DEPTH + 4
  <2>1. in = SwapCycle(<<>>)[1] /\ in # ResetCycle(<<>>)[1] /\ cycle > 0
    BY <1>1, <1>10, SwapIsNoReset DEF AtA
  <2>2. consume_bank_q /\ ~ CB(i)
    BY <1>1, <1>2, <1>10, <2>1
  <2>3. /\ Mirror' /\ mem0' = mem0 /\ mem1' = mem1 /\ ~ consume_bank_q'
        /\ in.data = <<>> /\ in.fill = <<>>
    BY <2>1, <2>2, ResetOrSwap
  <2>4. F0(mem0', i) /\ F1(mem1', i)
    <3>1. \A a \in Addr : a + 2 <= cycle /\ a + DEPTH + 3 <= cycle
      BY <1>1, <1>10
    <3>2. QED
      BY <1>2, <2>1, <2>3, <3>1
  <2>5. QED
    BY <2>2, <2>3, <2>4 DEF Seen
<1>11. CASE i > 3 * DEPTH + 4
  <2>1. PICK a \in Addr : in = Reading(a, pattern_a(a))
    BY <1>11 DEF AtA
  <2>2. a + 2 <= cycle /\ cycle > 0 /\ i \in Nat
    BY <1>1, <1>11
  <2>3. /\ ~ in.rst /\ ~ in.swap /\ in.rst \in BOOLEAN /\ in.swap \in BOOLEAN
        /\ in.sh_wr = in.wr /\ in.wr = <<>> /\ in.rd # <<>> /\ in.rd[1] = a
        /\ in.data[1] = pattern_a(a) /\ in.fill = <<>>
    BY <2>1 DEF Reading, Quiet
  <2>4. ~ consume_bank_q /\ ~ CB(i)
    BY <1>1, <1>2, <1>11, <2>2
  <2>5. Mirror' /\ ~ consume_bank_q' /\ mem0' = mem0 /\ rd_data' = mem0[a] /\ mem1' = mem1
    BY <2>3, <2>4, Transfer
  <2>6. F0(mem0', i) /\ F1(mem1', i)
    BY <1>1, <1>2, <1>11, <2>2, <2>5
  <2>7. rd_data' = pattern_a(a)
    BY <1>2, <2>2, <2>5
  <2>8. QED
    BY <2>3, <2>4, <2>5, <2>6, <2>7 DEF Seen
<1>12. i \in Nat /\ i >= 1
  BY <1>1
<1>13. QED
  BY <1>1, <1>12, <1>4, <1>5, <1>6, <1>7, <1>8, <1>9, <1>10, <1>11

LEMMA StepB ==
    ASSUME NEW in, Clocked(in), AfterB, AtB(cycle + 1, in)
    PROVE  Mirror' /\ AfterB' /\ Seen(in)
<1> DEFINE a == DEPTH - 1
<1>1. /\ a \in Addr /\ cycle \in Nat /\ cycle' = cycle + 1 /\ cycle + 1 \in 1..5
      /\ DOMAIN mem0 = Addr /\ DOMAIN mem1 = Addr /\ consume_bank_q \in BOOLEAN
  BY TbAssumption DEF Clocked, Mirror, AtB
<1>2. SUFFICES /\ Mirror' /\ Seen(in)
               /\ consume_bank_q' <=> cycle + 1 \notin {3, 4}
               /\ cycle + 1 \in 2..4 => mem0'[a] = pattern_a(a)
  BY <1>1 DEF AfterB
<1>3. CASE cycle = 0
  <2>1. in = ResetCycle(<<>>)[1]
    BY <1>3 DEF AtB
  <2>2. Mirror' /\ consume_bank_q' /\ in.data = <<>> /\ in.fill = <<>>
    BY <2>1, ResetOrSwap
  <2>3. QED
    BY <1>3, <2>2 DEF Seen
<1>4. CASE cycle = 1
  <2>1. in = Writing(a, pattern_a(a))
    BY <1>4 DEF AtB
  <2>2. /\ ~ in.rst /\ ~ in.swap /\ in.rst \in BOOLEAN /\ in.swap \in BOOLEAN
        /\ in.sh_wr = in.wr /\ in.wr # <<>> /\ in.wr[1] = a /\ in.wr[2] = pattern_a(a)
        /\ in.data = <<>> /\ in.fill = <<>>
    BY <2>1 DEF Writing, Quiet
  <2>3. consume_bank_q
    BY <1>4 DEF AfterB
  <2>4. Mirror' /\ consume_bank_q' /\ mem0' = [mem0 EXCEPT ![a] = pattern_a(a)]
    BY <2>2, <2>3, Transfer
  <2>5. QED
    BY <1>1, <1>4, <2>2, <2>4 DEF Seen
<1>5. CASE cycle = 2
  <2>1. in = [Quiet EXCEPT !.swap = TRUE, !.wr = <<a, pattern_a(a)>>]
    BY <1>5 DEF AtB
  <2>2. /\ ~ in.rst /\ in.swap /\ in.rst \in BOOLEAN /\ in.swap \in BOOLEAN
        /\ in.sh_wr = <<>> /\ in.wr # <<>> /\ in.wr[1] = a /\ in.wr[2] = pattern_a(a)
        /\ in.data = <<>> /\ in.fill = <<>>
    BY <2>1 DEF Quiet
  <2>3. consume_bank_q /\ mem0[a] = pattern_a(a)
    BY <1>5 DEF AfterB
  <2>4. [mem0 EXCEPT ![a] = pattern_a(a)] = mem0
    <3>1. mem0 = [x \in DOMAIN mem0 |-> mem0[x]]
      BY DEF Clocked, Mirror
    <3>2. QED
      BY <2>3, <3>1
  <2>5. Told(in.wr, in.sh_wr)
    BY <2>2, <2>3, <2>4 DEF Told
  <2>6. /\ Mirror'
        /\ consume_bank_q' = IF in.rst THEN TRUE
                             ELSE IF in.swap THEN ~ consume_bank_q ELSE consume_bank_q
        /\ mem0' = IF in.wr # <<>> /\ consume_bank_q
                   THEN [mem0 EXCEPT ![in.wr[1]] = in.wr[2]] ELSE mem0
    BY <2>2, <2>5, MirrorStep DEF Clocked
  <2>7. ~ consume_bank_q' /\ mem0' = [mem0 EXCEPT ![a] = pattern_a(a)]
    BY <2>2, <2>3, <2>6
  <2>8. QED
    BY <1>5, <2>2, <2>3, <2>4, <2>6, <2>7 DEF Seen
<1>6. CASE cycle = 3
  <2>1. in = Writing(a, pattern_b(a))
    BY <1>6 DEF AtB
  <2>2. /\ ~ in.rst /\ ~ in.swap /\ in.rst \in BOOLEAN /\ in.swap \in BOOLEAN
        /\ in.sh_wr = in.wr /\ in.data = <<>> /\ in.fill = <<>>
    BY <2>1 DEF Writing, Quiet
  <2>3. ~ consume_bank_q /\ mem0[a] = pattern_a(a)
    BY <1>6 DEF AfterB
  <2>4. Mirror' /\ ~ consume_bank_q' /\ mem0' = mem0
    BY <2>2, <2>3, Transfer
  <2>5. QED
    BY <1>6, <2>2, <2>3, <2>4 DEF Seen
<1>7. CASE cycle = 4
  <2>1. in = [Reading(a, pattern_a(a)) EXCEPT !.swap = TRUE, !.fill = <<0>>]
    BY <1>7 DEF AtB
  <2>2. /\ ~ in.rst /\ in.swap /\ in.rst \in BOOLEAN /\ in.swap \in BOOLEAN
        /\ in.sh_wr = in.wr /\ in.rd # <<>> /\ in.rd[1] = a
        /\ in.data[1] = pattern_a(a) /\ in.fill[1] = 0
    BY <2>1 DEF Reading, Quiet
  <2>3. ~ consume_bank_q /\ mem0[a] = pattern_a(a)
    BY <1>7 DEF AfterB
  <2>4. Told(in.wr, in.sh_wr)
    BY <2>2 DEF Told
  <2>5. Mirror' /\ consume_bank_q' = (~ consume_bank_q) /\ rd_data' = mem0[a]
    BY <2>2, <2>3, <2>4, MirrorStep DEF Clocked
  <2>6. consume_bank_q'
    BY <2>3, <2>5
  <2>7. QED
    BY <1>7, <2>2, <2>3, <2>5, <2>6 DEF Seen
<1>8. QED
  BY <1>1, <1>3, <1>4, <1>5, <1>6, <1>7

LEMMA StepC ==
    ASSUME NEW in, Clocked(in), AfterC, AtC(cycle + 1, in)
    PROVE  Mirror' /\ AfterC' /\ Seen(in)
<1>1. cycle \in Nat /\ cycle' = cycle + 1 /\ cycle + 1 \in 1..3
  BY DEF Clocked, AtC
<1>2. CASE cycle = 0
  <2>1. in = ResetCycle(<<>>)[1]
    BY <1>2 DEF AtC
  <2>2. Mirror' /\ consume_bank_q' /\ in.data = <<>> /\ in.fill = <<>>
    BY <2>1, ResetOrSwap
  <2>3. QED
    BY <1>1, <1>2, <2>2 DEF Seen, AfterC
<1>3. CASE cycle = 1
  <2>1. in = SwapCycle(<<1>>)[1] /\ in # ResetCycle(<<1>>)[1] /\ consume_bank_q /\ <<1>>[1] = 1
    BY <1>3, SwapIsNoReset DEF AtC, AfterC
  <2>2. Mirror' /\ ~ consume_bank_q' /\ in.data = <<>> /\ in.fill = <<1>>
    BY <2>1, ResetOrSwap
  <2>3. QED
    BY <1>1, <1>3, <2>1, <2>2 DEF Seen, AfterC
<1>4. CASE cycle = 2
  <2>1. in = ResetCycle(<<0>>)[1] /\ <<0>>[1] = 0
    BY <1>4 DEF AtC
  <2>2. Mirror' /\ consume_bank_q' /\ in.data = <<>> /\ in.fill = <<0>>
    BY <2>1, ResetOrSwap
  <2>3. QED
    BY <1>1, <1>4, <2>1, <2>2 DEF Seen, AfterC
<1>5. QED
  BY <1>1, <1>2, <1>3, <1>4

\* Every comparison so far succeeded.
BenchInv ==
    /\ Mirror /\ cycle \in Nat /\ test \in {"a", "b", "c", "random"}
    /\ test = "a" => AfterA
    /\ test = "b" => AfterB
    /\ test = "c" => AfterC
    /\ test # "random" /\ cycle > 0 => Expected(Script[test][cycle])

LEMMA DirectedStep ==
    ASSUME BenchInv, Directed PROVE BenchInv'
<1>1. /\ test \in {"a", "b", "c"} /\ test' = test /\ cycle' = cycle + 1 /\ cycle \in Nat
      /\ cycle < Len(Script[test])
  BY DEF Directed, BenchInv, Script
<1>2. PICK in : in = Script[test][cycle + 1]
  OBVIOUS
<1>3. Clocked(in)
  BY <1>1, <1>2 DEF Directed, Clocked, BenchInv
<1>4. cycle + 1 \in 1..Len(Script[test])
  <2>1. Len(Script[test]) \in Nat
    <3>1. Len(directed_a) \in Nat /\ Len(directed_b) \in Nat /\ Len(directed_c) \in Nat
      BY ScriptA, ScriptB, ScriptC
    <3>2. QED
      BY <1>1, <3>1 DEF Script
  <2>2. QED
    BY <1>1, <2>1
<1>5. /\ Mirror' /\ Seen(in)
      /\ test = "a" => AfterA'
      /\ test = "b" => AfterB'
      /\ test = "c" => AfterC'
  <2>1. CASE test = "a"
    <3>1. Script[test] = directed_a
      BY <2>1 DEF Script
    <3>2. AtA(cycle + 1, in)
      BY <1>2, <1>4, <3>1, ScriptA
    <3>3. QED
      BY <1>3, <1>4, <2>1, <3>1, <3>2, StepA DEF BenchInv
  <2>2. CASE test = "b"
    <3>1. Script[test] = directed_b
      BY <2>2 DEF Script
    <3>2. AtB(cycle + 1, in)
      BY <1>2, <1>4, <3>1, ScriptB
    <3>3. QED
      BY <1>3, <2>2, <3>2, StepB DEF BenchInv
  <2>3. CASE test = "c"
    <3>1. Script[test] = directed_c
      BY <2>3 DEF Script
    <3>2. AtC(cycle + 1, in)
      BY <1>2, <1>4, <3>1, ScriptC
    <3>3. QED
      BY <1>3, <2>3, <3>2, StepC DEF BenchInv
  <2>4. QED
    BY <1>1, <2>1, <2>2, <2>3
<1>6. Expected(Script[test][cycle])'
  <2>1. in = Script[test'][cycle']
    BY <1>1, <1>2
  <2>2. consume_bank_q' \in BOOLEAN
    BY <1>5 DEF Mirror
  <2>3. /\ in.data # <<>> => rd_data' = in.data[1]
        /\ in.fill # <<>> => consume_bank_q' = (in.fill[1] = 0)
    BY <1>5, <2>2 DEF Seen
  <2>4. QED
    BY <2>1, <2>3 DEF Expected
<1>7. cycle' \in Nat
  BY <1>1
<1>8. QED
  BY <1>1, <1>5, <1>6, <1>7 DEF BenchInv

(* tb_scratchpad.cpp passes: for every depth of the banks and every stride *)
(* of the spot check each comparison of the directed tests succeeds, and   *)
(* so does every comparison with the shadow under any inputs.              *)
THEOREM TestsPass == TbSpec => []ChecksPass
<1>1. TbInit => BenchInv
  <2> SUFFICES ASSUME TbInit PROVE BenchInv
    OBVIOUS
  <2>1. /\ sh = NewShadow /\ mem0 = NewShadow.mem[0] /\ mem1 = NewShadow.mem[1]
        /\ consume_bank_q = FALSE /\ rd_data = Zero /\ rd_valid = FALSE /\ cycle = 0
        /\ test \in {"a", "b", "c", "random"}
    BY DEF TbInit, Script
  <2>2. Mirror
    <3> DEFINE z == [a \in Addr |-> Zero]
    <3>1. /\ sh.mem = [b \in 0..1 |-> z] /\ mem0 = z /\ mem1 = z
          /\ sh.consume_bank = 0 /\ sh.rd_valid = FALSE /\ sh.rd_data = Zero
      BY <2>1 DEF NewShadow
    <3>2. DOMAIN z = Addr /\ z = [x \in DOMAIN z |-> z[x]]
      OBVIOUS
    <3> HIDE DEF z
    <3>3. QED
      BY <2>1, <3>1, <3>2 DEF Mirror
  <2>3. QED
    BY <2>1, <2>2 DEF BenchInv, AfterA, AfterB, AfterC
<1>2. BenchInv /\ [TbNext]_allVars => BenchInv'
  <2> SUFFICES ASSUME BenchInv, [TbNext]_allVars PROVE BenchInv'
    OBVIOUS
  <2>1. CASE Directed
    BY <2>1, DirectedStep
  <2>2. CASE Random
    <3>1. PICK rst \in BOOLEAN, wr \in WriteReq, rd \in ReadReq, swap \in BOOLEAN :
              /\ Drive([rst |-> rst, wr |-> wr, rd |-> rd, swap |-> swap])
              /\ ShadowTick(rst, wr, rd, swap)
      BY <2>2 DEF Random
    <3>2. PICK in : in = [rst |-> rst, wr |-> wr, rd |-> rd, swap |-> swap, sh_wr |-> wr]
      OBVIOUS
    <3>3. /\ in.rst = rst /\ in.wr = wr /\ in.rd = rd /\ in.swap = swap /\ in.sh_wr = wr
          /\ Told(in.wr, in.sh_wr)
      BY <3>2 DEF Told
    <3>4. Drive(in) /\ ShadowTick(in.rst, in.sh_wr, in.rd, in.swap)
      BY <3>1, <3>3 DEF Drive
    <3>5. Mirror'
      BY <3>3, <3>4, MirrorStep DEF BenchInv
    <3>6. test = "random" /\ test' = test /\ cycle' = 1
      BY <2>2 DEF Random
    <3>7. QED
      BY <3>5, <3>6 DEF BenchInv
  <2>3. CASE UNCHANGED allVars
    BY <2>3 DEF allVars, tbVars, vars, BenchInv, Mirror, AfterA, AfterB, AfterC, Expected
  <2>4. QED
    BY <2>1, <2>2, <2>3 DEF TbNext
<1>3. BenchInv => ChecksPass
  BY DEF BenchInv, ChecksPass, Mirror, Check
<1>4. QED
  BY <1>1, <1>2, <1>3, PTL DEF TbSpec
===============================================================================
