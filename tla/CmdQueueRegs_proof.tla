-------------------------- MODULE CmdQueueRegs_proof --------------------------
(***************************************************************************)
(* Proofs about the register block, for every set of fields and values and *)
(* every width of done_count.                                              *)
(***************************************************************************)
EXTENDS CmdQueueRegs, TLAPS

(* The remainder is the only r in 0..m-1 with a = q*m + r.                 *)
LEMMA ModUnique ==
    ASSUME NEW m \in Nat \ {0, 1}, NEW q \in Int, NEW r \in 0..(m - 1),
           NEW a \in Nat, a = q * m + r
    PROVE  a % m = r
<1> DEFINE d == a \div m
           s == a % m
<1>1. d \in Int /\ s \in 0..(m - 1) /\ a = d * m + s
  BY Z3
<1> HIDE DEF d, s
<1>2. (q - d) * m = s - r
  BY <1>1, Z3
<1>3. CASE q - d >= 1
  <2>1. (q - d) * m >= m
    BY <1>1, <1>3, Z3
  <2>2. QED
    BY <1>1, <1>2, <2>1, Z3
<1>4. CASE q - d <= -1
  <2>1. (q - d) * m <= -m
    BY <1>1, <1>4, Z3
  <2>2. QED
    BY <1>1, <1>2, <2>1, Z3
<1>5. CASE q - d = 0
  BY <1>1, <1>2, <1>5, Z3 DEF s
<1>6. QED
  BY <1>1, <1>3, <1>4, <1>5

(* Counting modulo m and reducing a count modulo m agree: what done_count  *)
(* does at each retirement.                                                *)
LEMMA ModSucc ==
    ASSUME NEW m \in Nat \ {0, 1}, NEW n \in Nat
    PROVE  /\ n % m \in 0..(m - 1)
           /\ ((n % m) + 1) % m = (n + 1) % m
<1> DEFINE q == n \div m
           r == n % m
<1>1. n = q * m + r /\ r \in 0..(m - 1) /\ q \in Int
  BY Z3
<1> HIDE DEF q, r
<1>2. CASE r = m - 1
  <2>1. n + 1 = (q + 1) * m + 0 /\ r + 1 = 1 * m + 0
    BY <1>1, <1>2, Z3
  <2>2. (n + 1) % m = 0 /\ (r + 1) % m = 0
    BY <1>1, <2>1, ModUnique
  <2>3. QED
    BY <1>1, <2>2 DEF r
<1>3. CASE r # m - 1
  <2>1. n + 1 = q * m + (r + 1) /\ r + 1 = 0 * m + (r + 1) /\ r + 1 \in 0..(m - 1)
    BY <1>1, <1>3, Z3
  <2>2. (n + 1) % m = r + 1 /\ (r + 1) % m = r + 1
    BY <1>1, <2>1, ModUnique
  <2>3. QED
    BY <1>1, <2>2 DEF r
<1>4. QED
  BY <1>2, <1>3

-------------------------------------------------------------------------------
(* The three blocks that every bus cycle runs.                             *)

(* The FIFO block: types, the ring and what it hands on.                   *)
LEMMA FifoStep ==
    ASSUME Inv, NEW e \in BOOLEAN, e => CanEnqueue, FifoEdge(e)
    PROVE  /\ fifo_mem' \in [0..3 -> Cmd] /\ cmd' \in Cmd
           /\ fifo_wp' \in 0..3 /\ fifo_rp' \in 0..3 /\ fifo_cnt' \in 0..4
           /\ start' \in BOOLEAN /\ accepted' \in Nat
           /\ RingConsistent'
           /\ start' => ~busy /\ ~start
           /\ accepted' - fifo_cnt' - Bit(start') = accepted - fifo_cnt
<1> USE DEF Inv, TypeOK
<1>1. fifo_mem' \in [0..3 -> Cmd] /\ cmd' \in Cmd
  BY DEF FifoEdge
<1>2. start' = pop /\ pop \in BOOLEAN /\ (pop => fifo_cnt \in 1..4 /\ ~busy /\ ~start)
  BY DEF FifoEdge, pop, fifo_empty
<1>3. e => fifo_cnt \in 0..3
  BY DEF CanEnqueue, fifo_full
<1>4. /\ fifo_wp' \in 0..3 /\ fifo_rp' \in 0..3 /\ fifo_cnt' \in 0..4
      /\ accepted' \in Nat /\ RingConsistent'
      /\ accepted' - fifo_cnt' - Bit(start') = accepted - fifo_cnt
  BY <1>2, <1>3 DEF FifoEdge, RingConsistent, Bit
<1>5. QED
  BY <1>1, <1>2, <1>4

(* The retirement block: done_count keeps counting modulo its width and    *)
(* IRQ_PENDING stays exact, clear or no clear.                             *)
LEMMA RetireStep ==
    ASSUME Inv, NEW clear \in BOOLEAN, RetireEdge(clear)
    PROVE  /\ irq_pending' \in BOOLEAN /\ done_count' \in 0..(DC_MOD - 1)
           /\ retired' \in Nat /\ acked' \in Nat
           /\ CountsRetired' /\ PendingIffUnacked'
           /\ retired' = retired + Bit(done)
<1> USE DEF Inv, TypeOK
<1>1. retired' = retired + Bit(done) /\ retired' \in Nat /\ acked' \in Nat
  BY DEF RetireEdge, Bit
<1>2. done_count' = retired' % DC_MOD /\ done_count' \in 0..(DC_MOD - 1)
  <2>1. CASE done
    <3>1. done_count' = (retired + 1) % DC_MOD /\ retired' = retired + 1
      BY <2>1, DcAssumption, ModSucc DEF RetireEdge, CountsRetired, Bit
    <3>2. QED
      BY <3>1, DcAssumption, ModSucc
  <2>2. CASE ~done
    BY <2>2 DEF RetireEdge, CountsRetired, Bit
  <2>3. QED
    BY <2>1, <2>2
<1>3. acked' <= retired'
  BY DEF RetireEdge, CountsRetired, Bit
<1>4. irq_pending' \in BOOLEAN
  BY DEF RetireEdge
<1>5. irq_pending' <=> retired' > acked'
  BY DEF RetireEdge, CountsRetired, PendingIffUnacked, Bit
<1>6. QED
  BY <1>1, <1>2, <1>3, <1>4, <1>5 DEF CountsRetired, PendingIffUnacked

(* The datapath takes over a started command and pulses done as it ends.   *)
LEMMA DatapathStep ==
    ASSUME Inv, DatapathEdge
    PROVE  /\ busy' \in BOOLEAN /\ done' \in BOOLEAN
           /\ ~(busy' /\ done')
           /\ busy' \/ done' => start \/ busy
           /\ Bit(busy') + Bit(done') = Bit(start) + Bit(busy)
<1>1. \/ busy /\ ~start /\ busy' = TRUE /\ done' = FALSE
      \/ busy /\ ~start /\ busy' = FALSE /\ done' = TRUE
      \/ ~busy /\ start /\ busy' = TRUE /\ done' = FALSE
      \/ ~busy /\ ~start /\ busy' = FALSE /\ done' = FALSE
  BY Zenon DEF Inv, InFlightExclusive, DatapathEdge,
               DP!Run, DP!Finish, DP!Accept, DP!Rest
<1>2. /\ busy' \in BOOLEAN /\ done' \in BOOLEAN /\ ~(busy' /\ done')
      /\ busy' \/ done' => start \/ busy
  BY <1>1, Zenon
<1>3. Bit(busy') + Bit(done') = Bit(start) + Bit(busy)
  <2>1. /\ (busy' => Bit(busy') = 1) /\ (~busy' => Bit(busy') = 0)
        /\ (done' => Bit(done') = 1) /\ (~done' => Bit(done') = 0)
    BY DEF Bit
  <2>2. /\ (busy => Bit(busy) = 1) /\ (~busy => Bit(busy) = 0)
        /\ (start => Bit(start) = 1) /\ (~start => Bit(start) = 0)
    BY DEF Bit
  <2>3. \/ busy /\ ~start /\ busy' /\ ~done'
        \/ busy /\ ~start /\ ~busy' /\ done'
        \/ ~busy /\ start /\ busy' /\ ~done'
        \/ ~busy /\ ~start /\ ~busy' /\ ~done'
    BY <1>1, Zenon
  <2>4. QED
    BY <2>1, <2>2, <2>3
<1>4. QED
  BY <1>2, <1>3

(* Together they preserve the invariant.                                   *)
LEMMA CycleStep ==
    ASSUME Inv, NEW e \in BOOLEAN, NEW clear \in BOOLEAN, e => CanEnqueue,
           FifoEdge(e), RetireEdge(clear), DatapathEdge,
           hold' \in Cmd, irq_en' \in BOOLEAN
    PROVE  Inv'
<1>1. TypeOK'
  BY FifoStep, RetireStep, DatapathStep DEF TypeOK
<1>2. InFlightExclusive'
  BY FifoStep, DatapathStep DEF InFlightExclusive
<1>3. Conservation'
  <2>1. /\ accepted' - fifo_cnt' - Bit(start') = accepted - fifo_cnt
        /\ retired' = retired + Bit(done)
        /\ Bit(busy') + Bit(done') = Bit(start) + Bit(busy)
    BY FifoStep, RetireStep, DatapathStep
  <2>2. accepted = retired + fifo_cnt + Bit(start) + Bit(busy) + Bit(done)
    BY DEF Inv, Conservation
  <2>3. /\ Bit(start) \in Nat /\ Bit(busy) \in Nat /\ Bit(done) \in Nat
        /\ Bit(start') \in Nat /\ Bit(busy') \in Nat /\ Bit(done') \in Nat
    BY DEF Bit
  <2>4. QED
    BY <1>1, <2>1, <2>2, <2>3 DEF Inv, TypeOK, Conservation
<1>4. QED
  BY <1>1, <1>2, <1>3, FifoStep, RetireStep DEF Inv

-------------------------------------------------------------------------------
(* The power-up state satisfies the invariant.                             *)
LEMMA InitStep ==
    ASSUME Init PROVE Inv
<1>1. TypeOK
  <2>1. /\ start \in BOOLEAN /\ busy \in BOOLEAN /\ done \in BOOLEAN
        /\ irq_en \in BOOLEAN /\ irq_pending \in BOOLEAN
    BY Zenon DEF Init, DP!Init
  <2>2. ZeroCmd \in Cmd /\ 0 \in 0..(DC_MOD - 1)
    BY ZeroAssumption, DcAssumption DEF ZeroCmd, Cmd
  <2>3. QED
    BY <2>1, <2>2 DEF Init, TypeOK
<1>2. InFlightExclusive
  BY DEF Init, InFlightExclusive, DP!Init
<1>3. Conservation
  BY DEF Init, Conservation, Bit, DP!Init
<1>4. RingConsistent
  BY DEF Init, RingConsistent
<1>5. CountsRetired
  <2>1. 0 = 0 * DC_MOD + 0 /\ 0 \in 0..(DC_MOD - 1)
    BY DcAssumption
  <2>2. 0 % DC_MOD = 0
    BY <2>1, DcAssumption, ModUnique
  <2>3. QED
    BY <2>2 DEF Init, CountsRetired
<1>6. PendingIffUnacked
  BY DEF Init, PendingIffUnacked
<1>7. QED
  BY <1>1, <1>2, <1>3, <1>4, <1>5, <1>6 DEF Inv

(* The invariant holds in every state the register block can reach.        *)
THEOREM Invariance == Spec => []Inv
<1>1. Init => Inv
  BY InitStep
<1>2. Inv /\ [Next]_vars => Inv'
  <2> SUFFICES ASSUME Inv, [Next]_vars PROVE Inv'
    OBVIOUS
  <2>1. CASE IdleCycle
    BY <2>1, CycleStep DEF IdleCycle, Inv, TypeOK
  <2>2. ASSUME NEW f \in Field, NEW v \in Val, WriteField(f, v)
        PROVE  Inv'
    <3>1. hold' \in Cmd /\ irq_en' \in BOOLEAN
      BY <2>2 DEF WriteField, Inv, TypeOK, Cmd
    <3>2. QED
      BY <2>2, <3>1, CycleStep DEF WriteField
  <2>3. CASE WriteCmd
    <3>1. CanEnqueue \in BOOLEAN
      BY DEF CanEnqueue, fifo_full
    <3>2. QED
      BY <2>3, <3>1, CycleStep DEF WriteCmd, Inv, TypeOK
  <2>4. ASSUME NEW en \in BOOLEAN, NEW clear \in BOOLEAN, WriteIrq(en, clear)
        PROVE  Inv'
    BY <2>4, CycleStep DEF WriteIrq, Inv, TypeOK
  <2>5. CASE Reset
    <3>1. /\ start' = FALSE /\ busy' = FALSE /\ done' = FALSE
          /\ irq_en' = FALSE /\ irq_pending' = FALSE /\ done_count' = 0
          /\ accepted' = 0 /\ retired' = 0 /\ acked' = 0
          /\ fifo_wp' = 0 /\ fifo_rp' = 0 /\ fifo_cnt' = 0
          /\ hold' \in Cmd /\ cmd' \in Cmd /\ fifo_mem' \in [0..3 -> Cmd]
      BY <2>5, ZeroAssumption DEF Reset, DP!Reset, ZeroCmd, Cmd, Inv, TypeOK
    <3>2. 0 = 0 * DC_MOD + 0 /\ 0 \in 0..(DC_MOD - 1)
      BY DcAssumption
    <3>3. 0 % DC_MOD = 0
      BY <3>2, DcAssumption, ModUnique
    <3>4. /\ start' \in BOOLEAN /\ busy' \in BOOLEAN /\ done' \in BOOLEAN
          /\ irq_en' \in BOOLEAN /\ irq_pending' \in BOOLEAN
          /\ InFlightExclusive'
      BY <3>1, Zenon DEF InFlightExclusive
    <3>5. TypeOK'
      BY <3>1, <3>2, <3>4 DEF TypeOK
    <3>6. RingConsistent' /\ Conservation' /\ CountsRetired' /\ PendingIffUnacked'
      BY <3>1, <3>3 DEF RingConsistent, Conservation, CountsRetired,
                        PendingIffUnacked, Bit
    <3>7. QED
      BY <3>4, <3>5, <3>6 DEF Inv
  <2>6. CASE UNCHANGED vars
    BY <2>6 DEF vars, fifoVars, retireVars, Inv, TypeOK, InFlightExclusive,
                Conservation, RingConsistent, CountsRetired, PendingIffUnacked, Bit
  <2>7. QED
    BY <2>1, <2>2, <2>3, <2>4, <2>5, <2>6 DEF Next, Cycle
<1>3. QED
  BY <1>1, <1>2, PTL DEF Spec

(* Type correctness of every register of cmd_queue_regs.sv.                *)
THEOREM TypeCorrect == Spec => []TypeOK
<1>1. Inv => TypeOK
  BY DEF Inv
<1>2. QED
  BY <1>1, Invariance, PTL

(* Every accepted command is waiting, in flight or retired: none is lost   *)
(* or counted twice in the pop/start/busy/done hand-over.                  *)
THEOREM CommandsConserved == Spec => []Conservation
<1>1. Inv => Conservation
  BY DEF Inv
<1>2. QED
  BY <1>1, Invariance, PTL

(* The promise of STATUS to a poller (cmd_queue_regs.sv:123-127): queue    *)
(* empty and not busy means every accepted command has retired and is in   *)
(* done_count.                                                             *)
THEOREM PollerSafe == Spec => []IdleMeansRetired
<1>1. Inv => IdleMeansRetired
  BY DEF Inv, TypeOK, Conservation, CountsRetired, IdleMeansRetired,
         fifo_empty, status_busy, Bit
<1>2. QED
  BY <1>1, Invariance, PTL

(* IRQ_PENDING is set exactly while a counted completion is unacknowledged:*)
(* a completion on the edge of an RW1C write is not lost.                  *)
THEOREM NoLostInterrupt == Spec => []PendingIffUnacked
<1>1. Inv => PendingIffUnacked
  BY DEF Inv
<1>2. QED
  BY <1>1, Invariance, PTL

(* The command handed to the datapath does not change under it.            *)
THEOREM CommandIsStable == Spec => CommandStable
<1>1. Inv /\ [Next]_vars
        => [(start \/ busy) /\ (start' \/ busy' \/ done') => cmd' = cmd]_vars
  <2> SUFFICES ASSUME Inv, Next, start \/ busy, start' \/ busy' \/ done'
               PROVE  cmd' = cmd
    OBVIOUS
  <2>1. ~pop
    BY DEF pop
  <2>2. ASSUME NEW e \in BOOLEAN, FifoEdge(e) PROVE cmd' = cmd
    BY <2>1, <2>2 DEF FifoEdge
  <2>3. CASE Reset
    BY <2>3 DEF Reset, DP!Reset
  <2>4. CASE Cycle
    <3>1. CanEnqueue \in BOOLEAN
      BY DEF CanEnqueue, fifo_full
    <3>2. QED
      BY <2>2, <2>4, <3>1 DEF Cycle, IdleCycle, WriteField, WriteCmd, WriteIrq
  <2>5. QED
    BY <2>3, <2>4 DEF Next
<1>2. QED
  BY <1>1, Invariance, PTL DEF Spec, CommandStable

-------------------------------------------------------------------------------
(* The register block is a FIFO (module CommandQueue).                     *)

(* Positions in the ring: the slot after the last command is none of       *)
(* theirs, and moving rp on by one moves every position on by one.         *)
LEMMA RingSlots ==
    ASSUME NEW rp \in 0..3, NEW n \in 0..4, NEW b \in 0..1, b <= n
    PROVE  \A i \in 1..(n - b) :
               /\ (((rp + b) % 4) + i - 1) % 4 = (rp + (i + b) - 1) % 4
               /\ (rp + i - 1) % 4 \in 0..3
               /\ n < 4 => (rp + (i + b) - 1) % 4 # (rp + n) % 4
<1>1. QED
  BY Z3

(* What an edge does to the contents of the FIFO, as a sequence.           *)
LEMMA ContentsStep ==
    ASSUME Inv, NEW e \in BOOLEAN, e => CanEnqueue, FifoEdge(e)
    PROVE  /\ Contents \in Seq(Cmd) /\ Len(Contents) = fifo_cnt
           /\ pop => Contents # <<>> /\ cmd' = Head(Contents)
           /\ Contents' = (IF pop THEN Tail(Contents) ELSE Contents)
                          \o (IF e THEN <<hold>> ELSE <<>>)
<1> DEFINE b == Bit(pop)
           slot(i) == (fifo_rp + i - 1) % 4
<1>1. /\ fifo_rp \in 0..3 /\ fifo_cnt \in 0..4 /\ fifo_mem \in [0..3 -> Cmd]
      /\ hold \in Cmd /\ fifo_wp = (fifo_rp + fifo_cnt) % 4
  BY DEF Inv, TypeOK, RingConsistent
<1>2. /\ pop \in BOOLEAN /\ b \in 0..1 /\ b <= fifo_cnt /\ (pop => b = 1) /\ (~pop => b = 0)
      /\ e => fifo_cnt < 4
  BY <1>1 DEF pop, fifo_empty, CanEnqueue, fifo_full, Bit
<1>3. /\ Contents = [i \in 1..fifo_cnt |-> fifo_mem[slot(i)]]
      /\ \A i \in 1..fifo_cnt : slot(i) \in 0..3
  BY <1>1 DEF Contents
<1>4. Contents \in Seq(Cmd) /\ Len(Contents) = fifo_cnt
  BY <1>1, <1>3
<1>5. ASSUME pop
      PROVE  Contents # <<>> /\ cmd' = Head(Contents)
  <2>1. 1 \in 1..fifo_cnt /\ slot(1) = fifo_rp
    <3>1. 1 \in 1..fifo_cnt /\ fifo_rp + 1 - 1 = fifo_rp
      BY <1>1, <1>5 DEF pop, fifo_empty
    <3>2. fifo_rp % 4 = fifo_rp
      BY <1>1
    <3>3. QED
      BY <3>1, <3>2
  <2>2. Contents[1] = fifo_mem[fifo_rp]
    BY <1>3, <2>1
  <2>3. Contents # <<>> /\ Head(Contents) = Contents[1]
    BY <1>4, <2>1
  <2>4. cmd' = fifo_mem[fifo_rp]
    BY <1>5 DEF FifoEdge
  <2>5. QED
    BY <2>2, <2>3, <2>4
<1>6. /\ fifo_rp' = (fifo_rp + b) % 4 /\ fifo_cnt' = fifo_cnt - b + Bit(e)
      /\ fifo_mem' = IF e THEN [fifo_mem EXCEPT ![fifo_wp] = hold] ELSE fifo_mem
  BY <1>1, <1>2 DEF FifoEdge, Bit
<1> DEFINE rest == IF pop THEN Tail(Contents) ELSE Contents
           new == IF e THEN <<hold>> ELSE <<>>
           moved(i) == (fifo_rp' + i - 1) % 4
<1>7. rest \in Seq(Cmd) /\ Len(rest) = fifo_cnt - b
      /\ \A i \in 1..(fifo_cnt - b) : rest[i] = Contents[i + b]
  BY <1>1, <1>2, <1>4, <1>5
<1>8. \A i \in 1..(fifo_cnt - b) : fifo_mem'[moved(i)] = rest[i]
  <2> SUFFICES ASSUME NEW i \in 1..(fifo_cnt - b)
               PROVE  fifo_mem'[moved(i)] = rest[i]
    OBVIOUS
  <2>1. /\ moved(i) = slot(i + b) /\ i + b \in 1..fifo_cnt
        /\ fifo_cnt < 4 => slot(i + b) # fifo_wp
    <3> HIDE DEF b
    <3>1. /\ (((fifo_rp + b) % 4) + i - 1) % 4 = (fifo_rp + (i + b) - 1) % 4
          /\ fifo_cnt < 4 => (fifo_rp + (i + b) - 1) % 4 # (fifo_rp + fifo_cnt) % 4
      BY <1>1, <1>2, RingSlots
    <3>2. i + b \in 1..fifo_cnt
      BY <1>1, <1>2
    <3>3. QED
      BY <1>1, <1>6, <3>1, <3>2
  <2>2. rest[i] = fifo_mem[slot(i + b)]
    BY <1>3, <1>7, <2>1
  <2>3. fifo_mem'[slot(i + b)] = fifo_mem[slot(i + b)]
    BY <1>1, <1>2, <1>3, <1>6, <2>1
  <2>4. QED
    BY <2>1, <2>2, <2>3
<1>9. ASSUME e
      PROVE  fifo_mem'[moved(fifo_cnt - b + 1)] = hold
  <2>1. moved(fifo_cnt - b + 1) = fifo_wp
    BY <1>1, <1>2, <1>6, Z3
  <2>2. fifo_wp \in 0..3
    BY DEF Inv, TypeOK
  <2>3. QED
    BY <1>1, <1>6, <1>9, <2>1, <2>2
<1>10. Contents' = [i \in 1..(fifo_cnt - b + Bit(e)) |-> fifo_mem'[moved(i)]]
  BY <1>6 DEF Contents
<1> HIDE DEF rest, moved, slot, b
<1>11. CASE e
  <2>1. rest \o new = [i \in 1..(fifo_cnt - b + 1) |->
                         IF i <= fifo_cnt - b THEN rest[i] ELSE hold]
    BY <1>2, <1>1, <1>7, <1>11
  <2>2. \A i \in 1..(fifo_cnt - b + 1) :
            fifo_mem'[moved(i)] = IF i <= fifo_cnt - b THEN rest[i] ELSE hold
    <3>1. \A i \in 1..(fifo_cnt - b + 1) :
              (i <= fifo_cnt - b /\ i \in 1..(fifo_cnt - b)) \/ i = fifo_cnt - b + 1
      BY <1>1, <1>2
    <3>2. ~(fifo_cnt - b + 1 <= fifo_cnt - b)
      BY <1>1, <1>2
    <3>3. QED
      BY <1>8, <1>9, <1>11, <3>1, <3>2
  <2>3. Bit(e) = 1
    BY <1>11 DEF Bit
  <2>4. QED
    BY <1>4, <1>5, <1>10, <2>1, <2>2, <2>3 DEF rest
<1>12. CASE ~e
  <2>1. rest \o new = rest /\ rest = [i \in 1..(fifo_cnt - b) |-> rest[i]]
    BY <1>1, <1>2, <1>7, <1>12
  <2>2. fifo_cnt - b + Bit(e) = fifo_cnt - b
    BY <1>1, <1>2, <1>12 DEF Bit
  <2>3. QED
    BY <1>4, <1>5, <1>8, <1>10, <2>1, <2>2 DEF rest
<1>13. QED
  BY <1>11, <1>12

(* An edge with no reset is a step of the FIFO.  The pop hands the oldest  *)
(* command over and raises start; while it is handed on from start to busy *)
(* it is the running one; the edge that raises done completes it.          *)
LEMMA EdgeIsQueueStep ==
    ASSUME Inv, NEW e \in BOOLEAN, NEW clear \in BOOLEAN, e => CanEnqueue,
           FifoEdge(e), RetireEdge(clear), DatapathEdge
    PROVE  Abstract!QNext
<1> DEFINE new == IF e THEN <<hold>> ELSE <<>>
           rest == IF pop THEN Tail(Contents) ELSE Contents
<1>1. /\ Len(Contents) = fifo_cnt /\ Contents' = rest \o new
      /\ pop => Contents # <<>> /\ cmd' = Head(Contents)
  BY ContentsStep
<1>2. new \in Abstract!Arrivals
  <2>1. hold \in Cmd
    BY DEF Inv, TypeOK
  <2>2. e => Len(Contents) < 4
    BY <1>1 DEF Inv, TypeOK, CanEnqueue, fifo_full
  <2>3. QED
    BY <2>1, <2>2 DEF Abstract!Arrivals
<1>3. /\ start' = pop /\ (pop => ~busy /\ ~start) /\ pop \in BOOLEAN
      /\ ~pop => cmd' = cmd
      /\ retired' = retired + Bit(done) /\ retired \in Nat
  BY DEF FifoEdge, RetireEdge, pop, fifo_empty, Inv, TypeOK
<1>4. \/ busy /\ ~start /\ busy' = TRUE /\ done' = FALSE
      \/ busy /\ ~start /\ busy' = FALSE /\ done' = TRUE
      \/ ~busy /\ start /\ busy' = TRUE /\ done' = FALSE
      \/ ~busy /\ ~start /\ busy' = FALSE /\ done' = FALSE
  BY Zenon DEF Inv, InFlightExclusive, DatapathEdge,
               DP!Run, DP!Finish, DP!Accept, DP!Rest
<1>5. busy => ~done
  BY DEF Inv, InFlightExclusive
<1> HIDE DEF new, rest
<1>6. CASE pop
  <2>1. Abstract!Dispatch(new)
    <3>1. rest = Tail(Contents)
      BY <1>6 DEF rest
    <3>2. Bit(done') = 0 /\ Bit(done) \in Nat
      BY <1>3, <1>4, <1>6 DEF Bit
    <3>3. retired' + Bit(done') = retired + Bit(done)
      BY <1>3, <3>2
    <3>4. start' /\ ~start /\ ~busy
      BY <1>3, <1>6
    <3>5. QED
      BY <1>1, <1>6, <3>1, <3>3, <3>4 DEF Abstract!Dispatch
  <2>2. QED
    BY <1>2, <2>1 DEF Abstract!QNext
<1>7. CASE ~pop /\ busy /\ ~busy'
  <2>1. Abstract!Complete(new)
    <3>1. rest = Contents
      BY <1>7 DEF rest
    <3>2. Bit(done') = 1 /\ Bit(done) = 0
      BY <1>4, <1>5, <1>7 DEF Bit
    <3>3. retired' + Bit(done') = retired + Bit(done) + 1
      BY <1>3, <3>2
    <3>4. ~start' /\ ~busy'
      BY <1>3, <1>7
    <3>5. QED
      BY <1>1, <1>7, <3>1, <3>3, <3>4 DEF Abstract!Complete
  <2>2. QED
    BY <1>2, <2>1 DEF Abstract!QNext
<1>8. CASE ~pop /\ ~(busy /\ ~busy')
  <2>1. Abstract!Accept(new)
    <3>1. rest = Contents
      BY <1>8 DEF rest
    <3>2. Bit(done') = 0 /\ Bit(done) \in Nat
      BY <1>4, <1>8 DEF Bit
    <3>3. retired' + Bit(done') = retired + Bit(done)
      BY <1>3, <3>2
    <3>4. (start' \/ busy') <=> (start \/ busy)
      BY <1>3, <1>4, <1>8
    <3>5. QED
      BY <1>1, <1>3, <1>8, <3>1, <3>3, <3>4 DEF Abstract!Accept
  <2>2. QED
    BY <1>2, <2>1 DEF Abstract!QNext
<1>9. QED
  BY <1>3, <1>6, <1>7, <1>8

(* The ring buffer, the start pulse and the busy/done hand-over of         *)
(* cmd_queue_regs.sv:69-117 are a FIFO of at most four commands that runs  *)
(* each accepted command once and in order: the safety of the refinement   *)
(* ImplementsCommandQueue, for every set of commands.                      *)
THEOREM ImplementsQueueSafety == Spec => Abstract!QSafety
<1>1. Init => Abstract!QInit
  <2> SUFFICES ASSUME Init
               PROVE  Abstract!QInit
    OBVIOUS
  <2>1. /\ fifo_cnt = 0 /\ retired = 0 /\ start = FALSE /\ busy = FALSE /\ done = FALSE
    BY DEF Init, DP!Init
  <2>2. Contents = <<>>
    BY <2>1 DEF Contents
  <2>3. QED
    BY <2>1, <2>2 DEF Abstract!QInit, Bit
<1>2. Inv /\ [Next]_vars => [Abstract!QNext]_(Abstract!qvars)
  <2> SUFFICES ASSUME Inv, [Next]_vars
               PROVE  [Abstract!QNext]_(Abstract!qvars)
    OBVIOUS
  <2>1. CASE IdleCycle
    BY <2>1, EdgeIsQueueStep DEF IdleCycle
  <2>2. ASSUME NEW f \in Field, NEW v \in Val, WriteField(f, v)
        PROVE  Abstract!QNext
    BY <2>2, EdgeIsQueueStep DEF WriteField
  <2>3. CASE WriteCmd
    <3>1. CanEnqueue \in BOOLEAN
      BY DEF CanEnqueue, fifo_full
    <3>2. QED
      BY <2>3, <3>1, EdgeIsQueueStep DEF WriteCmd
  <2>4. ASSUME NEW en \in BOOLEAN, NEW clear \in BOOLEAN, WriteIrq(en, clear)
        PROVE  Abstract!QNext
    BY <2>4, EdgeIsQueueStep DEF WriteIrq
  <2>5. CASE Reset
    <3>1. /\ fifo_cnt' = 0 /\ retired' = 0 /\ start' = FALSE /\ busy' = FALSE
          /\ done' = FALSE
      BY <2>5 DEF Reset, DP!Reset
    <3>2. Contents' = <<>>
      BY <3>1 DEF Contents
    <3>3. Abstract!QReset
      BY <3>1, <3>2 DEF Abstract!QReset, Bit
    <3>4. QED
      BY <3>3 DEF Abstract!QNext
  <2>6. CASE UNCHANGED vars
    <3>1. UNCHANGED <<Contents, start, busy, cmd, retired, done>>
      BY <2>6 DEF vars, fifoVars, retireVars, Contents
    <3>2. UNCHANGED Abstract!qvars
      BY <3>1 DEF Abstract!qvars, Bit
    <3>3. QED
      BY <3>2
  <2>7. QED
    BY <2>1, <2>2, <2>3, <2>4, <2>5, <2>6 DEF Next, Cycle
<1>3. QED
  BY <1>1, <1>2, Invariance, PTL DEF Spec, Abstract!QSafety

-------------------------------------------------------------------------------
(* For the proofs about the software that drives the block.                *)

\* The commands that have not retired.
Outstanding == accepted - retired

(* What the conservation of commands says about the ones outstanding.      *)
LEMMA Counting ==
    ASSUME Inv
    PROVE  /\ accepted \in Nat /\ retired \in Nat /\ acked \in Nat
           /\ fifo_cnt \in 0..4 /\ fifo_cnt <= Outstanding /\ Outstanding >= 0
           /\ start \/ busy => fifo_cnt < Outstanding
           /\ Outstanding = 0 => fifo_cnt = 0 /\ ~start /\ ~busy /\ ~done
           /\ acked <= retired /\ (irq_pending <=> retired > acked)
BY DEF Inv, TypeOK, Conservation, CountsRetired, PendingIffUnacked,
       Bit, Outstanding

(* A step that accepts nothing leaves no more outstanding than before.     *)
LEMMA Draining ==
    ASSUME Inv, Inv', accepted' = accepted, retired' >= retired
    PROVE  /\ Outstanding \in Nat /\ Outstanding' \in Nat
           /\ Outstanding' <= Outstanding
<1>1. /\ accepted \in Nat /\ retired \in Nat /\ Outstanding >= 0
      /\ retired' \in Nat
  BY Counting DEF Inv, TypeOK
<1>2. accepted' >= retired'
  <2>1. Conservation' /\ fifo_cnt' \in Nat
    BY DEF Inv, TypeOK
  <2>2. Bit(start') \in Nat /\ Bit(busy') \in Nat /\ Bit(done') \in Nat
    BY DEF Bit
  <2>3. QED
    BY <1>1, <2>1, <2>2 DEF Conservation
<1>3. \A a, r, s \in Nat : a >= s /\ s >= r
          => a - r \in Nat /\ a - s \in Nat /\ a - s <= a - r
  OBVIOUS
<1>4. retired' \in Nat /\ accepted >= retired'
  BY <1>1, <1>2
<1>5. /\ accepted - retired \in Nat /\ accepted - retired' \in Nat
      /\ accepted - retired' <= accepted - retired
  BY <1>1, <1>3, <1>4
<1>6. QED
  BY <1>5 DEF Outstanding

(* Any bus cycle, given what it does to the holding registers and IRQ.     *)
LEMMA BusCycle ==
    ASSUME Inv, NEW e \in BOOLEAN, NEW clear \in BOOLEAN, e => ~fifo_full,
           FifoEdge(e), RetireEdge(clear), DatapathEdge,
           hold' \in Cmd, irq_en' \in BOOLEAN
    PROVE  /\ Inv'
           /\ accepted' = accepted + (IF e THEN 1 ELSE 0)
           /\ retired' >= retired
           /\ acked' = IF clear THEN retired ELSE acked
<1>1. Inv'
  BY CycleStep DEF CanEnqueue
<1>2. /\ accepted' = accepted + (IF e THEN 1 ELSE 0)
      /\ acked' = IF clear THEN retired ELSE acked
  BY DEF FifoEdge, RetireEdge, Bit
<1>3. retired' >= retired
  BY Counting DEF RetireEdge, Bit
<1>4. QED
  BY <1>1, <1>2, <1>3

(* One lemma for each kind of bus cycle.                                   *)
LEMMA IdleStep ==
    ASSUME Inv, IdleCycle \/ UNCHANGED vars
    PROVE  /\ Inv' /\ hold' = hold
           /\ accepted' = accepted /\ retired' >= retired /\ acked' = acked
<1>1. CASE IdleCycle
  <2>1. hold' = hold /\ hold' \in Cmd /\ irq_en' \in BOOLEAN
    BY <1>1 DEF IdleCycle, Inv, TypeOK
  <2>2. Inv' /\ accepted' = accepted + 0 /\ retired' >= retired /\ acked' = acked
    BY <1>1, <2>1, BusCycle DEF IdleCycle
  <2>3. QED
    BY <2>1, <2>2, Counting
<1>2. CASE UNCHANGED vars
  BY <1>2, Counting DEF vars, fifoVars, retireVars, Inv, TypeOK, InFlightExclusive,
     Conservation, RingConsistent, CountsRetired, PendingIffUnacked, Bit
<1>3. QED
  BY <1>1, <1>2

LEMMA FieldStep ==
    ASSUME Inv, NEW f \in Field, NEW v \in Val, WriteField(f, v)
    PROVE  /\ Inv' /\ hold' = [hold EXCEPT ![f] = v]
           /\ accepted' = accepted /\ retired' >= retired /\ acked' = acked
<1>1. hold' = [hold EXCEPT ![f] = v] /\ hold' \in Cmd /\ irq_en' \in BOOLEAN
  BY DEF WriteField, Inv, TypeOK, Cmd
<1>2. Inv' /\ accepted' = accepted + 0 /\ retired' >= retired /\ acked' = acked
  BY <1>1, BusCycle DEF WriteField
<1>3. QED
  BY <1>1, <1>2, Counting

LEMMA CommandStep ==
    ASSUME Inv, WriteCmd
    PROVE  /\ Inv' /\ hold' = hold
           /\ accepted' = accepted + (IF fifo_full THEN 0 ELSE 1)
           /\ retired' >= retired /\ acked' = acked
<1>1. hold' = hold /\ hold' \in Cmd /\ irq_en' \in BOOLEAN
  BY DEF WriteCmd, Inv, TypeOK
<1>2. CanEnqueue \in BOOLEAN /\ (CanEnqueue <=> ~fifo_full)
  BY DEF CanEnqueue, fifo_full
<1>3. /\ Inv' /\ retired' >= retired /\ acked' = acked
      /\ accepted' = accepted + (IF CanEnqueue THEN 1 ELSE 0)
  BY <1>1, <1>2, BusCycle DEF WriteCmd
<1>4. QED
  BY <1>1, <1>2, <1>3

LEMMA IrqStep ==
    ASSUME Inv, NEW en \in BOOLEAN, NEW clear \in BOOLEAN, WriteIrq(en, clear)
    PROVE  /\ Inv' /\ hold' = hold
           /\ accepted' = accepted /\ retired' >= retired
           /\ acked' = IF clear THEN retired ELSE acked
<1>1. hold' = hold /\ hold' \in Cmd /\ irq_en' \in BOOLEAN
  BY DEF WriteIrq, Inv, TypeOK
<1>2. /\ Inv' /\ accepted' = accepted + 0 /\ retired' >= retired
      /\ acked' = IF clear THEN retired ELSE acked
  BY <1>1, BusCycle DEF WriteIrq
<1>3. QED
  BY <1>1, <1>2, Counting

(* The queue and the datapath hand commands on in order: if command number *)
(* j is one of C[j] wherever it is, with n of them sent, it still is after *)
(* any bus cycle.                                                          *)
LEMMA HandedOn ==
    ASSUME Inv, NEW C, NEW n \in Int, NEW e \in BOOLEAN,
           \A i \in 0..3 : i < fifo_cnt => fifo_mem[(fifo_rp + i) % 4] \in C[n - fifo_cnt + i],
           start \/ busy => cmd \in C[n - fifo_cnt - 1],
           FifoEdge(e), DatapathEdge,
           e => ~fifo_full /\ hold \in C[n],
           NEW k \in Int, k = n + (IF e THEN 1 ELSE 0)
    PROVE  /\ \A i \in 0..3 : i < fifo_cnt' =>
                 fifo_mem'[(fifo_rp' + i) % 4] \in C[k - fifo_cnt' + i]
           /\ start' \/ busy' => cmd' \in C[k - fifo_cnt' - 1]
<1>1. /\ fifo_cnt \in 0..4 /\ fifo_rp \in 0..3 /\ fifo_wp = (fifo_rp + fifo_cnt) % 4
      /\ fifo_mem \in [0..3 -> Cmd] /\ ~(start /\ busy)
  BY DEF Inv, TypeOK, RingConsistent, InFlightExclusive
<1>2. /\ fifo_mem' = IF e THEN [fifo_mem EXCEPT ![fifo_wp] = hold] ELSE fifo_mem
      /\ cmd' = IF pop THEN fifo_mem[fifo_rp] ELSE cmd
      /\ fifo_rp' = IF pop THEN (fifo_rp + 1) % 4 ELSE fifo_rp
      /\ start' = pop
      /\ fifo_cnt' = fifo_cnt + (IF e THEN 1 ELSE 0) - (IF pop THEN 1 ELSE 0)
  BY DEF FifoEdge, Bit
<1>3. pop => fifo_cnt > 0 /\ ~start /\ ~busy
  BY <1>1 DEF pop, fifo_empty
<1>4. busy' => start \/ busy
  BY DEF DatapathEdge, DP!Run, DP!Finish, DP!Accept, DP!Rest
<1>5. e => fifo_cnt < 4
  BY <1>1 DEF fifo_full
<1> DEFINE f == fifo_cnt + (IF e THEN 1 ELSE 0) - (IF pop THEN 1 ELSE 0)
           rp == IF pop THEN (fifo_rp + 1) % 4 ELSE fifo_rp
           mem == IF e THEN [fifo_mem EXCEPT ![fifo_wp] = hold] ELSE fifo_mem
<1>6. ASSUME NEW i \in 0..3, i < f
      PROVE  mem[(rp + i) % 4] \in C[k - f + i]
  <2> DEFINE o == i + (IF pop THEN 1 ELSE 0)
  <2>1. (rp + i) % 4 = (fifo_rp + o) % 4 /\ k - f + i = n - fifo_cnt + o
        /\ o \in 0..4
    BY <1>1, <1>6
  <2>2. CASE o < fifo_cnt
    <3>1. o \in 0..3 /\ (fifo_rp + o) % 4 \in 0..3 /\ (e => (fifo_rp + o) % 4 # fifo_wp)
      BY <1>1, <1>5, <2>1, <2>2
    <3>2. mem[(fifo_rp + o) % 4] = fifo_mem[(fifo_rp + o) % 4]
      BY <1>1, <3>1
    <3>3. fifo_mem[(fifo_rp + o) % 4] \in C[n - fifo_cnt + o]
      BY <2>2, <3>1
    <3>4. QED
      BY <2>1, <3>2, <3>3
  <2>3. CASE ~(o < fifo_cnt)
    <3>1. e /\ o = fifo_cnt
      BY <1>1, <1>3, <1>6, <2>3
    <3>2. (fifo_rp + o) % 4 = fifo_wp /\ fifo_wp \in 0..3
      BY <1>1, <3>1
    <3>3. mem[(fifo_rp + o) % 4] = hold
      BY <1>1, <3>1, <3>2
    <3>4. n - fifo_cnt + o = n
      BY <1>1, <3>1
    <3>5. QED
      BY <2>1, <3>1, <3>3, <3>4
  <2>4. QED
    BY <2>2, <2>3
<1>7. ASSUME start' \/ busy'
      PROVE  cmd' \in C[k - f - 1]
  <2>1. CASE pop
    <3>1. 0 < fifo_cnt /\ (fifo_rp + 0) % 4 = fifo_rp /\ 0 \in 0..3
      BY <1>1, <1>3, <2>1
    <3>2. fifo_mem[fifo_rp] \in C[n - fifo_cnt + 0]
      BY <3>1
    <3>3. k - f - 1 = n - fifo_cnt + 0
      BY <1>1, <2>1
    <3>4. cmd' = fifo_mem[fifo_rp]
      BY <1>2, <2>1
    <3>5. QED
      BY <3>2, <3>3, <3>4
  <2>2. CASE ~pop
    <3>1. cmd' = cmd /\ (start \/ busy)
      BY <1>2, <1>4, <1>7, <2>2
    <3>2. k - f - 1 = n - fifo_cnt - 1
      BY <1>1, <2>2
    <3>3. QED
      BY <3>1, <3>2
  <2>3. QED
    BY <2>1, <2>2
<1>8. fifo_cnt' = f /\ fifo_rp' = rp /\ fifo_mem' = mem
  BY <1>2
<1> HIDE DEF f, rp, mem
<1>9. QED
  BY <1>6, <1>7, <1>8

===============================================================================
