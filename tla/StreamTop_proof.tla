---------------------------- MODULE StreamTop_proof ----------------------------
(***************************************************************************)
(* Proofs about stream_top, for every size of the array, every address and *)
(* counter width and every set of commands: it keeps the start/busy/done   *)
(* contract of module Datapath; what it writes is the product, all of it   *)
(* and in place; a command leaves nothing behind; and the test program of  *)
(* module TbStream sees every command take the cycles it derives.          *)
(*                                                                         *)
(* The argument is one invariant, StreamInv.  It says what each register   *)
(* of the pipeline holds as a function of cyc alone: row k of A is at lane *)
(* r, column c in cycle k + r + c + 1, with the products of its first      *)
(* r + 1 lanes beside it.                                                  *)
(***************************************************************************)
EXTENDS TbStream, TLAPS

(* The states of stream_ctrl are six working states and the idle one, so   *)
(* each edge of its state machine is one edge of the contract.             *)
LEMMA FsmKeepsContract ==
    ASSUME NEW start \in BOOLEAN, NEW job, FsmEdge(start, job)
    PROVE  DP!Next
<1>1. CASE Idle(start, job)
  <2>1. /\ ~busy /\ done' = FALSE
        /\ busy' = start
    BY <1>1 DEF Idle, busy
  <2>2. CASE start
    BY <2>1, <2>2 DEF DP!Next, DP!Accept
  <2>3. CASE ~start
    BY <2>1, <2>3 DEF DP!Next, DP!Rest
  <2>4. QED
    BY <2>2, <2>3
<1>2. CASE LoadAddr \/ LoadData \/ LoadPulse \/ Prefetch \/ Stream
  <2>1. busy /\ busy' = TRUE /\ done' = FALSE
    BY <1>2 DEF LoadAddr, LoadData, LoadPulse, Prefetch, Stream, busy
  <2>2. QED
    BY <2>1 DEF DP!Next, DP!Run
<1>3. CASE Finish
  <2>1. busy /\ busy' = FALSE /\ done' = TRUE
    BY <1>3 DEF Finish, busy
  <2>2. QED
    BY <2>1 DEF DP!Next, DP!Finish
<1>4. QED
  BY <1>1, <1>2, <1>3 DEF FsmEdge

(* stream_top implements the datapath contract that the command queue is   *)
(* verified against (stream_ctrl.sv:72 and 134-161): busy rises on the     *)
(* edge that samples start and done is a pulse in the first idle cycle,    *)
(* whatever the size of the array and the length of the command.           *)
THEOREM StreamTopIsDatapath == Spec => ImplementsDatapath
<1>1. Init => DP!Init
  BY DEF Init, FsmInit, busy, DP!Init
<1>2. [Next]_vars => [DP!Next]_(DP!vars)
  <2>1. ASSUME NEW start \in BOOLEAN, NEW job \in Jobs, Clock(start, job)
        PROVE  DP!Next
    BY <2>1, FsmKeepsContract DEF Clock
  <2>2. CASE Reset
    <3>1. busy' = FALSE /\ done' = FALSE
      BY <2>2 DEF Reset, FsmReset, busy
    <3>2. QED
      BY <3>1 DEF DP!Next, DP!Reset
  <2>3. CASE UNCHANGED vars
    BY <2>3 DEF vars, fsmVars, busy, DP!vars
  <2>4. QED
    BY <2>1, <2>2, <2>3 DEF Next
<1>3. QED
  BY <1>1, <1>2, PTL DEF Spec, ImplementsDatapath, DP!Spec
-------------------------------------------------------------------------------
(* What every register holds, as a function of the state and cyc.          *)

\* Lane r of the array's input in cycle t of S_STREAM, and before and after.
InputAt(t, r) ==
    IF 0 <= t /\ t < job_r.m THEN Elt((job_r.a + t) % ADDR_MOD, r) ELSE ZeroElt

\* The first n products of column c of row k; nothing if there is no row k.
SumAt(k, n, c) ==
    IF 0 <= k /\ k < job_r.m
    THEN [r \in 1..n |-> <<Elt((job_r.a + k) % ADDR_MOD, r - 1),
                           Elt((job_r.w + r - 1) % ADDR_MOD, c)>>]
    ELSE <<>>

\* The pipeline registers at the beginning of cycle t.
RowSkewAt(t) == [r \in Lane |-> [i \in 1..r |-> InputAt(t - i, r)]]
ActAt(t) == [r \in Lane |-> [c \in Lane |-> InputAt(t - 1 - r - c, r)]]
PsumAt(t) == [r \in Lane |-> [c \in Lane |-> SumAt(t - 1 - r - c, r + 1, c)]]
ColSkewAt(t) == [c \in Lane |-> [i \in 1..(N - 1 - c) |-> SumAt(t - i - N - c, N, c)]]

Control ==
    /\ state \in States /\ job_r \in Jobs
    /\ state \in {"S_LOAD_ADDR", "S_LOAD_DATA"} => li \in 0..(N - 1)
    /\ state = "S_STREAM" => cyc \in 0..(job_r.m + Latency - 1)
    /\ done => state = "S_IDLE"

\* The weight rows read so far, and the words on the read port.
Loading ==
    /\ DOMAIN weight_buf = Lane
    /\ state \in {"S_LOAD_ADDR", "S_LOAD_DATA"} =>
           \A r \in 0..(li - 1) : weight_buf[r] = (job_r.w + r) % ADDR_MOD
    /\ state = "S_LOAD_DATA" => rd_data = (job_r.w + li) % ADDR_MOD
    /\ state = "S_LOAD_PULSE" =>
           \A r \in Lane : weight_buf[r] = (job_r.w + r) % ADDR_MOD
    /\ state \in {"S_PREFETCH", "S_STREAM"} =>
           weight = [r \in Lane |-> [c \in Lane |-> Elt((job_r.w + r) % ADDR_MOD, c)]]
    /\ state = "S_STREAM" /\ cyc < job_r.m => rd_data = (job_r.a + cyc) % ADDR_MOD

Pipeline ==
    IF state = "S_STREAM"
    THEN /\ row_skew = RowSkewAt(cyc) /\ col_skew = ColSkewAt(cyc)
         /\ act = ActAt(cyc) /\ psum = PsumAt(cyc)
    ELSE /\ row_skew = ZeroRowSkew /\ col_skew = ZeroColSkew
         /\ act = ZeroArray /\ psum = ZeroArray

\* The rows of the product written so far.
Written ==
    /\ DOMAIN cram = 0..(ADDR_MOD - 1)
    /\ \A k \in 0..(job_r.m - 1) :
           \/ state = "S_STREAM" /\ k < cyc - Latency
           \/ state = "S_DONE"
           \/ done
           => cram[(job_r.c + k) % ADDR_MOD] = Expected(k)

StreamInv == Control /\ Loading /\ Pipeline /\ Written

-------------------------------------------------------------------------------
(* Arithmetic modulo a constant.                                           *)

\* The remainder is the only one.
LEMMA ModUnique ==
    ASSUME NEW d \in Nat \ {0}, NEW q \in Int, NEW r \in 0..(d - 1), NEW x \in Int,
           x = q * d + r
    PROVE  x % d = r
<1> DEFINE e == x \div d
           s == x % d
<1>1. e \in Int /\ s \in 0..(d - 1) /\ x = e * d + s
  BY Z3
<1> HIDE DEF e, s
<1>2. (q - e) * d = s - r
  BY <1>1, Z3
<1>3. CASE q - e >= 1
  <2>1. (q - e) * d >= d
    BY <1>1, <1>3, Z3
  <2>2. QED
    BY <1>1, <1>2, <2>1, Z3
<1>4. CASE q - e <= -1
  <2>1. (q - e) * d <= -d
    BY <1>1, <1>4, Z3
  <2>2. QED
    BY <1>1, <1>2, <2>1, Z3
<1>5. CASE q - e = 0
  BY <1>1, <1>2, <1>5, Z3 DEF s
<1>6. QED
  BY <1>1, <1>3, <1>4, <1>5

\* Congruent numbers stay congruent when the same is added to both.
LEMMA ModShift ==
    ASSUME NEW d \in Nat \ {0}, NEW x \in Int, NEW y \in Int, NEW z \in Int, x % d = y % d
    PROVE  (x + z) % d = (y + z) % d
<1> DEFINE e == x \div d
           f == y \div d
           g == (x + z) \div d
           s == (x + z) % d
<1>1. e \in Int /\ f \in Int /\ x - e * d = y - f * d
  <2> DEFINE r == x % d
             u == y % d
  <2>1. e \in Int /\ x = e * d + r /\ f \in Int /\ y = f * d + u /\ r \in Int
    BY Z3
  <2>2. r = u
    OBVIOUS
  <2> HIDE DEF r, u, e, f
  <2>3. e * d \in Int /\ f * d \in Int
    BY <2>1, Z3
  <2>4. QED
    BY <2>1, <2>2, <2>3
<1>2. g \in Int /\ s \in 0..(d - 1) /\ x + z = g * d + s
  BY Z3
<1> HIDE DEF e, f, g
<1>3. y + z = (g + f - e) * d + s
  <2> HIDE DEF s
  <2>1. (g + f - e) * d = g * d + f * d - e * d /\ g * d \in Int /\ f * d \in Int /\ e * d \in Int
    BY <1>1, <1>2, Z3
  <2>2. QED
    BY <1>1, <1>2, <2>1
<1>4. (y + z) % d = s
  <2> HIDE DEF s
  <2>1. y + z \in Int /\ g + f - e \in Int
    BY <1>1, <1>2
  <2>2. QED
    BY <1>2, <1>3, <2>1, ModUnique
<1>5. QED
  BY <1>4

\* A number below the modulus is its own remainder.
LEMMA ModSmall ==
    ASSUME NEW d \in Nat \ {0}, NEW x \in 0..(d - 1)
    PROVE  x % d = x
<1>1. x = 0 * d + x
  BY Z3
<1>2. QED
  BY <1>1, ModUnique

\* What a command is, and when it ends.
LEMMA JobFacts ==
    ASSUME job_r \in Jobs
    PROVE  /\ N \in Nat \ {0} /\ ADDR_MOD \in Nat \ {0} /\ N <= ADDR_MOD
           /\ CNT_MOD \in Nat \ {0} /\ Latency = 2 * N - 1
           /\ job_r.w \in 0..(ADDR_MOD - 1) /\ job_r.a \in 0..(ADDR_MOD - 1)
           /\ job_r.c \in 0..(ADDR_MOD - 1)
           /\ job_r.m \in Nat /\ job_r.m + Latency < CNT_MOD
           /\ total_cycles = job_r.m + Latency
           /\ (total_cycles - 1) % CNT_MOD = job_r.m + Latency - 1
<1>1. /\ N \in Nat \ {0} /\ ADDR_MOD \in Nat \ {0} /\ N <= ADDR_MOD
      /\ CNT_MOD \in Nat \ {0} /\ Latency = 2 * N - 1
  BY StreamAssumption DEF Latency
<1>2. {job_r.w, job_r.a, job_r.c} \subseteq 0..(ADDR_MOD - 1)
      /\ job_r.m \in 0..(CNT_MOD - 2 * N)
  BY JobsAssumption
<1>3. job_r.m \in Nat /\ job_r.m + Latency \in 0..(CNT_MOD - 1)
      /\ job_r.m + Latency - 1 \in 0..(CNT_MOD - 1)
  BY <1>1, <1>2
<1>4. total_cycles = job_r.m + Latency
  BY <1>1, <1>3, ModSmall DEF total_cycles
<1>5. (total_cycles - 1) % CNT_MOD = job_r.m + Latency - 1
  BY <1>1, <1>3, <1>4, ModSmall
<1>6. QED
  BY <1>1, <1>2, <1>3, <1>4, <1>5

-------------------------------------------------------------------------------
(* The pipeline as a function of time.                                     *)

\* A PE adds the product of its row to the sum from above.
LEMMA SumExtends ==
    ASSUME job_r \in Jobs, NEW k \in Int, NEW r \in Lane, NEW c \in Lane
    PROVE  /\ SumAt(k, 0, c) = <<>>
           /\ Mac(SumAt(k, r, c), InputAt(k, r), Elt((job_r.w + r) % ADDR_MOD, c))
              = SumAt(k, r + 1, c)
<1>1. N \in Nat \ {0} /\ r \in Nat
  BY JobFacts DEF Lane
<1>2. CASE 0 <= k /\ k < job_r.m
  <2> DEFINE e == [i \in Nat |-> <<Elt((job_r.a + k) % ADDR_MOD, i - 1),
                                   Elt((job_r.w + i - 1) % ADDR_MOD, c)>>]
             x == <<InputAt(k, r), Elt((job_r.w + r) % ADDR_MOD, c)>>
  <2>1. \A n \in Nat : SumAt(k, n, c) = [i \in 1..n |-> e[i]]
    BY <1>2 DEF SumAt
  <2>2. InputAt(k, r) # ZeroElt /\ Elt((job_r.w + r) % ADDR_MOD, c) # ZeroElt
    BY <1>2 DEF InputAt, Elt, ZeroElt
  <2>3. x = e[r + 1]
    <3>1. (r + 1) - 1 = r /\ job_r.w + (r + 1) - 1 = job_r.w + r /\ r + 1 \in Nat
      BY <1>1, JobFacts
    <3>2. QED
      BY <1>2, <3>1 DEF InputAt
  <2> HIDE DEF e, x
  <2>4. [i \in 1..0 |-> e[i]] = <<>>
    OBVIOUS
  <2>5. Append([i \in 1..r |-> e[i]], e[r + 1]) = [i \in 1..(r + 1) |-> e[i]]
    BY <1>1
  <2>6. SumAt(k, 0, c) = <<>>
    BY <2>1, <2>4
  <2>7. SumAt(k, r, c) = [i \in 1..r |-> e[i]]
        /\ SumAt(k, r + 1, c) = [i \in 1..(r + 1) |-> e[i]]
    BY <1>1, <2>1
  <2>8. Mac(SumAt(k, r, c), InputAt(k, r), Elt((job_r.w + r) % ADDR_MOD, c))
        = Append(SumAt(k, r, c), x)
    BY <2>2 DEF Mac, x
  <2>9. QED
    BY <2>3, <2>5, <2>6, <2>7, <2>8
<1>3. CASE ~(0 <= k /\ k < job_r.m)
  BY <1>3 DEF SumAt, InputAt, Mac, ZeroElt
<1>4. QED
  BY <1>2, <1>3

\* Before the first row and after the last the pipeline is empty.
LEMMA PipelineEmpty ==
    ASSUME job_r \in Jobs, NEW t \in {0, job_r.m + Latency}
    PROVE  /\ RowSkewAt(t) = ZeroRowSkew /\ ColSkewAt(t) = ZeroColSkew
           /\ ActAt(t) = ZeroArray /\ PsumAt(t) = ZeroArray
<1>1. N \in Nat \ {0} /\ job_r.m \in Nat /\ Latency = 2 * N - 1
  BY JobFacts
<1>2. \A k \in Int : k < 0 \/ k >= job_r.m =>
         \A n, c : InputAt(k, c) = <<>> /\ SumAt(k, n, c) = <<>>
  BY <1>1 DEF InputAt, SumAt, ZeroElt
<1>3. ASSUME NEW r \in Lane, NEW i \in 1..r
      PROVE  t - i \in Int /\ (t - i < 0 \/ t - i >= job_r.m)
  BY <1>1 DEF Lane
<1>4. ASSUME NEW c \in Lane, NEW i \in 1..(N - 1 - c)
      PROVE  t - i - N - c \in Int /\ (t - i - N - c < 0 \/ t - i - N - c >= job_r.m)
  BY <1>1 DEF Lane
<1>5. ASSUME NEW r \in Lane, NEW c \in Lane
      PROVE  t - 1 - r - c \in Int /\ (t - 1 - r - c < 0 \/ t - 1 - r - c >= job_r.m)
  BY <1>1 DEF Lane
<1>6. RowSkewAt(t) = ZeroRowSkew
  BY <1>2, <1>3 DEF RowSkewAt, ZeroRowSkew, ZeroElt
<1>7. ColSkewAt(t) = ZeroColSkew
  BY <1>2, <1>4 DEF ColSkewAt, ZeroColSkew
<1>8. ActAt(t) = ZeroArray /\ PsumAt(t) = ZeroArray
  BY <1>2, <1>5 DEF ActAt, PsumAt, ZeroArray
<1>9. QED
  BY <1>6, <1>7, <1>8

\* Every wire of the pipeline in a cycle of S_STREAM.
LEMMA WiresAt ==
    ASSUME Control, Loading, Pipeline, state = "S_STREAM"
    PROVE  /\ \A r \in Lane : /\ act_push(r) = InputAt(cyc, r)
                              /\ act_skewed(r) = InputAt(cyc - r, r)
           /\ \A r, c \in Lane :
                  /\ a_in([i \in Lane |-> act_skewed(i)], r, c) = InputAt(cyc - r - c, r)
                  /\ p_in(r, c) = SumAt(cyc - r - c, r, c)
           /\ \A c \in Lane : /\ psum_out(c) = SumAt(cyc - N - c, N, c)
                              /\ psum_aligned(c) = SumAt(cyc - Latency, N, c)
<1>1. /\ job_r \in Jobs /\ N \in Nat \ {0} /\ job_r.m \in Nat /\ cyc \in Nat
      /\ Latency = 2 * N - 1
  BY JobFacts DEF Control
<1>2. /\ row_skew = RowSkewAt(cyc) /\ col_skew = ColSkewAt(cyc)
      /\ act = ActAt(cyc) /\ psum = PsumAt(cyc)
  BY DEF Pipeline
<1>3. ASSUME NEW r \in Lane
      PROVE  act_push(r) = InputAt(cyc, r)
  BY <1>1 DEF act_push, push_valid, InputAt, Loading
<1>4. ASSUME NEW r \in Lane
      PROVE  act_skewed(r) = InputAt(cyc - r, r)
  <2>1. CASE r = 0
    <3>1. cyc - r = cyc
      BY <1>1, <2>1
    <3>2. QED
      BY <1>3, <2>1, <3>1 DEF act_skewed
  <2>2. CASE r # 0
    <3>1. r \in 1..r
      BY <1>1, <2>2 DEF Lane
    <3>2. QED
      BY <1>2, <2>2, <3>1 DEF act_skewed, RowSkewAt
  <2>3. QED
    BY <2>1, <2>2
<1>5. ASSUME NEW r \in Lane, NEW c \in Lane
      PROVE  a_in([i \in Lane |-> act_skewed(i)], r, c) = InputAt(cyc - r - c, r)
  <2>1. CASE c = 0
    <3>1. cyc - r - c = cyc - r
      BY <1>1, <2>1 DEF Lane
    <3>2. QED
      BY <1>4, <2>1, <3>1 DEF a_in
  <2>2. CASE c # 0
    <3>1. c - 1 \in Lane /\ cyc - 1 - r - (c - 1) = cyc - r - c
      BY <1>1, <2>2 DEF Lane
    <3>2. act[r][c - 1] = InputAt(cyc - 1 - r - (c - 1), r)
      BY <1>2, <3>1 DEF ActAt
    <3>3. QED
      BY <2>2, <3>1, <3>2 DEF a_in
  <2>3. QED
    BY <2>1, <2>2
<1>6. ASSUME NEW r \in Lane, NEW c \in Lane
      PROVE  p_in(r, c) = SumAt(cyc - r - c, r, c)
  <2>1. CASE r = 0
    <3>1. cyc - r - c \in Int
      BY <1>1 DEF Lane
    <3>2. QED
      BY <1>1, <2>1, <3>1, SumExtends DEF p_in
  <2>2. CASE r # 0
    <3>1. r - 1 \in Lane /\ (r - 1) + 1 = r /\ cyc - 1 - (r - 1) - c = cyc - r - c
      BY <1>1, <2>2 DEF Lane
    <3>2. psum[r - 1][c] = SumAt(cyc - 1 - (r - 1) - c, (r - 1) + 1, c)
      BY <1>2, <3>1 DEF PsumAt
    <3>3. QED
      BY <2>2, <3>1, <3>2 DEF p_in
  <2>3. QED
    BY <2>1, <2>2
<1>7. ASSUME NEW c \in Lane
      PROVE  psum_out(c) = SumAt(cyc - N - c, N, c)
  <2>1. N - 1 \in Lane /\ (N - 1) + 1 = N /\ cyc - 1 - (N - 1) - c = cyc - N - c
    BY <1>1 DEF Lane
  <2>2. psum[N - 1][c] = SumAt(cyc - 1 - (N - 1) - c, (N - 1) + 1, c)
    BY <1>2, <2>1 DEF PsumAt
  <2>3. QED
    BY <2>1, <2>2 DEF psum_out
<1>8. ASSUME NEW c \in Lane
      PROVE  psum_aligned(c) = SumAt(cyc - Latency, N, c)
  <2>1. CASE c = N - 1
    <3>1. cyc - N - c = cyc - Latency
      BY <1>1, <2>1
    <3>2. QED
      BY <1>7, <2>1, <3>1 DEF psum_aligned
  <2>2. CASE c # N - 1
    <3>1. /\ N - 1 - c \in 1..(N - 1 - c)
          /\ cyc - (N - 1 - c) - N - c = cyc - Latency
      BY <1>1, <2>2 DEF Lane
    <3>2. col_skew[c][N - 1 - c] = SumAt(cyc - (N - 1 - c) - N - c, N, c)
      BY <1>2, <3>1 DEF ColSkewAt
    <3>3. QED
      BY <2>2, <3>1, <3>2 DEF psum_aligned
  <2>3. QED
    BY <2>1, <2>2
<1>9. QED
  BY <1>3, <1>4, <1>5, <1>6, <1>7, <1>8

\* An edge in S_STREAM moves every register of the pipeline on by a cycle.
LEMMA StreamingEdge ==
    ASSUME Control, Loading, Pipeline, state = "S_STREAM", ArrayEdge, SkewEdge
    PROVE  /\ row_skew' = RowSkewAt(cyc + 1) /\ col_skew' = ColSkewAt(cyc + 1)
           /\ act' = ActAt(cyc + 1) /\ psum' = PsumAt(cyc + 1)
<1>1. /\ job_r \in Jobs /\ N \in Nat \ {0} /\ cyc \in Nat
  BY JobFacts DEF Control
<1>2. /\ row_skew = RowSkewAt(cyc) /\ col_skew = ColSkewAt(cyc)
  BY DEF Pipeline
<1>3. row_skew' = RowSkewAt(cyc + 1)
  <2> DEFINE moved(r) == Shift(row_skew[r], act_push(r))
             row(r) == [i \in 1..r |-> InputAt((cyc + 1) - i, r)]
  <2>1. row_skew' = [r \in Lane |-> moved(r)]
    BY DEF SkewEdge
  <2>2. ASSUME NEW r \in Lane
        PROVE  moved(r) = row(r)
    <3>1. row_skew[r] = [i \in 1..r |-> InputAt(cyc - i, r)]
      BY <1>2 DEF RowSkewAt
    <3>2. act_push(r) = InputAt(cyc, r)
      BY WiresAt
    <3>3. ASSUME NEW i \in 1..r
          PROVE  (IF i = 1 THEN act_push(r) ELSE row_skew[r][i - 1])
                 = InputAt((cyc + 1) - i, r)
      <4>1. CASE i = 1
        <5>1. (cyc + 1) - i = cyc
          BY <1>1, <4>1
        <5>2. QED
          BY <3>2, <4>1, <5>1
      <4>2. CASE i # 1
        <5>1. i - 1 \in 1..r /\ cyc - (i - 1) = (cyc + 1) - i
          BY <1>1, <4>2 DEF Lane
        <5>2. QED
          BY <3>1, <4>2, <5>1
      <4>3. QED
        BY <4>1, <4>2
    <3>4. DOMAIN row_skew[r] = 1..r
      BY <3>1
    <3>5. QED
      BY <3>3, <3>4 DEF Shift
  <2>3. RowSkewAt(cyc + 1) = [r \in Lane |-> row(r)]
    BY DEF RowSkewAt
  <2> HIDE DEF moved, row
  <2>4. QED
    BY <2>1, <2>2, <2>3
<1>4. col_skew' = ColSkewAt(cyc + 1)
  <2> DEFINE moved(c) == Shift(col_skew[c], psum_out(c))
             col(c) == [i \in 1..(N - 1 - c) |-> SumAt((cyc + 1) - i - N - c, N, c)]
  <2>1. col_skew' = [c \in Lane |-> moved(c)]
    BY DEF SkewEdge
  <2>2. ASSUME NEW c \in Lane
        PROVE  moved(c) = col(c)
    <3>1. col_skew[c] = [i \in 1..(N - 1 - c) |-> SumAt(cyc - i - N - c, N, c)]
      BY <1>2 DEF ColSkewAt
    <3>2. psum_out(c) = SumAt(cyc - N - c, N, c)
      BY WiresAt
    <3>3. ASSUME NEW i \in 1..(N - 1 - c)
          PROVE  (IF i = 1 THEN psum_out(c) ELSE col_skew[c][i - 1])
                 = SumAt((cyc + 1) - i - N - c, N, c)
      <4>1. CASE i = 1
        <5>1. (cyc + 1) - i - N - c = cyc - N - c
          BY <1>1, <4>1 DEF Lane
        <5>2. QED
          BY <3>2, <4>1, <5>1
      <4>2. CASE i # 1
        <5>1. i - 1 \in 1..(N - 1 - c) /\ cyc - (i - 1) - N - c = (cyc + 1) - i - N - c
          BY <1>1, <4>2 DEF Lane
        <5>2. QED
          BY <3>1, <4>2, <5>1
      <4>3. QED
        BY <4>1, <4>2
    <3>4. DOMAIN col_skew[c] = 1..(N - 1 - c)
      BY <3>1
    <3>5. QED
      BY <3>3, <3>4 DEF Shift
  <2>3. ColSkewAt(cyc + 1) = [c \in Lane |-> col(c)]
    BY DEF ColSkewAt
  <2> HIDE DEF moved, col
  <2>4. QED
    BY <2>1, <2>2, <2>3
<1>5. ASSUME NEW r \in Lane, NEW c \in Lane
      PROVE  (cyc + 1) - 1 - r - c = cyc - r - c /\ cyc - r - c \in Int
  BY <1>1 DEF Lane
<1>6. act' = ActAt(cyc + 1)
  <2> DEFINE moved(r) == [c \in Lane |-> a_in([i \in Lane |-> act_skewed(i)], r, c)]
             row(r) == [c \in Lane |-> InputAt((cyc + 1) - 1 - r - c, r)]
  <2>1. act' = [r \in Lane |-> moved(r)]
    BY DEF ArrayEdge, PeEdge
  <2>2. ASSUME NEW r \in Lane
        PROVE  moved(r) = row(r)
    <3>1. \A c \in Lane : a_in([i \in Lane |-> act_skewed(i)], r, c)
                         = InputAt((cyc + 1) - 1 - r - c, r)
      BY <1>5, WiresAt
    <3>2. QED
      BY <3>1
  <2>3. ActAt(cyc + 1) = [r \in Lane |-> row(r)]
    BY DEF ActAt
  <2> HIDE DEF moved, row
  <2>4. QED
    BY <2>1, <2>2, <2>3
<1>7. psum' = PsumAt(cyc + 1)
  <2> DEFINE moved(r) ==
                 [c \in Lane |-> Mac(p_in(r, c),
                                     a_in([i \in Lane |-> act_skewed(i)], r, c),
                                     weight[r][c])]
             row(r) == [c \in Lane |-> SumAt((cyc + 1) - 1 - r - c, r + 1, c)]
  <2>1. psum' = [r \in Lane |-> moved(r)]
    BY DEF ArrayEdge, PeEdge
  <2>2. ASSUME NEW r \in Lane
        PROVE  moved(r) = row(r)
    <3>1. ASSUME NEW c \in Lane
          PROVE  Mac(p_in(r, c), a_in([i \in Lane |-> act_skewed(i)], r, c), weight[r][c])
                 = SumAt((cyc + 1) - 1 - r - c, r + 1, c)
      <4>1. weight[r][c] = Elt((job_r.w + r) % ADDR_MOD, c)
        BY DEF Loading
      <4>2. /\ p_in(r, c) = SumAt(cyc - r - c, r, c)
            /\ a_in([i \in Lane |-> act_skewed(i)], r, c) = InputAt(cyc - r - c, r)
        BY WiresAt
      <4>3. QED
        BY <1>1, <1>5, <4>1, <4>2, SumExtends
    <3>2. QED
      BY <3>1
  <2>3. PsumAt(cyc + 1) = [r \in Lane |-> row(r)]
    BY DEF PsumAt
  <2> HIDE DEF moved, row
  <2>4. QED
    BY <2>1, <2>2, <2>3
<1>8. QED
  BY <1>3, <1>4, <1>6, <1>7

\* Outside S_STREAM the pipeline is empty and an edge leaves it so.
LEMMA RestingEdge ==
    ASSUME Pipeline, state # "S_STREAM", ArrayEdge, SkewEdge
    PROVE  /\ row_skew' = ZeroRowSkew /\ col_skew' = ZeroColSkew
           /\ act' = ZeroArray /\ psum' = ZeroArray
<1>1. /\ row_skew = ZeroRowSkew /\ col_skew = ZeroColSkew
      /\ act = ZeroArray /\ psum = ZeroArray
  BY DEF Pipeline
<1>2. N \in Nat \ {0}
  BY StreamAssumption
<1>3. row_skew' = ZeroRowSkew /\ col_skew' = ZeroColSkew
  BY <1>1 DEF SkewEdge, skewVars
<1>4. ASSUME NEW r \in Lane
      PROVE  act_skewed(r) = ZeroElt
  <2>1. CASE r = 0
    BY <2>1 DEF act_skewed, act_push, push_valid
  <2>2. CASE r # 0
    <3>1. r \in 1..r
      BY <1>2, <2>2 DEF Lane
    <3>2. QED
      BY <1>1, <2>2, <3>1 DEF act_skewed, ZeroRowSkew
  <2>3. QED
    BY <2>1, <2>2
<1>5. ASSUME NEW r \in Lane, NEW c \in Lane
      PROVE  /\ a_in([i \in Lane |-> act_skewed(i)], r, c) = <<>>
             /\ p_in(r, c) = <<>>
  <2>1. c # 0 => c - 1 \in Lane
    BY <1>2 DEF Lane
  <2>2. r # 0 => r - 1 \in Lane
    BY <1>2 DEF Lane
  <2>3. QED
    BY <1>1, <1>4, <2>1, <2>2 DEF a_in, p_in, ZeroArray, ZeroElt
<1>6. act' = ZeroArray
  BY <1>5 DEF ArrayEdge, PeEdge, ZeroArray
<1>7. psum' = ZeroArray
  BY <1>5 DEF ArrayEdge, PeEdge, ZeroArray, Mac, ZeroElt
<1>8. QED
  BY <1>3, <1>6, <1>7

-------------------------------------------------------------------------------
(* The inductive step.                                                     *)

\* The counters of the sequencer do not wrap.
LEMMA CountersMove ==
    ASSUME Control
    PROVE  /\ LoadData =>
                  \/ li = N - 1 /\ state' = "S_LOAD_PULSE" /\ li' = li
                  \/ li < N - 1 /\ state' = "S_LOAD_ADDR" /\ li' = li + 1
           /\ Stream =>
                  \/ cyc = job_r.m + Latency - 1 /\ state' = "S_DONE" /\ cyc' = cyc
                  \/ /\ cyc < job_r.m + Latency - 1 /\ state' = "S_STREAM"
                     /\ cyc' = cyc + 1 /\ (cyc + 1) % CNT_MOD = cyc + 1
<1> USE DEF Control
<1>1. CASE LoadData
  <2>1. li \in 0..(N - 1) /\ N \in Nat \ {0} /\ ADDR_MOD \in Nat \ {0} /\ N <= ADDR_MOD
    BY <1>1, JobFacts DEF LoadData
  <2>2. li # N - 1 => li < N - 1 /\ (li + 1) % ADDR_MOD = li + 1
    BY <2>1, ModSmall
  <2>3. ~Stream
    BY <1>1 DEF LoadData, Stream
  <2>4. QED
    BY <1>1, <2>2, <2>3 DEF LoadData
<1>2. CASE Stream
  <2>1. /\ cyc \in 0..(job_r.m + Latency - 1) /\ job_r.m \in Nat /\ Latency \in Nat
        /\ CNT_MOD \in Nat \ {0} /\ job_r.m + Latency < CNT_MOD
        /\ (total_cycles - 1) % CNT_MOD = job_r.m + Latency - 1
    BY <1>2, JobFacts DEF Stream
  <2>2. cyc # job_r.m + Latency - 1 =>
            cyc < job_r.m + Latency - 1 /\ (cyc + 1) % CNT_MOD = cyc + 1
    BY <2>1, ModSmall
  <2>3. ~LoadData
    BY <1>2 DEF LoadData, Stream
  <2>4. QED
    BY <1>2, <2>1, <2>2, <2>3 DEF Stream
<1>3. QED
  BY <1>1, <1>2

\* The sequencer: one step per state.
LEMMA ControlStep ==
    ASSUME Control, NEW start \in BOOLEAN, NEW job \in Jobs, FsmEdge(start, job)
    PROVE  Control'
<1> USE DEF Control, States
<1>1. N \in Nat \ {0} /\ job_r.m \in Nat /\ Latency \in Nat /\ Latency' = Latency
  BY JobFacts DEF Latency
<1>2. CASE Idle(start, job)
  BY <1>1, <1>2 DEF Idle
<1>3. CASE LoadAddr
  BY <1>3 DEF LoadAddr
<1>4. CASE LoadData
  <2>1. li \in 0..(N - 1)
    BY <1>4 DEF LoadData
  <2>2. \/ state' = "S_LOAD_PULSE"
        \/ li < N - 1 /\ state' = "S_LOAD_ADDR" /\ li' = li + 1
    BY <1>4, CountersMove
  <2>3. done' = FALSE /\ job_r' = job_r
    BY <1>4 DEF LoadData
  <2>4. QED
    BY <1>1, <2>1, <2>2, <2>3
<1>5. CASE LoadPulse
  BY <1>5 DEF LoadPulse
<1>6. CASE Prefetch
  BY <1>1, <1>6 DEF Prefetch, Latency
<1>7. CASE Stream
  <2>1. cyc \in 0..(job_r.m + Latency - 1)
    BY <1>7 DEF Stream
  <2>2. \/ state' = "S_DONE"
        \/ cyc < job_r.m + Latency - 1 /\ state' = "S_STREAM" /\ cyc' = cyc + 1
    BY <1>7, CountersMove
  <2>3. done' = FALSE /\ job_r' = job_r
    BY <1>7 DEF Stream
  <2>4. QED
    BY <1>1, <2>1, <2>2, <2>3
<1>8. CASE Finish
  BY <1>8 DEF Finish
<1>9. QED
  BY <1>2, <1>3, <1>4, <1>5, <1>6, <1>7, <1>8 DEF FsmEdge

\* The pipeline: it moves in S_STREAM, starts empty and ends empty.
LEMMA PipelineStep ==
    ASSUME Control, Loading, Pipeline,
           NEW start \in BOOLEAN, NEW job \in Jobs, Clock(start, job)
    PROVE  Pipeline'
<1>1. FsmEdge(start, job) /\ ArrayEdge /\ SkewEdge
  BY DEF Clock
<1>2. job_r \in Jobs
  BY DEF Control
<1>3. ASSUME job_r' = job_r
      PROVE  /\ RowSkewAt(cyc)' = RowSkewAt(cyc') /\ ColSkewAt(cyc)' = ColSkewAt(cyc')
             /\ ActAt(cyc)' = ActAt(cyc') /\ PsumAt(cyc)' = PsumAt(cyc')
  BY <1>3 DEF RowSkewAt, ColSkewAt, ActAt, PsumAt, InputAt, SumAt
<1>4. CASE state # "S_STREAM"
  <2>1. /\ row_skew' = ZeroRowSkew /\ col_skew' = ZeroColSkew
        /\ act' = ZeroArray /\ psum' = ZeroArray
    BY <1>1, <1>4, RestingEdge
  <2>2. /\ ZeroRowSkew' = ZeroRowSkew /\ ZeroColSkew' = ZeroColSkew
        /\ ZeroArray' = ZeroArray
    BY DEF ZeroRowSkew, ZeroColSkew, ZeroArray
  <2>3. CASE Prefetch
    <3>1. job_r' = job_r /\ cyc' = 0
      BY <2>3 DEF Prefetch
    <3>2. QED
      BY <1>2, <1>3, <2>1, <2>2, <3>1, PipelineEmpty DEF Pipeline
  <2>4. CASE ~Prefetch
    <3>1. state' # "S_STREAM"
      BY <1>1, <1>4, <2>4
         DEF FsmEdge, Idle, LoadAddr, LoadData, LoadPulse, Stream, Finish
    <3>2. QED
      BY <2>1, <2>2, <3>1 DEF Pipeline
  <2>5. QED
    BY <2>3, <2>4
<1>5. CASE state = "S_STREAM"
  <2>1. Stream
    BY <1>1, <1>5 DEF FsmEdge, Idle, LoadAddr, LoadData, LoadPulse, Prefetch, Finish
  <2>2. job_r' = job_r
    BY <2>1 DEF Stream
  <2>3. /\ row_skew' = RowSkewAt(cyc + 1) /\ col_skew' = ColSkewAt(cyc + 1)
        /\ act' = ActAt(cyc + 1) /\ psum' = PsumAt(cyc + 1)
    BY <1>1, <1>5, StreamingEdge
  <2>4. CASE state' = "S_STREAM"
    <3>1. cyc' = cyc + 1
      BY <2>1, <2>4, CountersMove
    <3>2. QED
      BY <1>3, <2>2, <2>3, <2>4, <3>1 DEF Pipeline
  <2>5. CASE state' # "S_STREAM"
    <3>1. cyc + 1 = job_r.m + Latency
      <4>1. cyc = job_r.m + Latency - 1
        BY <2>1, <2>5, CountersMove
      <4>2. QED
        BY <1>2, <4>1, JobFacts
    <3>2. QED
      BY <1>2, <2>3, <2>5, <3>1, PipelineEmpty DEF Pipeline, ZeroRowSkew, ZeroColSkew, ZeroArray
  <2>6. QED
    BY <2>4, <2>5
<1>6. QED
  BY <1>4, <1>5

\* The words read are the weight rows in order, and then the rows of A in step
\* with cyc.
LEMMA LoadingStep ==
    ASSUME Control, Loading,
           NEW start \in BOOLEAN, NEW job \in Jobs, Clock(start, job)
    PROVE  Loading'
<1>1. /\ FsmEdge(start, job) /\ RamEdge /\ WeightBufEdge
      /\ weight' = IF weight_load
                   THEN [r \in Lane |-> [c \in Lane |-> Elt(weight_buf[r], c)]]
                   ELSE weight
  BY DEF Clock, ArrayEdge, PeEdge
<1>2. /\ job_r \in Jobs /\ N \in Nat \ {0} /\ ADDR_MOD \in Nat \ {0}
      /\ job_r.m \in Nat /\ job_r.a \in 0..(ADDR_MOD - 1)
  BY JobFacts DEF Control
<1>3. DOMAIN weight_buf' = Lane
  BY <1>1 DEF WeightBufEdge, Loading
<1>4. state # "S_LOAD_DATA" => weight_buf' = weight_buf
  BY <1>1 DEF WeightBufEdge
<1>5. CASE Idle(start, job)
  BY <1>2, <1>3, <1>5 DEF Idle, Loading
<1>6. CASE LoadAddr
  <2>1. rd_data' = (job_r.w + li) % ADDR_MOD
    BY <1>1, <1>6 DEF LoadAddr, RamEdge, rd_en, rd_addr
  <2>2. QED
    BY <1>3, <1>4, <1>6, <2>1 DEF LoadAddr, Loading
<1>7. CASE LoadData
  <2>1. li \in 0..(N - 1)
    BY <1>7 DEF Control, LoadData
  <2>2. \A r \in 0..li : weight_buf'[r] = (job_r.w + r) % ADDR_MOD
    BY <1>1, <1>2, <1>7, <2>1 DEF LoadData, Loading, WeightBufEdge, Lane
  <2>3. \/ li = N - 1 /\ state' = "S_LOAD_PULSE" /\ li' = li
        \/ li < N - 1 /\ state' = "S_LOAD_ADDR" /\ li' = li + 1
    BY <1>7, CountersMove
  <2>4. job_r' = job_r
    BY <1>7 DEF LoadData
  <2>5. CASE li = N - 1 /\ state' = "S_LOAD_PULSE"
    <3>1. \A r \in Lane : weight_buf'[r] = (job_r.w + r) % ADDR_MOD
      BY <2>2, <2>5 DEF Lane
    <3>2. QED
      BY <1>3, <2>4, <2>5, <3>1 DEF Loading
  <2>6. CASE li < N - 1 /\ state' = "S_LOAD_ADDR" /\ li' = li + 1
    <3>1. \A r \in 0..(li' - 1) : weight_buf'[r] = (job_r.w + r) % ADDR_MOD
      BY <2>1, <2>2, <2>6
    <3>2. QED
      BY <1>3, <2>4, <2>6, <3>1 DEF Loading
  <2>7. QED
    BY <2>3, <2>5, <2>6
<1>8. CASE LoadPulse
  <2>1. weight' = [r \in Lane |-> [c \in Lane |-> Elt((job_r.w + r) % ADDR_MOD, c)]]
    BY <1>1, <1>8 DEF LoadPulse, weight_load, Loading
  <2>2. QED
    BY <1>3, <1>8, <2>1 DEF LoadPulse, Loading
<1>9. CASE Prefetch
  <2>1. weight' = weight
    BY <1>1, <1>9 DEF Prefetch, weight_load
  <2>2. rd_data' = job_r.a
    BY <1>1, <1>9 DEF Prefetch, RamEdge, rd_en, rd_addr
  <2>3. (job_r.a + 0) % ADDR_MOD = job_r.a
    <3>1. job_r.a + 0 = job_r.a
      BY <1>2
    <3>2. QED
      BY <1>2, <3>1, ModSmall
  <2>4. QED
    BY <1>3, <1>9, <2>1, <2>2, <2>3 DEF Prefetch, Loading
<1>10. CASE Stream
  <2>1. weight' = weight /\ job_r' = job_r
    BY <1>1, <1>10 DEF Stream, weight_load
  <2>2. CASE state' = "S_STREAM"
    <3>1. cyc' = cyc + 1 /\ (cyc + 1) % CNT_MOD = cyc + 1
      BY <1>10, <2>2, CountersMove
    <3>2. job_r.a + cyc + 1 = job_r.a + cyc'
      <4>1. cyc \in Int
        BY <1>10 DEF Control, Stream
      <4>2. QED
        BY <1>2, <3>1, <4>1
    <3>3. cyc' < job_r.m => rd_data' = (job_r.a + cyc') % ADDR_MOD
      BY <1>1, <1>10, <3>1, <3>2 DEF Stream, RamEdge, rd_en, rd_addr
    <3>4. QED
      BY <1>3, <1>10, <2>1, <2>2, <3>3 DEF Stream, Loading
  <2>3. CASE state' # "S_STREAM"
    BY <1>3, <1>10, <2>3, CountersMove DEF Stream, Loading
  <2>4. QED
    BY <2>2, <2>3
<1>11. CASE Finish
  BY <1>3, <1>11 DEF Finish, Loading
<1>12. QED
  BY <1>1, <1>5, <1>6, <1>7, <1>8, <1>9, <1>10, <1>11 DEF FsmEdge

\* When the write strobe is up the row at the bottom is the one that is due.
LEMMA RowIsDue ==
    ASSUME Control, Loading, Pipeline, wr_en
    PROVE  wr_data = Expected(cyc - Latency)
<1>1. state = "S_STREAM" /\ cyc >= Latency /\ cyc - Latency < job_r.m
  BY DEF wr_en
<1>2. /\ job_r \in Jobs /\ job_r.m \in Nat /\ cyc \in Nat /\ N \in Nat \ {0}
      /\ Latency = 2 * N - 1
  BY <1>1, JobFacts DEF Control
<1>3. 0 <= cyc - Latency
  BY <1>1, <1>2
<1>4. \A c \in Lane : psum_aligned(c) = SumAt(cyc - Latency, N, c)
  BY <1>1, WiresAt
<1>5. \A c \in Lane : psum_aligned(c) = Expected(cyc - Latency)[c]
  BY <1>1, <1>3, <1>4 DEF SumAt, Expected
<1>6. wr_data = [c \in Lane |-> psum_aligned(c)]
  BY DEF wr_data
<1> DEFINE row == Expected(cyc - Latency)
<1>7. row = [c \in Lane |-> row[c]]
  BY DEF Expected
<1> HIDE DEF row
<1>8. wr_data = row
  BY <1>5, <1>6, <1>7 DEF row
<1>9. QED
  BY <1>8 DEF row

\* Two rows that land on the same address are the same row: the result RAM
\* and the RAM A is read from have addresses of the same width.
LEMMA SameAddressSameRow ==
    ASSUME job_r \in Jobs, NEW i \in Int, NEW k \in Int,
           (job_r.c + i) % ADDR_MOD = (job_r.c + k) % ADDR_MOD
    PROVE  Expected(i) = Expected(k)
<1> DEFINE z == job_r.a - job_r.c
<1>1. /\ ADDR_MOD \in Nat \ {0} /\ job_r.c + i \in Int /\ job_r.c + k \in Int /\ z \in Int
      /\ job_r.c + i + z = job_r.a + i /\ job_r.c + k + z = job_r.a + k
  <2>1. ADDR_MOD \in Nat \ {0} /\ job_r.a \in Int /\ job_r.c \in Int
    BY JobFacts
  <2>2. z \in Int /\ job_r.c + z = job_r.a
    BY <2>1
  <2> HIDE DEF z
  <2>3. \A c, y \in Int : c + y \in Int /\ (c + z = job_r.a => c + y + z = job_r.a + y)
    BY <2>1, <2>2
  <2>4. QED
    BY <2>1, <2>2, <2>3
<1> HIDE DEF z
<1>2. (job_r.c + i + z) % ADDR_MOD = (job_r.c + k + z) % ADDR_MOD
  BY <1>1, ModShift
<1>3. (job_r.a + i) % ADDR_MOD = (job_r.a + k) % ADDR_MOD
  BY <1>1, <1>2
<1>4. QED
  BY <1>3 DEF Expected

\* The result RAM: each row is written in turn, and a later row of the same
\* command never spoils an earlier one.
LEMMA WrittenStep ==
    ASSUME Control, Loading, Pipeline, Written,
           NEW start \in BOOLEAN, NEW job \in Jobs, Clock(start, job)
    PROVE  Written'
<1>1. FsmEdge(start, job) /\ RamEdge
  BY DEF Clock
<1>2. /\ job_r \in Jobs /\ N \in Nat \ {0} /\ job_r.m \in Nat /\ Latency = 2 * N - 1
      /\ Latency' = Latency
  BY JobFacts DEF Control, Latency
<1>3. DOMAIN cram' = 0..(ADDR_MOD - 1)
  BY <1>1 DEF RamEdge, Written
<1>4. ASSUME job_r' = job_r
      PROVE  \A k : Expected(k)' = Expected(k)
  BY <1>4 DEF Expected
<1>5. CASE Idle(start, job) \/ LoadAddr \/ LoadData \/ LoadPulse
  BY <1>3, <1>5, CountersMove DEF Idle, LoadAddr, LoadData, LoadPulse, Written
<1>6. CASE Prefetch
  BY <1>2, <1>3, <1>6 DEF Prefetch, Written
<1>7. CASE Stream
  <2>1. job_r' = job_r /\ done' = FALSE /\ cyc \in Nat /\ state = "S_STREAM"
    BY <1>2, <1>7 DEF Stream, Control
  <2>2. ASSUME NEW k \in 0..(job_r.m - 1), k <= cyc - Latency
        PROVE  cram'[(job_r.c + k) % ADDR_MOD] = Expected(k)
    <3>1. (job_r.c + k) % ADDR_MOD \in 0..(ADDR_MOD - 1)
      BY <1>2, JobFacts, Z3
    <3>2. wr_addr = (job_r.c + (cyc - Latency)) % ADDR_MOD
      BY <1>2, <2>1, JobFacts DEF wr_addr
    <3>3. CASE k = cyc - Latency
      <4>1. wr_en
        BY <1>2, <2>1, <2>2, <3>3 DEF wr_en
      <4>2. QED
        BY <1>1, <3>1, <3>2, <3>3, <4>1, RowIsDue DEF RamEdge, Written
    <3>4. CASE k < cyc - Latency
      <4>1. cram[(job_r.c + k) % ADDR_MOD] = Expected(k)
        BY <2>1, <3>4 DEF Written
      <4>2. CASE wr_en /\ wr_addr = (job_r.c + k) % ADDR_MOD
        <5>1. Expected(cyc - Latency) = Expected(k)
          BY <1>2, <2>1, <3>2, <4>2, SameAddressSameRow
        <5>2. QED
          BY <1>1, <3>1, <4>2, <5>1, RowIsDue DEF RamEdge, Written
      <4>3. CASE ~(wr_en /\ wr_addr = (job_r.c + k) % ADDR_MOD)
        BY <1>1, <4>1, <4>3 DEF RamEdge, Written
      <4>4. QED
        BY <4>2, <4>3
    <3>5. QED
      BY <1>2, <2>1, <2>2, <3>3, <3>4
  <2>3. CASE state' = "S_STREAM"
    <3>1. cyc' = cyc + 1
      BY <1>7, <2>3, CountersMove
    <3>2. \A k \in 0..(job_r.m - 1) : k < cyc' - Latency => k <= cyc - Latency
      BY <1>2, <2>1, <3>1
    <3>3. QED
      BY <1>2, <1>3, <1>4, <2>1, <2>2, <2>3, <3>2 DEF Written
  <2>4. CASE state' # "S_STREAM"
    <3>1. cyc = job_r.m + Latency - 1
      BY <1>7, <2>4, CountersMove
    <3>2. \A k \in 0..(job_r.m - 1) : k <= cyc - Latency
      BY <1>2, <3>1
    <3>3. QED
      BY <1>3, <1>4, <2>1, <2>2, <3>2 DEF Written
  <2>5. QED
    BY <2>3, <2>4
<1>8. CASE Finish
  <2>1. job_r' = job_r /\ state = "S_DONE" /\ cram' = cram
    BY <1>1, <1>8 DEF Finish, RamEdge, wr_en
  <2>2. QED
    BY <1>3, <1>4, <2>1 DEF Written
<1>9. QED
  BY <1>1, <1>5, <1>6, <1>7, <1>8 DEF FsmEdge

\* A reset abandons the command and empties the pipeline.
LEMMA ResetStep ==
    ASSUME Control, Loading, Written, Reset
    PROVE  StreamInv'
<1>1. /\ state' = "S_IDLE" /\ done' = FALSE /\ job_r' = job_r
      /\ row_skew' = ZeroRowSkew /\ col_skew' = ZeroColSkew
      /\ act' = ZeroArray /\ psum' = ZeroArray
      /\ weight_buf' = weight_buf
  BY DEF Reset, FsmReset, PeReset
<1>2. DOMAIN cram' = 0..(ADDR_MOD - 1)
  BY DEF Reset, RamEdge, Written
<1>3. Control'
  BY <1>1 DEF Control, States
<1>4. Loading'
  BY <1>1 DEF Loading
<1>5. Pipeline'
  BY <1>1 DEF Pipeline, ZeroRowSkew, ZeroColSkew, ZeroArray
<1>6. Written'
  BY <1>1, <1>2 DEF Written
<1>7. QED
  BY <1>3, <1>4, <1>5, <1>6 DEF StreamInv

LEMMA StreamInitially == Init => StreamInv
<1> SUFFICES ASSUME Init
             PROVE  StreamInv
  OBVIOUS
<1>1. /\ state = "S_IDLE" /\ done = FALSE /\ job_r \in Jobs
      /\ row_skew = ZeroRowSkew /\ col_skew = ZeroColSkew
      /\ act = ZeroArray /\ psum = ZeroArray
      /\ DOMAIN weight_buf = Lane /\ DOMAIN cram = 0..(ADDR_MOD - 1)
  BY DEF Init, FsmInit, ArrayInit
<1>2. QED
  BY <1>1 DEF StreamInv, Control, States, Loading, Pipeline, Written

LEMMA StreamStep == StreamInv /\ [Next]_vars => StreamInv'
<1> SUFFICES ASSUME StreamInv, [Next]_vars
             PROVE  StreamInv'
  OBVIOUS
<1>1. Control /\ Loading /\ Pipeline /\ Written
  BY DEF StreamInv
<1>2. ASSUME NEW start \in BOOLEAN, NEW job \in Jobs, Clock(start, job)
      PROVE  StreamInv'
  <2>1. Control'
    BY <1>1, <1>2, ControlStep DEF Clock
  <2>2. Loading'
    BY <1>1, <1>2, LoadingStep
  <2>3. Pipeline'
    BY <1>1, <1>2, PipelineStep
  <2>4. Written'
    BY <1>1, <1>2, WrittenStep
  <2>5. QED
    BY <2>1, <2>2, <2>3, <2>4 DEF StreamInv
<1>3. CASE Reset
  BY <1>1, <1>3, ResetStep
<1>4. CASE UNCHANGED vars
  BY <1>4 DEF vars, fsmVars, skewVars, StreamInv, Control, Loading, Pipeline, Written,
              Latency, RowSkewAt, ColSkewAt, ActAt, PsumAt, InputAt, SumAt, Expected,
              ZeroRowSkew, ZeroColSkew, ZeroArray
<1>5. QED
  BY <1>2, <1>3, <1>4 DEF Next

(* Every register of the datapath holds what the state and the cycle count *)
(* say, for every size of the array, whatever ran or was reset before: the *)
(* derivation of the timing in the comment at stream_ctrl.sv:9-13.         *)
THEOREM StreamInvariance == Spec => []StreamInv
<1>1. QED
  BY StreamInitially, StreamStep, PTL DEF Spec

(* The write strobe comes up when the row that belongs at its address is   *)
(* at the bottom of the de-skew registers (stream_ctrl.sv:74-76).          *)
THEOREM WritesAreProducts == Spec => []WriteIsProduct
<1>1. StreamInv => WriteIsProduct
  BY RowIsDue DEF StreamInv, WriteIsProduct
<1>2. QED
  BY <1>1, StreamInvariance, PTL

(* When done pulses the whole product is in the result RAM, overlapping    *)
(* result regions that wrap around the RAM included                        *)
(* (stream_ctrl.sv:51 and 157).                                            *)
THEOREM ProductIsWritten == Spec => []DoneMeansWritten
<1>1. StreamInv => DoneMeansWritten
  BY DEF StreamInv, Written, DoneMeansWritten
<1>2. QED
  BY <1>1, StreamInvariance, PTL

(* Between commands the pipeline is empty although the PEs are clocked and *)
(* the skew registers are frozen (stream_ctrl.sv:94 and 122).              *)
THEOREM PipelineDrains == Spec => []Drained
<1>1. StreamInv => Drained
  <2> SUFFICES ASSUME StreamInv, state # "S_STREAM"
               PROVE  Drained
    BY DEF Drained
  <2>1. ASSUME NEW r \in Lane, NEW c \in Lane
        PROVE  ZeroArray[r][c] = <<>>
    BY DEF ZeroArray
  <2>2. ASSUME NEW r \in Lane
        PROVE  \A i \in 1..r : ZeroRowSkew[r][i] = ZeroElt
    BY DEF ZeroRowSkew
  <2>3. ASSUME NEW c \in Lane
        PROVE  \A i \in 1..(N - 1 - c) : ZeroColSkew[c][i] = <<>>
    BY DEF ZeroColSkew
  <2>4. /\ row_skew = ZeroRowSkew /\ col_skew = ZeroColSkew
        /\ act = ZeroArray /\ psum = ZeroArray
    BY DEF StreamInv, Pipeline
  <2>5. QED
    BY <2>1, <2>2, <2>3, <2>4 DEF Drained, ZeroElt
<1>2. QED
  BY <1>1, StreamInvariance, PTL

-------------------------------------------------------------------------------
(* The test program: how long a command takes.                             *)

\* The edges since the start pulse when the sequencer is where it is.
Elapsed ==
    CASE state = "S_LOAD_ADDR"  -> 2 * li
      [] state = "S_LOAD_DATA"  -> 2 * li + 1
      [] state = "S_LOAD_PULSE" -> 2 * N
      [] state = "S_PREFETCH"   -> 2 * N + 1
      [] state = "S_STREAM"     -> 2 * N + 2 + cyc
      [] state = "S_DONE"       -> 2 * N + 2 + job_r.m + Latency
      [] OTHER                  -> 2 * N + 3 + job_r.m + Latency

Counted ==
    /\ pc \in {"any", "rst1", "rst2", "settle", "run_one", "wait"}
    /\ pc \in {"settle", "run_one"} => state = "S_IDLE"
    /\ pc = "wait" => /\ job_r.m > 0 /\ cycles = Elapsed
                      /\ state = "S_IDLE" => done

TbInv == StreamInv /\ Counted

\* The program takes steps of the datapath only.
LEMMA ProgramSteps ==
    ASSUME Control, TbNext
    PROVE  [Next]_vars
<1>1. job_r \in Jobs
  BY DEF Control
<1>2. CASE TbReset
  BY <1>2 DEF TbReset, Next
<1>3. CASE StartPulse
  BY <1>3 DEF StartPulse, Next
<1>4. CASE WaitTick
  BY <1>1, <1>4 DEF WaitTick, Next
<1>5. CASE ReadBack
  BY <1>5 DEF ReadBack
<1>6. CASE AnyUse
  BY <1>6 DEF AnyUse
<1>7. QED
  BY <1>2, <1>3, <1>4, <1>5, <1>6 DEF TbNext

\* A command is never under way for longer than it takes.
LEMMA ElapsedBounded ==
    ASSUME Control, state # "S_IDLE"
    PROVE  Elapsed \in Nat /\ Elapsed <= job_r.m + 4 * N + 1
<1>1. /\ N \in Nat \ {0} /\ job_r.m \in Nat /\ Latency = 2 * N - 1
      /\ state \in {"S_LOAD_ADDR", "S_LOAD_DATA"} => li \in 0..(N - 1)
      /\ state = "S_STREAM" => cyc \in 0..(job_r.m + Latency - 1)
  BY JobFacts DEF Control
<1>2. CASE state \in {"S_LOAD_ADDR", "S_LOAD_DATA"}
  BY <1>1, <1>2 DEF Elapsed
<1>3. CASE state = "S_STREAM"
  BY <1>1, <1>3 DEF Elapsed
<1>4. CASE state \in {"S_LOAD_PULSE", "S_PREFETCH", "S_DONE"}
  BY <1>1, <1>4 DEF Elapsed
<1>5. QED
  BY <1>2, <1>3, <1>4 DEF Control, States

\* Every edge of a working sequencer is one more, and done follows the last.
LEMMA ElapsedTicks ==
    ASSUME Control, state # "S_IDLE", NEW start \in BOOLEAN, NEW job \in Jobs,
           FsmEdge(start, job)
    PROVE  /\ Elapsed' = Elapsed + 1 /\ job_r' = job_r
           /\ state' = "S_IDLE" => done'
<1>1. /\ N \in Nat \ {0} /\ job_r.m \in Nat /\ Latency = 2 * N - 1 /\ Latency' = Latency
      /\ state \in {"S_LOAD_ADDR", "S_LOAD_DATA"} => li \in 0..(N - 1)
      /\ state = "S_STREAM" => cyc \in 0..(job_r.m + Latency - 1)
  BY JobFacts DEF Control, Latency
<1>2. CASE LoadAddr
  BY <1>1, <1>2 DEF LoadAddr, Elapsed
<1>3. CASE LoadData
  <2>1. /\ job_r' = job_r /\ state = "S_LOAD_DATA"
        /\ \/ li = N - 1 /\ state' = "S_LOAD_PULSE"
           \/ state' = "S_LOAD_ADDR" /\ li' = li + 1
    <3>1. \/ li = N - 1 /\ state' = "S_LOAD_PULSE"
          \/ state' = "S_LOAD_ADDR" /\ li' = li + 1
      BY <1>3, CountersMove
    <3>2. QED
      BY <1>3, <3>1 DEF LoadData
  <2>2. QED
    BY <1>1, <2>1 DEF Elapsed
<1>4. CASE LoadPulse
  BY <1>1, <1>4 DEF LoadPulse, Elapsed
<1>5. CASE Prefetch
  BY <1>1, <1>5 DEF Prefetch, Elapsed
<1>6. CASE Stream
  <2>1. /\ job_r' = job_r /\ state = "S_STREAM"
        /\ \/ cyc = job_r.m + Latency - 1 /\ state' = "S_DONE"
           \/ state' = "S_STREAM" /\ cyc' = cyc + 1
    <3>1. \/ cyc = job_r.m + Latency - 1 /\ state' = "S_DONE"
          \/ state' = "S_STREAM" /\ cyc' = cyc + 1
      BY <1>6, CountersMove
    <3>2. QED
      BY <1>6, <3>1 DEF Stream
  <2>2. QED
    BY <1>1, <2>1 DEF Elapsed
<1>7. CASE Finish
  BY <1>1, <1>7 DEF Finish, Elapsed
<1>8. ~Idle(start, job)
  BY DEF Idle
<1>9. QED
  BY <1>2, <1>3, <1>4, <1>5, <1>6, <1>7, <1>8 DEF FsmEdge

\* Up to 26 rows and columns the program's timeout is long enough.
LEMMA CountedStep ==
    ASSUME N <= 26, TbInv, [TbNext]_allVars
    PROVE  Counted'
<1>1. /\ Control /\ N \in Nat \ {0} /\ job_r \in Jobs /\ job_r.m \in Nat
  BY JobFacts DEF TbInv, StreamInv, Control
<1>2. CASE TbReset
  <2>1. CASE pc \in {"rst1", "rst2"} /\ Reset
    BY <1>2, <2>1 DEF TbReset, Counted, Reset, FsmReset
  <2>2. CASE pc = "settle" /\ pc' = "run_one" /\ \E job \in Jobs : Clock(FALSE, job)
    <3>1. state = "S_IDLE"
      BY <2>2 DEF TbInv, Counted
    <3>2. state' = "S_IDLE"
      BY <2>2, <3>1 DEF Clock, FsmEdge, Idle, LoadAddr, LoadData, LoadPulse, Prefetch,
                        Stream, Finish
    <3>3. QED
      BY <2>2, <3>2 DEF Counted
  <2>3. QED
    BY <1>2, <2>1, <2>2 DEF TbReset
<1>3. CASE StartPulse
  <2>1. PICK job \in Jobs : job.m > 0 /\ Clock(TRUE, job)
    BY <1>3 DEF StartPulse
  <2>2. state = "S_IDLE" /\ pc' = "wait" /\ cycles' = 0
    BY <1>3 DEF StartPulse, TbInv, Counted
  <2>3. state' = "S_LOAD_ADDR" /\ li' = 0 /\ job_r' = job
    BY <2>1, <2>2 DEF Clock, FsmEdge, Idle, LoadAddr, LoadData, LoadPulse, Prefetch,
                      Stream, Finish
  <2>4. Elapsed' = 0
    BY <2>3 DEF Elapsed
  <2>5. QED
    BY <2>1, <2>2, <2>3, <2>4 DEF Counted
<1>4. CASE WaitTick
  <2>1. /\ job_r.m > 0 /\ cycles = Elapsed /\ state # "S_IDLE"
        /\ FsmEdge(FALSE, job_r) /\ cycles' = cycles + 1
        /\ pc' = IF cycles' > timeout THEN "timed_out" ELSE "wait"
    BY <1>4 DEF WaitTick, Clock, TbInv, Counted
  <2>2. Elapsed' = Elapsed + 1 /\ job_r' = job_r /\ (state' = "S_IDLE" => done')
    BY <1>1, <2>1, ElapsedTicks
  <2>3. Elapsed \in Nat /\ Elapsed <= job_r.m + 4 * N + 1
    BY <1>1, <2>1, ElapsedBounded
  <2>4. ~(cycles' > timeout)
    BY <1>1, <2>1, <2>3 DEF timeout
  <2>5. QED
    BY <2>1, <2>2, <2>4 DEF Counted
<1>5. CASE ReadBack
  <2>1. state = "S_IDLE" /\ state' = state /\ pc' = "run_one"
    BY <1>1, <1>5 DEF ReadBack, Control, vars, fsmVars
  <2>2. QED
    BY <2>1 DEF Counted
<1>6. CASE AnyUse
  BY <1>6 DEF AnyUse, Counted
<1>7. CASE UNCHANGED allVars
  BY <1>7 DEF allVars, vars, fsmVars, TbInv, Counted, Elapsed, Latency
<1>8. QED
  BY <1>2, <1>3, <1>4, <1>5, <1>6, <1>7 DEF TbNext

(* Every command of the test program takes exactly the cycles that the     *)
(* comment at tb_stream.cpp:90-92 adds up, after any other commands, and   *)
(* the timeout at tb_stream.cpp:68 is never reached for arrays of up to 26 *)
(* rows; from 27 on one row of A takes longer than the timeout.            *)
THEOREM CyclesAreAsDerived ==
    ASSUME N <= 26
    PROVE  TbSpec => []CyclesAsDerived
<1>1. TbInit => TbInv
  <2>1. TbInit => Init /\ pc \in {"any", "rst1"}
    BY DEF TbInit
  <2>2. QED
    BY <2>1, StreamInitially DEF TbInv, Counted
<1>2. TbInv /\ [TbNext]_allVars => TbInv'
  <2> SUFFICES ASSUME TbInv, [TbNext]_allVars
               PROVE  TbInv'
    OBVIOUS
  <2>1. StreamInv /\ [Next]_vars
    BY ProgramSteps DEF TbInv, StreamInv, allVars
  <2>2. StreamInv'
    BY <2>1, StreamStep
  <2>3. QED
    BY <2>2, CountedStep DEF TbInv
<1>3. TbInv => CyclesAsDerived
  <2> SUFFICES ASSUME TbInv
               PROVE  CyclesAsDerived
    OBVIOUS
  <2>1. /\ N \in Nat \ {0} /\ job_r.m \in Nat /\ Latency = 2 * N - 1
    BY JobFacts DEF TbInv, StreamInv, Control
  <2>2. ASSUME pc = "wait", done
        PROVE  cycles = job_r.m + 4 * N + 2
    <3>1. cycles = Elapsed /\ state = "S_IDLE"
      BY <2>2 DEF TbInv, StreamInv, Control, Counted
    <3>2. QED
      BY <2>1, <3>1 DEF Elapsed
  <2>3. 2 * N - 2 <= N * N
    BY <2>1, Z3
  <2>4. N * N \in Nat
    BY <2>1, Z3
  <2>5. ASSUME pc = "wait", done
        PROVE  cycles <= budget
    BY <2>1, <2>2, <2>3, <2>4, <2>5 DEF budget
  <2>6. QED
    BY <2>1, <2>2, <2>5 DEF CyclesAsDerived, TbInv, Counted
<1>4. QED
  BY <1>1, <1>2, <1>3, PTL DEF TbSpec
===============================================================================
