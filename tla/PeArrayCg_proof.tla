---------------------------- MODULE PeArrayCg_proof ----------------------------
(***************************************************************************)
(* The proofs about the array and the programs that test it, for every     *)
(* size of the array, any activations and weights, and any number of rows. *)
(*                                                                         *)
(* Clock gating changes no result as long as the validity of a row is set  *)
(* while the array is clear and then left alone.  Without that condition   *)
(* the claim is false (Toggle = TRUE), so the assumption is essential.     *)
(*                                                                         *)
(* tb_main and tb_perf: after n ticks row k has reached the PEs (r, c)     *)
(* with k + r + c = n - 1 (Wavefront), which fixes every output taken      *)
(* (Captured) and every multiplication counted (Counting).                 *)
(*                                                                         *)
(* tb_power: the software model is the gated array (LockStep), and the     *)
(* gated array is the plain one (IInv).                                    *)
(***************************************************************************)
EXTENDS TbArray, FunctionTheorems, FiniteSetTheorems, TLAPS

-------------------------------------------------------------------------------
(* Clock gating.                                                           *)

\* A PE that has been valid stays fed by valid neighbours ...
ValidFromLeft == \A r, c \in Lane : valid[r][c] => valid_in(r, c)

\* ... so the plain array holds the gated one's activation, or zero where the
\* gated PE has never been clocked.
ActsAgree == \A r, c \in Lane : ref_act[r][c] = IF valid[r][c] THEN act[r][c] ELSE Zero

IInv == ValidFromLeft /\ ActsAgree /\ GatedEqualsMasked

(* Operand isolation hands every PE exactly what the plain PE gets.        *)
LEMMA IsolationMatches ==
    ASSUME IInv, NEW in, NEW r \in Lane, NEW c \in Lane
    PROVE  act_isolated(in, r, c) = ref_in(in, r, c)
<1>1. CASE c = 0
  BY <1>1 DEF act_isolated, act_in, valid_in, ref_in, Lane
<1>2. CASE c # 0
  <2>1. c - 1 \in Lane /\ c > 0
    BY <1>2, CgAssumption DEF Lane
  <2>2. QED
    BY <1>2, <2>1 DEF act_isolated, act_in, valid_in, ref_in, IInv, ActsAgree
<1>3. QED
  BY <1>1, <1>2

(* One clock edge, with or without a weight load.                          *)
LEMMA EdgeStep ==
    ASSUME IInv, NEW in, GatedEdge(in), PlainEdge(in), row_valid' = row_valid
    PROVE  IInv'
<1>1. psum' = ref_psum'
  <2>1. \A r, c \in Lane : psum_in(r, c) = ref_psum_in(r, c)
    BY DEF IInv, GatedEqualsMasked, psum_in, ref_psum_in
  <2>2. \A r, c \in Lane :
            Mac(psum_in(r, c), r, act_isolated(in, r, c), weight)
                = Mac(ref_psum_in(r, c), r, ref_in(in, r, c), weight)
    BY <2>1, IsolationMatches
  <2>3. QED
    BY <2>2, Zenon DEF GatedEdge, PlainEdge
<1>2. ASSUME NEW r \in Lane, NEW c \in Lane
      PROVE  /\ valid'[r][c] <=> valid_in(r, c)
             /\ valid_in(r, c) => valid_in(r, c)'
             /\ valid_in(r, c) => act'[r][c] = act_in(in, r, c)
             /\ ref_act'[r][c] = act_isolated(in, r, c)
  <2>1. valid'[r][c] = (valid_in(r, c) \/ valid[r][c])
    BY DEF GatedEdge
  <2>2. valid[r][c] => valid_in(r, c)
    BY DEF IInv, ValidFromLeft
  <2>3. valid_in(r, c) => valid_in(r, c)'
    <3>1. CASE c = 0
      BY <3>1 DEF valid_in
    <3>2. CASE c # 0
      <4>1. c - 1 \in Lane
        BY <3>2, CgAssumption DEF Lane
      <4>2. valid'[r][c - 1] = (valid_in(r, c - 1) \/ valid[r][c - 1])
        BY <4>1 DEF GatedEdge
      <4>3. QED
        BY <3>2, <4>2 DEF valid_in
    <3>3. QED
      BY <3>1, <3>2
  <2>4. act'[r][c] = IF valid_in(r, c) THEN act_in(in, r, c) ELSE act[r][c]
    BY DEF GatedEdge
  <2>5. ref_act'[r][c] = ref_in(in, r, c)
    BY DEF PlainEdge
  <2>6. QED
    BY <2>1, <2>2, <2>3, <2>4, <2>5, IsolationMatches
<1>3. ValidFromLeft'
  BY <1>2 DEF ValidFromLeft
<1>4. ActsAgree'
  BY <1>2 DEF ActsAgree, act_isolated
<1>5. QED
  BY <1>1, <1>3, <1>4 DEF IInv, GatedEqualsMasked

(* Gating changes power, not results (the claim of pe_cg.sv:5-7), for      *)
(* every array size, when rows stay valid or idle for a whole run.         *)
THEOREM GatingIsTransparent ==
    ASSUME Toggle = FALSE
    PROVE  Spec => []GatedEqualsMasked
<1>1. Init => IInv
  BY DEF Init, Grid, IInv, ValidFromLeft, ActsAgree, GatedEqualsMasked
<1>2. IInv /\ [Next]_vars => IInv'
  <2> SUFFICES ASSUME IInv, [Next]_vars PROVE IInv'
    OBVIOUS
  <2>1. ASSUME NEW in \in [Lane -> Act], Clock(in) PROVE IInv'
    BY <2>1, EdgeStep DEF Clock, NextValid
  <2>2. ASSUME NEW in \in [Lane -> Act], NEW g \in Gen, Load(in, g) PROVE IInv'
    BY <2>2, EdgeStep DEF Load, NextValid
  <2>3. CASE Reset
    BY <2>3 DEF Reset, Clear, Grid, IInv, ValidFromLeft, ActsAgree, GatedEqualsMasked
  <2>4. CASE UNCHANGED vars
    BY <2>4 DEF vars, IInv, ValidFromLeft, ActsAgree, GatedEqualsMasked, valid_in
  <2>5. QED
    BY <2>1, <2>2, <2>3, <2>4 DEF Next
<1>3. IInv => GatedEqualsMasked
  BY DEF IInv
<1>4. QED
  BY <1>1, <1>2, <1>3, PTL DEF Spec

-------------------------------------------------------------------------------
(* The test programs that stream a matrix: tb_main and tb_perf.            *)

Streams == bench \in {"main", "perf", "perf_reload"}

\* Each program stays among its own ticks.
OwnTicks ==
    \/ Streams /\ pc \in {"reset", "load", "stream", "verify"}
    \/ bench = "power" /\ pc \in {"power_reset", "power_load", "power_run"}
    \/ bench = "sva" /\ pc \in {"sva_reset", "sva_run"}

\* Row k of the activations, padding before the first row and after the last.
Row(k) == IF k \in 0..(M - 1) THEN <<k>> ELSE Zero

\* What row k has gathered on its way down to array row r.
Gathered(k, r) == IF k \in 0..(M - 1) THEN [j \in 1..(r + 1) |-> <<j - 1, <<k>>, gen>>] ELSE <<>>

\* After n ticks row k has reached the PEs (r, c) with k + r + c = n - 1.
Wavefront ==
    \A r, c \in Lane : /\ ref_act[r][c] = Row(n - 1 - r - c)
                       /\ ref_psum[r][c] = Gathered(n - 1 - r - c, r)

LEMMA GatheredStep ==
    ASSUME NEW k \in 0..(M - 1), NEW r \in Nat
    PROVE  Append([j \in 1..r |-> <<j - 1, <<k>>, gen>>], <<r, <<k>>, gen>>)
              = [j \in 1..(r + 1) |-> <<j - 1, <<k>>, gen>>]
OBVIOUS

LEMMA WavefrontStep ==
    ASSUME M \in Nat, n \in Nat, gen # Zero, weight = gen, row_valid = AllValid,
           Wavefront, PlainEdge(set_act(n)), n' = n + 1, M' = M, gen' = gen
    PROVE  Wavefront'
<1>1. ASSUME NEW r \in Lane, NEW c \in Lane
      PROVE  /\ ref_act'[r][c] = Row(n' - 1 - r - c)
             /\ ref_psum'[r][c] = Gathered(n' - 1 - r - c, r)
  <2> DEFINE k == n - r - c
  <2>1. /\ N \in Nat /\ r \in Nat /\ c \in Nat /\ r < N /\ c < N
        /\ n' - 1 - r - c = k /\ k \in Int
    BY <1>1, CgAssumption DEF Lane
  <2>2. ref_in(set_act(n), r, c) = Row(k)
    <3>1. CASE c = 0
      <4>1. ref_in(set_act(n), r, c) = set_act(n)[r]
        BY <3>1 DEF ref_in, AllValid
      <4>2. n - r = k
        BY <2>1, <3>1
      <4>3. QED
        BY <4>1, <4>2 DEF set_act, Row
    <3>2. CASE c > 0
      <4>1. c - 1 \in Lane /\ n - 1 - r - (c - 1) = k
        BY <2>1, <3>2 DEF Lane
      <4>2. ref_in(set_act(n), r, c) = ref_act[r][c - 1]
        BY <3>2 DEF ref_in
      <4>3. QED
        BY <4>1, <4>2 DEF Wavefront
    <3>3. QED
      BY <2>1, <3>1, <3>2
  <2>3. ref_act'[r][c] = Row(k)
    BY <2>2 DEF PlainEdge
  <2>4. ref_psum'[r][c] = Mac(ref_psum_in(r, c), r, Row(k), gen)
    BY <2>2 DEF PlainEdge
  <2>5. ref_psum_in(r, c) = IF k \in 0..(M - 1) THEN [j \in 1..r |-> <<j - 1, <<k>>, gen>>]
                                                ELSE <<>>
    <3>1. CASE r = 0
      <4>1. [j \in 1..r |-> <<j - 1, <<k>>, gen>>] = <<>>
        BY <3>1
      <4>2. QED
        BY <3>1, <4>1 DEF ref_psum_in
    <3>2. CASE r # 0
      <4>1. r - 1 \in Lane /\ n - 1 - (r - 1) - c = k /\ (r - 1) + 1 = r
        BY <2>1, <3>2 DEF Lane
      <4>2. ref_psum_in(r, c) = Gathered(k, r - 1)
        BY <3>2, <4>1 DEF ref_psum_in, Wavefront
      <4>3. QED
        BY <4>1, <4>2 DEF Gathered
    <3>3. QED
      BY <3>1, <3>2
  <2>6. Mac(ref_psum_in(r, c), r, Row(k), gen) = Gathered(k, r)
    <3> HIDE DEF k
    <3>1. CASE k \in 0..(M - 1)
      <4>1. Row(k) = <<k>> /\ <<k>> # Zero
        BY <3>1 DEF Row, Zero
      <4>2. Mac(ref_psum_in(r, c), r, Row(k), gen)
                = Append([j \in 1..r |-> <<j - 1, <<k>>, gen>>], <<r, <<k>>, gen>>)
        BY <2>5, <3>1, <4>1 DEF Mac
      <4>3. QED
        BY <2>1, <3>1, <4>2, GatheredStep DEF Gathered
    <3>2. CASE k \notin 0..(M - 1)
      BY <2>5, <3>2 DEF Mac, Row, Gathered
    <3>3. QED
      BY <3>1, <3>2
  <2>7. QED
    BY <2>1, <2>3, <2>4, <2>6
<1>2. QED
  BY <1>1 DEF Wavefront, Row, Gathered

\* A case has rows and weights, and all rows of the array are valid.
Ready == M \in 1..MaxM /\ row_valid = AllValid /\ gen # Zero

\* Where a case is: loading, after n of its ticks, or at its end.
Schedule ==
    /\ pc = "load" => n = 0 /\ ref_act = Grid(Zero) /\ ref_psum = Grid(<<>>)
    /\ pc = "stream" => n \in 0..(total_ticks - 1)
    /\ pc = "verify" => n = total_ticks
    /\ pc \in {"stream", "verify"} => weight = gen /\ Wavefront

\* What column c shows after tick i: row i - N - c, or nothing.
Output(i) == [c \in Lane |-> Gathered(i - N - c, N - 1)]

\* The outputs taken so far: tb_main has all, tb_perf those of whole rows.
Captured ==
    pc # "reset" =>
        /\ bench = "main" =>
               psum_hist = [i \in 1..n |-> Output(i)]
        /\ bench # "main" =>
               got = [m \in 0..(M - 1) |-> [c \in Lane |->
                         IF m + N + c <= n THEN golden(m) ELSE Unset]]

\* The multiplications of tick t, as PEs, and of the first k ticks.
Macs(t) == {p \in Lane \X Lane : t - p[2] - p[1] - 1 \in 0..(M - 1)}
AllMacs(k) == {q \in (Lane \X Lane) \X (1..k) : q[1] \in Macs(q[2])}

\* The counters of tb_perf count the ticks and the multiplications.
Counting ==
    pc # "reset" /\ bench # "main" =>
        /\ perf.cycles = n + (IF bench = "perf_reload" /\ pc # "load" THEN 1 ELSE 0)
        /\ perf.valid_pe_sum = Cardinality(AllMacs(n))

CaseInv == Streams => Ready /\ Schedule /\ Captured /\ Counting

LEMMA OwnTicksStep ==
    ASSUME OwnTicks, [TbNext]_allVars PROVE OwnTicks'
BY DEF OwnTicks, Streams, TbNext, allVars, tbVars, progVars, ResetTick, LoadTick, StreamTick,
       MainSample, PerfSample, NextCase, PowerReset, PowerLoad, PowerRun, SvaReset, SvaRun

LEMMA ReadyStep ==
    ASSUME OwnTicks, Streams, Ready, [TbNext]_allVars PROVE Ready'
<1>1. CASE ResetTick \/ LoadTick \/ StreamTick \/ UNCHANGED allVars
  BY <1>1 DEF Ready, AllValid, ResetTick, LoadTick, StreamTick, allVars, tbVars, progVars, vars
<1>2. CASE NextCase
  <2>1. gen' # Zero
    BY <1>2 DEF NextCase, Zero
  <2>2. QED
    BY <1>2, <2>1 DEF Ready, AllValid, NextCase, vars
<1>3. QED
  BY <1>1, <1>2 DEF OwnTicks, Streams, TbNext, PowerReset, PowerLoad, PowerRun, SvaReset, SvaRun

LEMMA LanesFinite ==
    ASSUME N \in Nat
    PROVE  /\ IsFiniteSet(Lane \X Lane) /\ Cardinality(Lane \X Lane) = N * N
           /\ \A k \in Nat : IsFiniteSet((Lane \X Lane) \X (1..k))
<1>1. N - 1 \in Int /\ (IF 0 > N - 1 THEN 0 ELSE (N - 1) - 0 + 1) = N
  OBVIOUS
<1>2. IsFiniteSet(Lane) /\ Cardinality(Lane) = N
  BY <1>1, FS_Interval DEF Lane
<1>3. IsFiniteSet(Lane \X Lane) /\ Cardinality(Lane \X Lane) = N * N
  BY <1>2, FS_Product
<1>4. ASSUME NEW k \in Nat PROVE IsFiniteSet((Lane \X Lane) \X (1..k))
  <2>1. IsFiniteSet(1..k)
    BY FS_Interval
  <2>2. QED
    BY <1>3, <2>1, FS_Product
<1>5. QED
  BY <1>3, <1>4

LEMMA MacsOfTick ==
    ASSUME NEW k \in Nat, N \in Nat
    PROVE  /\ IsFiniteSet(AllMacs(k)) /\ Cardinality(AllMacs(k)) \in Nat
           /\ Cardinality(AllMacs(k + 1)) = Cardinality(AllMacs(k)) + valid_pes(k + 1)
<1> DEFINE new == Macs(k + 1) \X {k + 1}
<1>1. \A t : Macs(t) \in SUBSET (Lane \X Lane)
  BY DEF Macs
<1>2. IsFiniteSet(Macs(k + 1)) /\ Cardinality(Macs(k + 1)) = valid_pes(k + 1)
  <2>1. IsFiniteSet(Macs(k + 1))
    BY <1>1, LanesFinite, FS_Subset
  <2>2. QED
    BY <2>1 DEF valid_pes, Macs
<1>3. IsFiniteSet({k + 1}) /\ Cardinality({k + 1}) = 1
  BY FS_Singleton
<1>4. valid_pes(k + 1) \in Nat
  BY <1>2, FS_CardinalityType
<1>5. IsFiniteSet(new) /\ Cardinality(new) = valid_pes(k + 1)
  <2>1. IsFiniteSet(new) /\ Cardinality(new) = valid_pes(k + 1) * 1
    BY <1>2, <1>3, FS_Product
  <2>2. QED
    BY <1>4, <2>1
<1>6. IsFiniteSet(AllMacs(k)) /\ Cardinality(AllMacs(k)) \in Nat
  <2>1. AllMacs(k) \in SUBSET ((Lane \X Lane) \X (1..k))
    BY DEF AllMacs
  <2>2. IsFiniteSet(AllMacs(k))
    BY <2>1, LanesFinite, FS_Subset
  <2>3. QED
    BY <2>2, FS_CardinalityType
<1>7. AllMacs(k + 1) = AllMacs(k) \cup new
  <2>1. 1..(k + 1) = (1..k) \cup {k + 1}
    OBVIOUS
  <2>2. QED
    BY <1>1, <2>1, Zenon DEF AllMacs
<1>8. AllMacs(k) \cap new = {}
  <2>1. k + 1 \notin 1..k
    OBVIOUS
  <2>2. \A q \in AllMacs(k) : q[2] \in 1..k
    BY DEF AllMacs
  <2>3. \A q \in new : q[2] = k + 1
    OBVIOUS
  <2>4. QED
    BY <2>1, <2>2, <2>3
<1>9. Cardinality({}) = 0
  BY FS_EmptySet
<1> HIDE DEF new
<1>10. Cardinality(AllMacs(k + 1)) = Cardinality(AllMacs(k)) + Cardinality(new) - 0
  BY <1>5, <1>6, <1>7, <1>8, <1>9, FS_Union
<1>11. QED
  BY <1>4, <1>5, <1>6, <1>10

\* The ticks of the programs that stream a matrix, with the values of a case.
StreamsOnly ==
    \/ ResetTick \/ LoadTick \/ StreamTick \/ NextCase \/ UNCHANGED allVars

LEMMA StreamsStep ==
    ASSUME OwnTicks, Streams, [TbNext]_allVars PROVE StreamsOnly /\ Streams'
<1>1. StreamsOnly
  BY DEF OwnTicks, Streams, StreamsOnly, TbNext, PowerReset, PowerLoad, PowerRun, SvaReset, SvaRun
<1>2. Streams'
  BY <1>1 DEF StreamsOnly, Streams, ResetTick, LoadTick, StreamTick, NextCase,
              allVars, tbVars, progVars
<1>3. QED
  BY <1>1, <1>2

LEMMA ScheduleStep ==
    ASSUME Ready, Schedule, StreamsOnly PROVE Schedule'
<1>0. /\ N \in Nat \ {0} /\ M \in Nat \ {0} /\ total_ticks \in Nat \ {0}
  BY CgAssumption, TbAssumption DEF Ready, total_ticks
<1>1. CASE ResetTick
  BY <1>1 DEF ResetTick, Clear, Schedule, Grid
<1>2. CASE LoadTick
  <2>1. /\ pc' = "stream" /\ n = 0 /\ n' = 0 /\ M' = M /\ gen' = gen /\ weight' = gen
        /\ ref_act = Grid(Zero) /\ ref_psum = Grid(<<>>) /\ PlainEdge(ZeroActs)
    BY <1>2 DEF LoadTick, Schedule, Edge
  <2>2. ASSUME NEW r \in Lane, NEW c \in Lane
        PROVE  ref_act'[r][c] = Zero /\ ref_psum'[r][c] = <<>>
    <3>1. ref_in(ZeroActs, r, c) = Zero
      <4>1. c > 0 => c - 1 \in Lane
        BY <1>0 DEF Lane
      <4>2. QED
        BY <2>1, <4>1 DEF ref_in, ZeroActs, Grid
    <3>2. ref_psum_in(r, c) = <<>>
      <4>1. r # 0 => r - 1 \in Lane
        BY <1>0 DEF Lane
      <4>2. QED
        BY <2>1, <4>1 DEF ref_psum_in, Grid
    <3>3. QED
      BY <2>1, <3>1, <3>2 DEF PlainEdge, Mac
  <2>3. ASSUME NEW r \in Lane, NEW c \in Lane
        PROVE  Row(0 - 1 - r - c) = Zero /\ Gathered(0 - 1 - r - c, r) = <<>>
    <3>1. 0 - 1 - r - c \notin 0..(M - 1)
      BY <1>0 DEF Lane
    <3>2. QED
      BY <3>1 DEF Row, Gathered
  <2>4. Wavefront'
    BY <2>1, <2>2, <2>3 DEF Wavefront, Row, Gathered
  <2>5. n' \in 0..(total_ticks' - 1)
    BY <1>0, <2>1 DEF total_ticks
  <2>6. QED
    BY <2>1, <2>4, <2>5 DEF Schedule
<1>3. CASE StreamTick
  <2>1. /\ pc = "stream" /\ pc' = (IF n + 1 < total_ticks THEN "stream" ELSE "verify")
        /\ n' = n + 1 /\ M' = M /\ gen' = gen /\ weight' = weight
        /\ PlainEdge(set_act(n)) /\ total_ticks' = total_ticks
    BY <1>3 DEF StreamTick, Edge, total_ticks
  <2>2. n \in 0..(total_ticks - 1) /\ weight = gen /\ Wavefront
    BY <2>1 DEF Schedule
  <2>3. Wavefront'
    BY <1>0, <2>1, <2>2, WavefrontStep DEF Ready
  <2>4. /\ pc' = "stream" => n' \in 0..(total_ticks - 1)
        /\ pc' = "verify" => n' = total_ticks
        /\ pc' # "load"
    BY <1>0, <2>1, <2>2
  <2>5. QED
    BY <2>1, <2>2, <2>3, <2>4 DEF Schedule
<1>4. CASE NextCase
  BY <1>4 DEF NextCase, Schedule
<1>5. CASE UNCHANGED allVars
  BY <1>5 DEF allVars, tbVars, progVars, vars, Schedule, Wavefront, Row, Gathered, total_ticks
<1>6. QED
  BY <1>1, <1>2, <1>3, <1>4, <1>5 DEF StreamsOnly

\* What has reached the bottom row when a tick ends.
LEMMA BottomRow ==
    ASSUME Wavefront, N \in Nat \ {0}, n \in Int, NEW c \in Lane
    PROVE  psum_out(c) = Gathered(n - N - c, N - 1)
<1>1. N - 1 \in Lane /\ c \in Int /\ n - 1 - (N - 1) - c = n - N - c
  BY DEF Lane
<1>2. QED
  BY <1>1 DEF Wavefront, psum_out

LEMMA CapturedStep ==
    ASSUME Ready, Schedule, Captured, StreamsOnly, Schedule' PROVE Captured'
<1>0. N \in Nat \ {0} /\ M \in Nat \ {0}
  BY CgAssumption, TbAssumption DEF Ready
<1>1. CASE ResetTick
  <2>1. n' = 0 /\ M' = M /\ bench' = bench /\ psum_hist' = <<>>
        /\ got' = [m \in 0..(M - 1) |-> [c \in Lane |-> Unset]]
    BY <1>1 DEF ResetTick
  <2>2. [i \in 1..n' |-> Output(i)'] = <<>>
    BY <2>1
  <2>3. \A m \in 0..(M - 1), c \in Lane : ~ (m + N + c <= n')
    BY <1>0, <2>1 DEF Lane
  <2>4. got' = [m \in 0..(M' - 1) |-> [c \in Lane |->
                   IF m + N + c <= n' THEN golden(m)' ELSE Unset]]
    BY <2>1, <2>3
  <2>5. QED
    BY <2>1, <2>2, <2>4 DEF Captured
<1>2. CASE LoadTick
  BY <1>2 DEF LoadTick, Captured, Output, Gathered, golden
<1>3. CASE StreamTick
  <2>1. /\ pc = "stream" /\ n' = n + 1 /\ M' = M /\ gen' = gen /\ bench' = bench
        /\ pc' \in {"stream", "verify"}
        /\ bench = "main" => psum_hist' = Append(psum_hist, [c \in Lane |-> psum_out(c)'])
        /\ bench # "main" => got' = [m \in DOMAIN got |-> [c \in Lane |->
                                IF m = n + 1 - N - c THEN psum_out(c)' ELSE got[m][c]]]
    BY <1>3 DEF StreamTick, MainSample, PerfSample
  <2>2. n \in Nat
    BY <2>1 DEF Schedule
  <2>3. \A i : Output(i)' = Output(i)
    BY <2>1 DEF Output, Gathered
  <2>4. ASSUME NEW c \in Lane PROVE ref_psum'[N - 1][c] = Gathered((n + 1) - N - c, N - 1)
    <3>1. \A r, d \in Lane : ref_psum'[r][d] = Gathered(n' - 1 - r - d, r)
      BY <2>1 DEF Schedule, Wavefront, Gathered
    <3>2. N - 1 \in Lane /\ c \in Int /\ n' - 1 - (N - 1) - c = (n + 1) - N - c
      BY <1>0, <2>1, <2>2 DEF Lane
    <3>3. QED
      BY <3>1, <3>2
  <2>5. ASSUME bench = "main" PROVE psum_hist' = [i \in 1..n' |-> Output(i)']
    <3>1. [c \in Lane |-> psum_out(c)'] = Output(n + 1)
      BY <2>4 DEF Output, psum_out
    <3>2. psum_hist = [i \in 1..n |-> Output(i)]
      BY <2>1, <2>5 DEF Captured
    <3>3. Append([i \in 1..n |-> Output(i)], Output(n + 1)) = [i \in 1..(n + 1) |-> Output(i)]
      BY <2>2
    <3>4. QED
      BY <2>1, <2>3, <2>5, <3>1, <3>2, <3>3
  <2>6. ASSUME bench # "main"
        PROVE  got' = [m \in 0..(M' - 1) |-> [c \in Lane |->
                          IF m + N + c <= n' THEN golden(m)' ELSE Unset]]
    <3>1. got = [m \in 0..(M - 1) |-> [c \in Lane |->
                    IF m + N + c <= n THEN golden(m) ELSE Unset]]
      BY <2>1, <2>6 DEF Captured
    <3>2. \A m : golden(m)' = golden(m)
      BY <2>1 DEF golden
    <3>3. ASSUME NEW m \in 0..(M - 1), NEW c \in Lane
          PROVE  (IF m = n + 1 - N - c THEN psum_out(c)' ELSE got[m][c])
                    = IF m + N + c <= n + 1 THEN golden(m) ELSE Unset
      <4>1. m \in Int /\ c \in Int
        BY DEF Lane
      <4>2. m = n + 1 - N - c <=> m + N + c = n + 1
        BY <1>0, <2>2, <4>1
      <4>3. CASE m = n + 1 - N - c
        <5>1. (N - 1) + 1 = N /\ (n + 1) - N - c = m
          BY <1>0, <2>2, <4>1, <4>3
        <5>2. psum_out(c)' = golden(m)
          BY <2>4, <4>3, <5>1 DEF Gathered, golden, psum_out
        <5>3. QED
          BY <1>0, <2>2, <4>1, <4>2, <4>3, <5>2
      <4>4. CASE m # n + 1 - N - c
        <5>1. m + N + c <= n + 1 <=> m + N + c <= n
          BY <1>0, <2>2, <4>1, <4>2, <4>4
        <5>2. QED
          BY <3>1, <4>4, <5>1
      <4>5. QED
        BY <4>3, <4>4
    <3>4. got' = [m \in 0..(M - 1) |-> [c \in Lane |->
                     IF m = n + 1 - N - c THEN psum_out(c)' ELSE got[m][c]]]
      BY <2>1, <2>6, <3>1
    <3>5. QED
      BY <2>1, <3>2, <3>3, <3>4
  <2>7. QED
    BY <2>1, <2>5, <2>6 DEF Captured
<1>4. CASE NextCase
  BY <1>4 DEF NextCase, Captured
<1>5. CASE UNCHANGED allVars
  BY <1>5 DEF allVars, tbVars, progVars, vars, Captured, Output, Gathered, golden
<1>6. QED
  BY <1>1, <1>2, <1>3, <1>4, <1>5 DEF StreamsOnly

LEMMA CountingStep ==
    ASSUME Ready, Schedule, Counting, StreamsOnly, Streams PROVE Counting'
<1>0. N \in Nat
  BY CgAssumption
<1>1. CASE ResetTick
  <2>1. /\ n' = 0 /\ M' = M /\ bench' = bench /\ pc' = "load"
        /\ perf' = [cycles |-> 0, valid_pe_sum |-> 0]
    BY <1>1 DEF ResetTick, begin_op
  <2>2. AllMacs(n)' = {}
    BY <2>1 DEF AllMacs
  <2>3. Cardinality({}) = 0
    BY FS_EmptySet
  <2>4. QED
    BY <2>1, <2>2, <2>3 DEF Counting
<1>2. CASE LoadTick
  <2>1. /\ pc = "load" /\ pc' = "stream" /\ n' = n /\ n = 0 /\ M' = M /\ bench' = bench
        /\ IF bench = "perf_reload" THEN perf_tick(0) ELSE perf' = perf
    BY <1>2 DEF LoadTick, Schedule
  <2>2. AllMacs(n)' = AllMacs(n)
    BY <2>1 DEF AllMacs, Macs
  <2>3. Cardinality(AllMacs(n)) \in Nat
    BY <1>0, <2>1, MacsOfTick
  <2>4. QED
    BY <2>1, <2>2, <2>3 DEF Counting, perf_tick
<1>3. CASE StreamTick
  <2>1. /\ pc = "stream" /\ pc' \in {"stream", "verify"} /\ n' = n + 1 /\ n \in Nat
        /\ M' = M /\ bench' = bench
        /\ bench # "main" => perf_tick(valid_pes(n + 1))
    BY <1>3 DEF StreamTick, PerfSample, Schedule
  <2>2. AllMacs(n)' = AllMacs(n + 1)
    BY <2>1 DEF AllMacs, Macs
  <2>3. /\ Cardinality(AllMacs(n)) \in Nat
        /\ Cardinality(AllMacs(n + 1)) = Cardinality(AllMacs(n)) + valid_pes(n + 1)
    BY <1>0, <2>1, MacsOfTick
  <2>4. ASSUME bench # "main"
        PROVE  /\ perf'.cycles = n' + (IF bench' = "perf_reload" THEN 1 ELSE 0)
               /\ perf'.valid_pe_sum = Cardinality(AllMacs(n + 1))
    <3>1. /\ perf.cycles = n + (IF bench = "perf_reload" THEN 1 ELSE 0)
          /\ perf.valid_pe_sum = Cardinality(AllMacs(n))
      BY <2>1, <2>4 DEF Counting
    <3>2. /\ perf'.cycles = perf.cycles + 1
          /\ perf'.valid_pe_sum = perf.valid_pe_sum + valid_pes(n + 1)
      BY <2>1, <2>4 DEF perf_tick
    <3>3. perf'.valid_pe_sum = Cardinality(AllMacs(n + 1))
      BY <2>3, <3>1, <3>2
    <3>4. perf'.cycles = n' + (IF bench' = "perf_reload" THEN 1 ELSE 0)
      BY <2>1, <3>1, <3>2
    <3>5. QED
      BY <3>3, <3>4
  <2>5. QED
    BY <2>1, <2>2, <2>4 DEF Counting
<1>4. CASE NextCase
  BY <1>4 DEF NextCase, Counting
<1>5. CASE UNCHANGED allVars
  BY <1>5 DEF allVars, tbVars, progVars, vars, Counting, AllMacs, Macs
<1>6. QED
  BY <1>1, <1>2, <1>3, <1>4, <1>5 DEF StreamsOnly

(* Where every test program is, and what a streaming one has computed.     *)
LEMMA CaseInvariance == TbSpec => [](OwnTicks /\ CaseInv)
<1>1. TbInit => OwnTicks /\ CaseInv
  <2> SUFFICES ASSUME TbInit PROVE OwnTicks /\ CaseInv
    OBVIOUS
  <2>1. OwnTicks
    BY DEF TbInit, FirstPc, OwnTicks, Streams
  <2>2. Streams => pc = "reset" /\ Ready
    BY DEF TbInit, FirstPc, Streams, Ready, Zero
  <2>3. QED
    BY <2>1, <2>2 DEF CaseInv, Schedule, Captured, Counting
<1>2. OwnTicks /\ CaseInv /\ [TbNext]_allVars => (OwnTicks /\ CaseInv)'
  <2> SUFFICES ASSUME OwnTicks, CaseInv, [TbNext]_allVars PROVE (OwnTicks /\ CaseInv)'
    OBVIOUS
  <2>1. OwnTicks'
    BY OwnTicksStep
  <2>2. CASE ~ Streams
    <3>1. ~ Streams'
      BY <2>2 DEF OwnTicks, Streams, TbNext, allVars, tbVars, progVars, ResetTick, LoadTick,
                  StreamTick, NextCase, PowerReset, PowerLoad, PowerRun, SvaReset, SvaRun
    <3>2. QED
      BY <2>1, <3>1 DEF CaseInv
  <2>3. CASE Streams
    <3>1. StreamsOnly /\ Streams' /\ Ready /\ Schedule /\ Captured /\ Counting
      BY <2>3, StreamsStep DEF CaseInv
    <3>2. Ready' /\ Schedule' /\ Counting'
      BY <2>3, <3>1, ReadyStep, ScheduleStep, CountingStep
    <3>3. Captured'
      BY <3>1, <3>2, CapturedStep
    <3>4. QED
      BY <2>1, <3>2, <3>3 DEF CaseInv
  <2>4. QED
    BY <2>2, <2>3
<1>3. QED
  BY <1>1, <1>2, PTL DEF TbSpec

(* The schedule in the headers of tb_main.cpp and tb_perf.cpp, for every   *)
(* array size, any number of rows and any cases run before this one.       *)
THEOREM RowsAreCaptured == TbSpec => []EveryRowCaptured
<1>1. OwnTicks /\ CaseInv => EveryRowCaptured
  <2> SUFFICES ASSUME OwnTicks, CaseInv, pc = "verify", NEW k \in 0..(M - 1), NEW c \in Lane
               PROVE  IF bench = "main" THEN psum_hist[k + c + N][c] = golden(k)
                                        ELSE got[k][c] = golden(k)
    BY DEF EveryRowCaptured
  <2>1. Ready /\ n = M + 2 * N - 2 /\ Captured
    BY DEF OwnTicks, CaseInv, Schedule, total_ticks
  <2>2. /\ N \in Nat \ {0} /\ M \in Nat /\ c \in Nat /\ k \in Nat /\ k <= M - 1 /\ c <= N - 1
    BY <2>1, CgAssumption, TbAssumption DEF Ready, Lane
  <2>3. k + c + N \in 1..n /\ (k + c + N) - N - c = k /\ (N - 1) + 1 = N /\ k + N + c <= n
    BY <2>1, <2>2
  <2>4. CASE bench = "main"
    <3>1. psum_hist[k + c + N] = Output(k + c + N)
      BY <2>1, <2>3, <2>4 DEF Captured
    <3>2. Output(k + c + N)[c] = golden(k)
      BY <2>3 DEF Output, Gathered, golden
    <3>3. QED
      BY <2>4, <3>1, <3>2
  <2>5. CASE bench # "main"
    BY <2>1, <2>3, <2>5 DEF Captured
  <2>6. QED
    BY <2>4, <2>5
<1>2. QED
  BY <1>1, CaseInvariance, PTL

\* Every row meets every PE once, in a tick of the operation.
LEMMA MacsOfCase ==
    ASSUME Ready PROVE Cardinality(AllMacs(total_ticks)) = ideal_macs
<1>0. N \in Nat \ {0} /\ M \in Nat \ {0}
  BY CgAssumption, TbAssumption DEF Ready
<1> DEFINE S == (Lane \X Lane) \X (0..(M - 1))
           T == AllMacs(total_ticks)
           f == [s \in S |-> <<s[1], s[2] + s[1][1] + s[1][2] + 1>>]
<1>1. ASSUME NEW s \in S
      PROVE  f[s] \in T /\ f[s] = <<s[1], s[2] + s[1][1] + s[1][2] + 1>>
  <2>1. PICK r \in Lane, c \in Lane, m \in 0..(M - 1) : s = <<<<r, c>>, m>>
    OBVIOUS
  <2>2. /\ f[s] = <<s[1], s[2] + s[1][1] + s[1][2] + 1>>
        /\ f[s] = <<<<r, c>>, m + r + c + 1>>
    BY <2>1
  <2>3. /\ m + r + c + 1 \in 1..total_ticks
        /\ (m + r + c + 1) - c - r - 1 = m
    BY <1>0 DEF Lane, total_ticks
  <2>4. <<r, c>> \in Macs(m + r + c + 1)
    BY <2>3 DEF Macs
  <2>5. QED
    BY <2>2, <2>3, <2>4 DEF AllMacs
<1>2. f \in [S -> T]
  <2> HIDE DEF T
  <2>1. QED
    BY <1>1
<1>3. ASSUME NEW s \in S, NEW t \in S, f[s] = f[t] PROVE s = t
  <2>1. PICK r \in Lane, c \in Lane, m \in 0..(M - 1) : s = <<<<r, c>>, m>>
    OBVIOUS
  <2>2. PICK r2 \in Lane, c2 \in Lane, m2 \in 0..(M - 1) : t = <<<<r2, c2>>, m2>>
    OBVIOUS
  <2>3. <<<<r, c>>, m + r + c + 1>> = <<<<r2, c2>>, m2 + r2 + c2 + 1>>
    BY <1>1, <1>3, <2>1, <2>2
  <2>4. r = r2 /\ c = c2 /\ m + r + c + 1 = m2 + r2 + c2 + 1
    BY <2>3
  <2>5. m = m2
    BY <1>0, <2>4 DEF Lane
  <2>6. QED
    BY <2>1, <2>2, <2>4, <2>5
<1>4. ASSUME NEW t \in T PROVE \E s \in S : f[s] = t
  <2>1. PICK r \in Lane, c \in Lane, k \in 1..total_ticks :
            t = <<<<r, c>>, k>> /\ <<r, c>> \in Macs(k)
    BY DEF AllMacs
  <2>2. k - c - r - 1 \in 0..(M - 1) /\ (k - c - r - 1) + r + c + 1 = k
    BY <1>0, <2>1 DEF Macs, Lane
  <2>3. <<<<r, c>>, k - c - r - 1>> \in S
    BY <2>2
  <2>4. f[<<<<r, c>>, k - c - r - 1>>] = t
    BY <1>1, <2>1, <2>2, <2>3
  <2>5. QED
    BY <2>3, <2>4
<1>5. IsFiniteSet(S) /\ Cardinality(S) = (N * N) * M
  <2>1. IsFiniteSet(Lane \X Lane) /\ Cardinality(Lane \X Lane) = N * N
    BY <1>0, LanesFinite
  <2>2. M - 1 \in Int /\ (IF 0 > M - 1 THEN 0 ELSE (M - 1) - 0 + 1) = M
    BY <1>0
  <2>3. IsFiniteSet(0..(M - 1)) /\ Cardinality(0..(M - 1)) = M
    BY <2>2, FS_Interval
  <2>4. /\ IsFiniteSet((Lane \X Lane) \X (0..(M - 1)))
        /\ Cardinality((Lane \X Lane) \X (0..(M - 1)))
               = Cardinality(Lane \X Lane) * Cardinality(0..(M - 1))
    BY <2>1, <2>3, FS_Product, Zenon
  <2>5. QED
    BY <2>1, <2>3, <2>4
<1> HIDE DEF S, T, f
<1>6. ExistsBijection(S, T)
  <2>1. f \in Bijection(S, T)
    BY <1>2, <1>3, <1>4, Fun_IsBij
  <2>2. QED
    BY <2>1 DEF ExistsBijection
<1>7. Cardinality(T) = (N * N) * M
  BY <1>5, <1>6, FS_Bijection
<1>8. (N * N) * M = M * N * N
  BY <1>0
<1>9. QED
  BY <1>7, <1>8 DEF T, ideal_macs

(* The performance counters, for every array size and number of rows: what *)
(* valid_pes counts is what the array does, and it adds up to M * N * N.   *)
THEOREM CountersCountMacs == TbSpec => []PerfCountsMacs
<1>1. OwnTicks /\ CaseInv => PerfCountsMacs
  <2> SUFFICES ASSUME OwnTicks, CaseInv, bench \in {"perf", "perf_reload"}
               PROVE  PerfCountsMacs
    BY DEF PerfCountsMacs
  <2>1. Ready /\ Schedule /\ Counting /\ N \in Nat \ {0}
    BY CgAssumption DEF CaseInv, Streams
  <2>2. ASSUME pc \in {"stream", "verify"}
        PROVE  valid_pes(n) = Cardinality({p \in Lane \X Lane : ref_act[p[1]][p[2]] # Zero})
    <3>1. n \in Int /\ Wavefront
      BY <2>1, <2>2, TbAssumption DEF Schedule, Ready, total_ticks
    <3>2. ASSUME NEW p \in Lane \X Lane
          PROVE  n - p[2] - p[1] - 1 \in 0..(M - 1) <=> ref_act[p[1]][p[2]] # Zero
      <4>1. p[1] \in Lane /\ p[2] \in Lane /\ n - 1 - p[1] - p[2] = n - p[2] - p[1] - 1
        BY <2>1, <3>1 DEF Lane
      <4>2. ref_act[p[1]][p[2]] = Row(n - p[2] - p[1] - 1)
        BY <3>1, <4>1 DEF Wavefront
      <4>3. QED
        BY <4>2 DEF Row, Zero
    <3>3. {p \in Lane \X Lane : n - p[2] - p[1] - 1 \in 0..(M - 1)}
              = {p \in Lane \X Lane : ref_act[p[1]][p[2]] # Zero}
      BY <3>2
    <3>4. QED
      BY <3>3 DEF valid_pes
  <2>3. ASSUME pc = "verify"
        PROVE  /\ perf.valid_pe_sum = ideal_macs
               /\ perf.cycles = M + 2 * N - 2 + (IF bench = "perf_reload" THEN 1 ELSE 0)
    BY <2>1, <2>3, MacsOfCase DEF Schedule, Counting, total_ticks
  <2>4. QED
    BY <2>2, <2>3 DEF PerfCountsMacs
<1>2. QED
  BY <1>1, CaseInvariance, PTL

-------------------------------------------------------------------------------
(* tb_power: the software model of the gated array in lock step with it.   *)

\* All registers are clear and no row is valid; the model is new.
Cleared ==
    /\ weight = Zero /\ row_valid = RowsValid(0)
    /\ act = Grid(Zero) /\ valid = Grid(FALSE) /\ psum = Grid(<<>>)
    /\ ref_act = Grid(Zero) /\ ref_psum = Grid(<<>>)
    /\ soft = NewSoft

\* The model holds what the gated array holds.
LockStep ==
    /\ weight = gen
    /\ soft = [act |-> act, valid |-> valid, psum |-> psum]

PowerInv ==
    bench = "power" => /\ pc \in {"power_reset", "power_load"} => Cleared
                       /\ pc = "power_run" => LockStep /\ IInv

LEMMA ClearedLoad ==
    ASSUME Cleared, Edge(ZeroActs)
    PROVE  /\ act' = Grid(Zero) /\ valid' = Grid(FALSE) /\ psum' = Grid(<<>>)
           /\ ref_act' = Grid(Zero) /\ ref_psum' = Grid(<<>>)
<1>1. ASSUME NEW r \in Lane, NEW c \in Lane
      PROVE  /\ ~ valid_in(r, c) /\ ref_in(ZeroActs, r, c) = Zero
             /\ psum_in(r, c) = <<>> /\ ref_psum_in(r, c) = <<>>
  <2>1. /\ r \in Int /\ c \in Int /\ ~ (r < 0)
        /\ c # 0 => c - 1 \in Lane /\ c > 0
        /\ r # 0 => r - 1 \in Lane
    BY CgAssumption DEF Lane
  <2>2. ~ row_valid[r]
    BY <2>1 DEF Cleared, RowsValid
  <2>3. QED
    BY <2>1, <2>2 DEF Cleared, Grid, valid_in, ref_in, psum_in, ref_psum_in
<1>2. ASSUME NEW r \in Lane, NEW c \in Lane
      PROVE  /\ Mac(psum_in(r, c), r, act_isolated(ZeroActs, r, c), weight) = <<>>
             /\ Mac(ref_psum_in(r, c), r, ref_in(ZeroActs, r, c), weight) = <<>>
             /\ (IF valid_in(r, c) THEN act_in(ZeroActs, r, c) ELSE act[r][c]) = Zero
             /\ (valid_in(r, c) \/ valid[r][c]) = FALSE
             /\ ref_in(ZeroActs, r, c) = Zero
  BY <1>1 DEF Mac, Cleared, Grid
<1>3. psum' = Grid(<<>>) /\ act' = Grid(Zero) /\ valid' = Grid(FALSE)
  BY <1>2, Zenon DEF Edge, GatedEdge, Grid
<1>4. ref_act' = Grid(Zero) /\ ref_psum' = Grid(<<>>)
  BY <1>2, Zenon DEF Edge, PlainEdge, Grid
<1>5. QED
  BY <1>3, <1>4

LEMMA LockStepStep ==
    ASSUME LockStep, NEW in, Edge(in), weight' = weight, gen' = gen,
           soft' = SoftStep(soft, in, row_valid)
    PROVE  LockStep'
<1>1. soft.act = act /\ soft.valid = valid /\ soft.psum = psum /\ weight = gen
  BY DEF LockStep
<1>2. ASSUME NEW r \in Lane, NEW c \in Lane
      PROVE  Mac(psum_in(r, c), r, act_isolated(in, r, c), weight)
                 = IF valid_in(r, c) THEN Mac(psum_in(r, c), r, act_in(in, r, c), gen)
                                     ELSE psum_in(r, c)
  BY <1>1 DEF act_isolated, Mac
<1>3. soft'.psum = psum'
  BY <1>1, <1>2 DEF SoftStep, Edge, GatedEdge, psum_in, valid_in, act_in
<1>4. soft'.act = act'
  BY <1>1 DEF SoftStep, Edge, GatedEdge, valid_in, act_in
<1>5. soft'.valid = valid'
  BY <1>1 DEF SoftStep, Edge, GatedEdge, valid_in
<1>6. soft' = [act |-> soft'.act, valid |-> soft'.valid, psum |-> soft'.psum]
  BY DEF SoftStep
<1>7. QED
  BY <1>1, <1>3, <1>4, <1>5, <1>6 DEF LockStep

LEMMA PowerStep ==
    ASSUME OwnTicks, PowerInv, bench = "power", [TbNext]_allVars PROVE PowerInv'
<1>1. CASE PowerReset
  BY <1>1 DEF PowerReset, Clear, PowerInv, Cleared, RowsValid, NewSoft, Grid
<1>2. CASE PowerLoad
  <2>1. /\ pc' = "power_run" /\ Cleared /\ Edge(ZeroActs) /\ weight' = gen /\ gen' = gen
        /\ soft' = soft
    BY <1>2 DEF PowerLoad, PowerInv, progVars
  <2>2. /\ act' = Grid(Zero) /\ valid' = Grid(FALSE) /\ psum' = Grid(<<>>)
        /\ ref_act' = Grid(Zero) /\ ref_psum' = Grid(<<>>)
    BY <2>1, ClearedLoad
  <2>3. LockStep'
    BY <2>1, <2>2 DEF LockStep, Cleared, NewSoft
  <2>4. IInv'
    BY <2>2 DEF IInv, ValidFromLeft, ActsAgree, GatedEqualsMasked, Grid
  <2>5. QED
    BY <2>1, <2>3, <2>4 DEF PowerInv
<1>3. CASE PowerRun
  <2>1. pc' = "power_run" /\ LockStep /\ IInv
    BY <1>3 DEF PowerRun, PowerInv
  <2>2. PICK in \in [Lane -> Act] :
            /\ Edge(in) /\ weight' = weight /\ row_valid' = row_valid /\ gen' = gen
            /\ soft' = SoftStep(soft, in, row_valid)
    BY <1>3 DEF PowerRun
  <2>3. IInv'
    BY <2>1, <2>2, EdgeStep DEF Edge
  <2>4. LockStep'
    BY <2>1, <2>2, LockStepStep
  <2>5. QED
    BY <2>1, <2>3, <2>4 DEF PowerInv
<1>4. CASE UNCHANGED allVars
  BY <1>4 DEF allVars, tbVars, progVars, vars, PowerInv, Cleared, RowsValid, NewSoft, Grid,
              LockStep, IInv, ValidFromLeft, ActsAgree, GatedEqualsMasked, valid_in
<1>5. QED
  BY <1>1, <1>2, <1>3, <1>4 DEF OwnTicks, Streams, TbNext, ResetTick, LoadTick, StreamTick,
                                NextCase, SvaReset, SvaRun

(* The power test's oracle, for every array size and every scenario: the   *)
(* gated array is the software model of it, in every cycle, and the plain  *)
(* one agrees although neither the load nor the reset is in the model.     *)
THEOREM OracleIsTheArray == TbSpec => []OracleAgrees
<1>1. TbInit => OwnTicks /\ PowerInv
  <2> SUFFICES ASSUME TbInit PROVE OwnTicks /\ PowerInv
    OBVIOUS
  <2>1. OwnTicks
    BY DEF TbInit, FirstPc, OwnTicks, Streams
  <2>2. QED
    BY <2>1 DEF TbInit, FirstPc, PowerInv, Cleared
<1>2. OwnTicks /\ PowerInv /\ [TbNext]_allVars => (OwnTicks /\ PowerInv)'
  <2> SUFFICES ASSUME OwnTicks, PowerInv, [TbNext]_allVars PROVE (OwnTicks /\ PowerInv)'
    OBVIOUS
  <2>1. bench' = bench
    BY DEF TbNext, ResetTick, LoadTick, StreamTick, NextCase, PowerReset, PowerLoad, PowerRun,
           SvaReset, SvaRun, allVars, tbVars, progVars
  <2>2. CASE bench = "power"
    BY <2>2, OwnTicksStep, PowerStep
  <2>3. CASE bench # "power"
    BY <2>1, <2>3, OwnTicksStep DEF PowerInv
  <2>4. QED
    BY <2>2, <2>3
<1>3. OwnTicks /\ PowerInv => OracleAgrees
  <2> SUFFICES ASSUME OwnTicks, PowerInv, pc = "power_run", NEW c \in Lane
               PROVE  /\ psum[N - 1][c] = soft.psum[N - 1][c]
                      /\ psum_out(c) = soft.psum[N - 1][c]
    BY DEF OracleAgrees
  <2>1. LockStep /\ IInv
    BY DEF OwnTicks, Streams, PowerInv
  <2>2. QED
    BY <2>1 DEF LockStep, IInv, GatedEqualsMasked, psum_out
<1>4. QED
  BY <1>1, <1>2, <1>3, PTL DEF TbSpec

(* Gating changes no result in any of the programs either: each sets the   *)
(* validity of a row while the array is clear, and then leaves it alone.   *)
THEOREM GatingInPrograms == TbSpec => []GatedEqualsMasked
<1> DEFINE TInv == OwnTicks /\ PowerInv /\ (bench # "power" => IInv)
<1>1. TbInit => TInv
  <2> SUFFICES ASSUME TbInit PROVE TInv
    OBVIOUS
  <2>1. OwnTicks
    BY DEF TbInit, FirstPc, OwnTicks, Streams
  <2>2. PowerInv
    BY DEF TbInit, FirstPc, PowerInv, Cleared
  <2>3. IInv
    BY DEF TbInit, Grid, IInv, ValidFromLeft, ActsAgree, GatedEqualsMasked
  <2>4. QED
    BY <2>1, <2>2, <2>3
<1>2. TInv /\ [TbNext]_allVars => TInv'
  <2> SUFFICES ASSUME TInv, [TbNext]_allVars PROVE TInv'
    OBVIOUS
  <2>1. bench' = bench
    BY DEF TbNext, ResetTick, LoadTick, StreamTick, NextCase, PowerReset, PowerLoad, PowerRun,
           SvaReset, SvaRun, allVars, tbVars, progVars
  <2>2. OwnTicks' /\ PowerInv'
    <3>1. CASE bench = "power"
      BY <3>1, OwnTicksStep, PowerStep
    <3>2. CASE bench # "power"
      BY <2>1, <3>2, OwnTicksStep DEF PowerInv
    <3>3. QED
      BY <3>1, <3>2
  <2>3. ASSUME bench # "power" PROVE IInv'
    <3>1. ASSUME NEW in, Edge(in), row_valid' = row_valid PROVE IInv'
      BY <2>3, <3>1, EdgeStep DEF Edge
    <3>2. CASE LoadTick \/ StreamTick \/ SvaRun
      BY <3>1, <3>2 DEF LoadTick, StreamTick, SvaRun
    <3>3. CASE ResetTick \/ SvaReset
      BY <3>3 DEF ResetTick, SvaReset, Clear, Grid, IInv, ValidFromLeft, ActsAgree,
                  GatedEqualsMasked
    <3>4. CASE NextCase \/ UNCHANGED allVars
      BY <2>3, <3>4 DEF NextCase, allVars, vars, IInv, ValidFromLeft, ActsAgree,
                        GatedEqualsMasked, valid_in
    <3>5. QED
      BY <2>3, <3>2, <3>3, <3>4 DEF OwnTicks, Streams, TbNext, PowerReset, PowerLoad, PowerRun
  <2>4. QED
    BY <2>1, <2>2, <2>3
<1>3. TInv => GatedEqualsMasked
  BY DEF OwnTicks, PowerInv, Cleared, Streams, IInv, GatedEqualsMasked
<1>4. QED
  BY <1>1, <1>2, <1>3, PTL DEF TbSpec
===============================================================================
