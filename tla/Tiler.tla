--------------------------------- MODULE Tiler ---------------------------------
(***************************************************************************)
(* The tiled matrix product C = A @ W, twice: sched/tiler.py (plan,        *)
(* _pad_tile_2d, execute, VerilatorBackend) running against TileRunner,    *)
(* and the loops of sw/coproc_driver.h (coproc_pack_wtile,                 *)
(* coproc_pack_atile, coproc_matmul_tiled), which work on flat arrays and  *)
(* cut the rows into blocks.  In the second, a tile's product is taken as  *)
(* computed: which command runs when is the subject of CoprocDriver.       *)
(*                                                                         *)
(* Matrix elements are tuples chosen by the extending module; sums are as  *)
(* in SystolicArray.                                                       *)
(***************************************************************************)
EXTENDS TileRunner

CONSTANT MAX_ROWS      \* COPROC_MAX_ROWS

ASSUME MaxRowsAssumption == MAX_ROWS \in Nat \ {0}

VARIABLES A, W, M, K, N,    \* the matrices and their shape
          hpc,              \* execute: not called, between jobs, reading rows
          schedule,         \* the jobs left
          Ct,               \* the rows of the current job read so far
          C,                \* the padded result
          total_cycles,
          m0, tile,         \* driver: first row of the block, tiles collected
          flatC             \* driver: the result array, by index

matrixVars == <<A, W, M, K, N>>
executeVars == <<hpc, schedule, Ct, C, total_cycles>>
driverVars == <<m0, tile, flatC>>

Zero == <<>>
CeilDiv(a, b) == (a + b - 1) \div b
n_kt == CeilDiv(K, TILE)
n_nt == CeilDiv(N, TILE)
SmallerOf(a, b) == IF a < b THEN a ELSE b

-------------------------------------------------------------------------------
(* sched/tiler.py                                                          *)

plan_Floor == [i \in 1..(n_nt * (K \div TILE)) |->
                  [kt |-> (i - 1) % (K \div TILE), nt |-> (i - 1) \div (K \div TILE)]]

plan == [i \in 1..(n_nt * n_kt) |-> [kt |-> (i - 1) % n_kt, nt |-> (i - 1) \div n_kt]]

\* mat[r0:r1, c0:c1] with zeros where mat, of hi[1] rows and hi[2] columns, ends.
PadTile(mat, hi, r0, r1, c0, c1) ==
    [r \in 0..(r1 - r0 - 1) |-> [c \in 0..(c1 - c0 - 1) |->
        IF r0 + r < SmallerOf(r1, hi[1]) /\ c0 + c < SmallerOf(c1, hi[2])
        THEN mat[r0 + r][c0 + c] ELSE Zero]]

WTile(kt, nt) == PadTile(W, <<K, N>>, kt * TILE, (kt + 1) * TILE, nt * TILE, (nt + 1) * TILE)
ATile(kt) == PadTile(A, <<M, K>>, 0, M, kt * TILE, (kt + 1) * TILE)

ZeroC == [m \in 0..(M - 1) |-> [c \in 0..(n_nt * TILE - 1) |-> <<>>]]

\* Call execute on the matrices that are in place from this step on.
Execute == hpc' = "jobs" /\ schedule' = plan' /\ C' = ZeroC'

\* run_tile: write the request.
StartJob ==
    /\ hpc = "jobs" /\ schedule # <<>> /\ hpc' = "rows"
    /\ to_runner' = Append(to_runner,
                           [rows |-> M, Wt |-> WTile(Head(schedule).kt, Head(schedule).nt),
                            At |-> ATile(Head(schedule).kt)])
    /\ Ct' = <<>>
    /\ UNCHANGED <<schedule, C, total_cycles, to_host, closed, runnerVars>>

ReadRow ==
    /\ hpc = "rows" /\ Len(Ct) < M /\ to_host # <<>>
    /\ Ct' = Append(Ct, Head(to_host)) /\ to_host' = Tail(to_host)
    /\ UNCHANGED <<hpc, schedule, C, total_cycles, to_runner, closed, runnerVars>>

\* Read "END <cycles>" and add the tile's rows into its columns of C.
FinishJob ==
    /\ hpc = "rows" /\ Len(Ct) = M /\ to_host # <<>> /\ hpc' = "jobs"
    /\ total_cycles' = total_cycles + Head(to_host)[2] /\ to_host' = Tail(to_host)
    /\ C' = [m \in 0..(M - 1) |-> [c \in 0..(n_nt * TILE - 1) |->
                IF c \div TILE = Head(schedule).nt
                THEN C[m][c] \o Ct[m + 1][c % TILE] ELSE C[m][c]]]
    /\ schedule' = Tail(schedule)
    /\ UNCHANGED <<Ct, to_runner, closed, runnerVars>>

Executed == hpc = "jobs" /\ schedule = <<>>

-------------------------------------------------------------------------------
(* sw/coproc_driver.h                                                      *)

\* The arrays are row-major; an index outside an array reads nothing of it.
FlatW(i) == IF i < K * N THEN W[i \div N][i % N] ELSE <<"beyond W", i>>
FlatA(i) == IF i < M * K THEN A[i \div K][i % K] ELSE <<"beyond A", i>>

pack_wtile(kt, nt) ==
    [i \in Lane |-> [j \in Lane |->
        LET r == kt * TILE + i
            c == nt * TILE + j
        IN  IF r < K /\ c < N THEN FlatW(r * N + c) ELSE Zero]]

mc == SmallerOf(M - m0, MAX_ROWS)

pack_atile(kt) ==
    [m \in 0..(mc - 1) |-> [j \in Lane |->
        LET r == m0 + m
            c == kt * TILE + j
        IN  IF r < M /\ c < K THEN FlatA(r * K + c) ELSE Zero]]

\* Element (m, n) of the product of two tiles.
TileProduct(At, Wt, m, n) ==
    LET sum[i \in 0..TILE] ==
            IF i = 0 THEN <<>> ELSE Mac(sum[i - 1], At[m][i - 1], Wt[i - 1][n])
    IN  sum[TILE]

AddTile_BlockLocal(ct, nt) ==
    [i \in DOMAIN flatC |->
        LET m == i \div N
            j == (i % N) - nt * TILE
        IN  IF m \in 0..(mc - 1) /\ j \in Lane THEN flatC[i] \o ct[m][j] ELSE flatC[i]]

\* Add the mc x TILE result of a tile into the columns of C that exist.
AddTile(ct, nt) ==
    [i \in DOMAIN flatC |->
        LET m == (i \div N) - m0
            j == (i % N) - nt * TILE
        IN  IF m \in 0..(mc - 1) /\ j \in Lane THEN flatC[i] \o ct[m][j] ELSE flatC[i]]

\* Issue and collect the next tile of the block.
CollectTile ==
    /\ m0 < M /\ tile < n_nt * n_kt
    /\ LET At == pack_atile(tile % n_kt)
           Wt == pack_wtile(tile % n_kt, tile \div n_kt)
           ct == [m \in 0..(mc - 1) |-> [j \in Lane |-> TileProduct(At, Wt, m, j)]]
       IN  flatC' = AddTile(ct, tile \div n_kt)
    /\ tile' = tile + 1
    /\ UNCHANGED m0

NextBlock ==
    /\ m0 < M /\ tile = n_nt * n_kt
    /\ m0' = m0 + MAX_ROWS /\ tile' = 0
    /\ flatC' = [i \in DOMAIN flatC |->
                    IF i \div N \in m0'..(m0' + MAX_ROWS - 1) THEN <<>> ELSE flatC[i]]

\* Enter the loop over row blocks.  The caller leaves C uninitialised; every
\* block is zeroed before its first tile.
CallDriverOn(rows, columns) ==
    /\ m0' = 0 /\ tile' = 0
    /\ flatC' = [i \in 0..(rows * columns - 1) |->
                    IF i \div columns < MAX_ROWS THEN <<>> ELSE <<"uninitialised">>]

ExecuteInit == hpc = "idle" /\ schedule = <<>> /\ Ct = <<>> /\ C = <<>> /\ total_cycles = 0

-------------------------------------------------------------------------------
(* Properties.                                                             *)

\* golden_matmul (model/golden.py): element (m, n), its first k products.
Golden(m, n, k) == [i \in 1..k |-> <<A[m][i - 1], W[i - 1][n]>>]

(* Whatever job execute stands at, each column holds exactly the products  *)
(* of the K-tiles already run for it, in order, as they came back from the *)
(* array, and the padding columns that C[:, :N] cuts off hold nothing;     *)
(* when the schedule is empty this is golden_matmul (tiler.py:86-97).  The *)
(* cycles it adds up, from which the published MACs per cycle are made,    *)
(* are the clock edges the array was given (tile_runner.cpp:94).           *)
ExecuteIsGolden ==
    LET run == n_nt * n_kt - Len(schedule)
        Share(nt) == IF run >= (nt + 1) * n_kt THEN n_kt
                     ELSE IF run <= nt * n_kt THEN 0 ELSE run - nt * n_kt
    IN  /\ hpc # "idle" =>
               \A m \in 0..(M - 1), c \in 0..(n_nt * TILE - 1) :
                   C[m][c] = IF c < N THEN Golden(m, c, SmallerOf(K, Share(c \div TILE) * TILE))
                                      ELSE <<>>
        /\ hpc # "rows" => total_cycles = edges

(* When the driver has left a row block behind, all rows up to there are   *)
(* golden_matmul and no earlier block has been touched again: the row      *)
(* blocks, the packing with its padded tails and the flat indices together *)
(* put every product where it belongs, and nothing outside A and W is read *)
(* (coproc_driver.h:63-77, 117-155).                                       *)
DriverIsGolden ==
    \A i \in DOMAIN flatC :
        i \div N < m0 => flatC[i] = Golden(i \div N, i % N, K)
===============================================================================
