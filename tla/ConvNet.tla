-------------------------------- MODULE ConvNet --------------------------------
(***************************************************************************)
(* The convolutional layer graph of sched/nn: quantisation of the          *)
(* convolution, then graph_forward_int8 through convolution (im2col, the   *)
(* tiled product on the array, requantisation), ReLU, max-pooling by       *)
(* reshape, and flattening for the dense layer.  The same product by the C *)
(* library, with the requantisation of int8_mlp_infer, is the alternative  *)
(* to the tiled product.                                                   *)
(*                                                                         *)
(* The layout is symbolic: elements are named by their place, <<n, c, h,   *)
(* w>> in the input and <<co, ci, dy, dx>> in the kernel, a maximum is the *)
(* set of its arguments.  Bias, requantisation and ReLU act on every       *)
(* element alone; one accumulator is followed through them as a number,    *)
(* chosen freely.                                                          *)
(***************************************************************************)
EXTENDS Tiler, Requant

CONSTANT Shapes     \* records [n, c, h, w, co, kh, kw]: batch, channels,
                    \* height, width, output channels, kernel size

ASSUME ShapesAssumption ==
    \A s \in Shapes : /\ {s.n, s.c, s.h, s.w, s.co, s.kh, s.kw} \subseteq Nat \ {0}
                      /\ s.h >= s.kh /\ s.w >= s.kw

VARIABLES pc, s,       \* the next operation; the shape
          dy, dx,      \* loop counters of im2col
          cols,        \* the patches, by <<n, oh, ow, c, dy, dx>>
          out,         \* of the convolution: image, channel, row, column
          pool,        \* the pooled maxima, likewise
          feat,        \* the features: image, position
          acc, v,      \* an accumulator and its rescaled value
          h_i8         \* the activation made of it

layoutVars == <<dy, dx, cols, out, pool, feat>>
sampleVars == <<acc, v, h_i8>>
vars == <<quantVars, pc, s, layoutVars, sampleVars, matrixVars, executeVars, driverVars,
          pipeVars, runnerVars>>

OH == s.h - s.kh + 1
OW == s.w - s.kw + 1
Below(n) == 0..(n - 1)

x(n, c, h, w) == <<n, c, h, w>>
Kernel(co, ci, y, z) == <<co, ci, y, z>>

Patch_DxFirst(k) ==
    <<k \div (s.kh * s.kw), k % s.kh, (k \div s.kh) % s.kw>>

\* The channel and the place in the kernel of column k of a row-major reshape.
Patch(k) == <<k \div (s.kh * s.kw), (k \div s.kw) % s.kh, k % s.kw>>

\* cols.reshape(N*OH*OW, C*kh*kw)
ColsMatrix(row, k) ==
    cols[<<row \div (OH * OW), (row \div OW) % OH, row % OW,
           Patch(k)[1], Patch(k)[2], Patch(k)[3]>>]

\* W.reshape(out_ch, -1).T
W_i8(k, co) == Kernel(co, k \div (s.kh * s.kw), (k \div s.kw) % s.kh, k % s.kw)

-------------------------------------------------------------------------------
\* Conv2d.quantize
Quantize ==
    /\ pc = "quantize" /\ QuantizeMultiplier
    /\ pc' = IF qpc' = "ready" THEN "im2col" ELSE pc
    /\ UNCHANGED <<s, layoutVars, sampleVars, matrixVars, executeVars, driverVars, pipeVars,
                   runnerVars>>

\* One turn of the nested loops of im2col.
Im2colStep ==
    /\ pc = "im2col"
    /\ cols' = [i \in DOMAIN cols |->
                   IF i[5] = dy /\ i[6] = dx THEN x(i[1], i[4], i[2] + dy, i[3] + dx)
                                             ELSE cols[i]]
    /\ dx' = (dx + 1) % s.kw
    /\ dy' = IF dx + 1 = s.kw THEN dy + 1 ELSE dy
    /\ pc' = IF dx + 1 = s.kw /\ dy + 1 = s.kh THEN "matmul" ELSE "im2col"
    /\ UNCHANGED <<quantVars, s, out, pool, feat, sampleVars, matrixVars, executeVars,
                   driverVars, pipeVars, runnerVars>>

Operands ==
    /\ M' = s.n * OH * OW /\ K' = s.c * s.kh * s.kw /\ N' = s.co
    /\ A' = [row \in Below(M') |-> [k \in Below(K') |-> ColsMatrix(row, k)]]
    /\ W' = [k \in Below(K') |-> [co \in Below(N') |-> W_i8(k, co)]]

CallExecute ==
    /\ pc = "matmul" /\ pc' = "execute"
    /\ Operands /\ Execute
    /\ UNCHANGED <<quantVars, s, layoutVars, sampleVars, Ct, total_cycles, driverVars,
                   pipeVars, runnerVars>>

CallDriver ==
    /\ pc = "matmul" /\ pc' = "driver"
    /\ Operands
    /\ CallDriverOn(M', N')
    /\ UNCHANGED <<quantVars, s, layoutVars, sampleVars, executeVars, pipeVars, runnerVars>>

ExecuteStep ==
    /\ pc = "execute" /\ (StartJob \/ ReadRow \/ FinishJob)
    /\ UNCHANGED <<quantVars, pc, s, layoutVars, sampleVars, matrixVars, driverVars>>

DriverStep ==
    /\ pc = "driver" /\ (CollectTile \/ NextBlock)
    /\ UNCHANGED <<quantVars, pc, s, layoutVars, sampleVars, matrixVars, executeVars, pipeVars,
                   runnerVars>>

RunnerStep ==
    /\ Runner
    /\ UNCHANGED <<quantVars, pc, s, layoutVars, sampleVars, matrixVars, executeVars,
                   driverVars>>

\* int8_mlp_infer on what the driver returned.
MlpActivation(a) ==
    /\ pc = "driver" /\ m0 >= M /\ pc' = "returned"
    /\ acc' = a /\ v' = requant(a) /\ h_i8' = clip_relu(v')
    /\ UNCHANGED <<quantVars, s, layoutVars, matrixVars, executeVars, driverVars, pipeVars,
                   runnerVars>>

\* The rest of Conv2d.forward_int8: requantise, clip, and
\* reshape(N, OH, OW, out_ch).transpose(0, 3, 1, 2).
ConvOutput(a) ==
    /\ pc = "execute" /\ Executed /\ pc' = "relu"
    /\ hpc' = "idle"
    /\ acc' = a /\ v' = requant(a) /\ h_i8' = clip(v', -ACT_MAX, ACT_MAX)
    /\ out' = [n \in Below(s.n) |-> [co \in Below(s.co) |->
                  [i \in Below(OH) |-> [j \in Below(OW) |-> C[(n * OH + i) * OW + j][co]]]]]
    /\ UNCHANGED <<quantVars, s, dy, dx, cols, pool, feat, matrixVars, schedule, Ct, C,
                   total_cycles, driverVars, pipeVars, runnerVars>>

\* An odd height or width cannot be reshaped: such a graph has no pooling.
ReLU ==
    /\ pc = "relu"
    /\ pc' = IF OH % 2 = 0 /\ OW % 2 = 0 THEN "pool" ELSE "close"
    /\ h_i8' = clip(h_i8, 0, ACT_MAX)
    /\ UNCHANGED <<quantVars, s, layoutVars, acc, v, matrixVars, executeVars, driverVars,
                   pipeVars, runnerVars>>

\* Index a of the window at i: the axis of length 2 of reshape(.., H//2, 2, ..).
Window(i, a, half) == 2 * i + a

MaxPool ==
    /\ pc = "pool" /\ pc' = "flatten"
    /\ pool' = [n \in Below(s.n) |-> [co \in Below(s.co) |->
                   [i \in Below(OH \div 2) |-> [j \in Below(OW \div 2) |->
                       {out[n][co][Window(i, a, OH \div 2)][Window(j, b, OW \div 2)] :
                           a \in {0, 1}, b \in {0, 1}}]]]]
    /\ UNCHANGED <<quantVars, s, dy, dx, cols, out, feat, sampleVars, matrixVars, executeVars,
                   driverVars, pipeVars, runnerVars>>

\* x.reshape(x.shape[0], -1)
Flatten ==
    /\ pc = "flatten" /\ pc' = "close"
    /\ LET PH == OH \div 2
           PW == OW \div 2
       IN  feat' = [n \in Below(s.n) |-> [f \in Below(s.co * PH * PW) |->
                       pool[n][f \div (PH * PW)][(f \div PW) % PH][f % PW]]]
    /\ UNCHANGED <<quantVars, s, dy, dx, cols, out, pool, sampleVars, matrixVars, executeVars,
                   driverVars, pipeVars, runnerVars>>

\* backend.close(): close the pipe and wait for the runner to end.
Close ==
    /\ \/ pc = "close" /\ pc' = "wait" /\ closed' = TRUE
       \/ pc = "wait" /\ rpc = "exited" /\ pc' = "returned" /\ UNCHANGED closed
    /\ UNCHANGED <<quantVars, s, layoutVars, sampleVars, matrixVars, executeVars, driverVars,
                   to_runner, to_host, runnerVars>>

Init ==
    /\ pc = "quantize" /\ s \in Shapes /\ QuantInit
    /\ dy = 0 /\ dx = 0
    /\ cols = [i \in Below(s.n) \X Below(OH) \X Below(OW) \X Below(s.c)
                         \X Below(s.kh) \X Below(s.kw) |-> <<>>]
    /\ out = <<>> /\ pool = <<>> /\ feat = <<>>
    /\ acc = 0 /\ v = 0 /\ h_i8 = 0
    /\ A = <<>> /\ W = <<>> /\ M = 0 /\ K = 0 /\ N = 0
    /\ ExecuteInit
    /\ m0 = 0 /\ tile = 0 /\ flatC = <<>>
    /\ RunnerInit

Next == \/ Quantize \/ Im2colStep \/ CallExecute \/ CallDriver \/ ExecuteStep \/ DriverStep
        \/ RunnerStep \/ ReLU \/ MaxPool \/ Flatten \/ Close
        \/ \E a \in Acc : MlpActivation(a) \/ ConvOutput(a)

Spec == Init /\ [][Next]_vars

(* The process and the runner it has started run.                          *)
FairSpec == Spec /\ WF_vars(Next)

-------------------------------------------------------------------------------
(* Properties; ExecuteIsGolden and DriverIsGolden are in Tiler.            *)

\* direct_conv of sched/nn/test_nn.py: the products of out[n, co, i, j], in the
\* order of its three inner loops.
Direct(n, co, i, j) ==
    [k \in 1..(s.c * s.kh * s.kw) |->
        LET ci == (k - 1) \div (s.kh * s.kw)
            y == ((k - 1) \div s.kw) % s.kh
            z == (k - 1) % s.kw
        IN  <<x(n, ci, i + y, j + z), Kernel(co, ci, y, z)>>]

(* Convolution by im2col on the array is the convolution: each output sums *)
(* exactly the products of the window under it, with the kernel not        *)
(* flipped or transposed, and lands in its own image, channel and place    *)
(* (layers.py:18-26, 62-73).  The features the dense layer sees are the    *)
(* maxima over its 2 x 2 windows, channel by channel, row by row: the      *)
(* order the dense weights were trained in (layers.py:76-79, 100-101).     *)
ConvIsDirect ==
    /\ pc \in {"relu", "pool", "flatten", "close"} =>
           \A n \in Below(s.n), co \in Below(s.co), i \in Below(OH), j \in Below(OW) :
               out[n][co][i][j] = Direct(n, co, i, j)
    /\ pc = "close" /\ OH % 2 = 0 /\ OW % 2 = 0 =>
           \A n \in Below(s.n), co \in Below(s.co),
              i \in Below(OH \div 2), j \in Below(OW \div 2) :
               feat[n][(co * (OH \div 2) + i) * (OW \div 2) + j] =
                   {Direct(n, co, h, w) : h \in (2 * i)..(2 * i + 1),
                                          w \in (2 * j)..(2 * j + 1)}

(* An activation is its accumulator times the layer's multiplier, rounded  *)
(* and saturated: for negative accumulators, every shift, the clip and     *)
(* ReLU of the graph in two layers and of the C code in one; no            *)
(* intermediate product overflows, and M0 fits an int32 also when it       *)
(* rounds up to a power of two (quantize.py:29-46, int8_mlp.h:25-39,       *)
(* layers.py:69-70, 95-96).                                                *)
ActivationIsRounded ==
    pc \in {"pool", "flatten", "close", "wait", "returned"} =>
        /\ IsNormalised /\ IsRounded(v, acc)
        /\ h_i8 = IF v < 0 THEN 0 ELSE SmallerOf(v, ACT_MAX)

(* The forward pass returns: neither side of the pipes waits for a line    *)
(* the other does not send, and every loop ends.                           *)
GraphReturns == <>(pc = "returned")
===============================================================================
