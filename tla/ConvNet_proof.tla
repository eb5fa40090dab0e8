----------------------------- MODULE ConvNet_proof -----------------------------
(***************************************************************************)
(* Proofs about the convolutional layer and what it runs on, for every     *)
(* layer shape, array size and block size: the product that execute adds   *)
(* up from the array's tiles is the product, the convolution laid out by   *)
(* im2col and computed by it is the convolution, pooled and flattened in   *)
(* order, the C library's product of the same matrices is the product, and *)
(* the sums are rescaled to the nearest int8 activation.                   *)
(*                                                                         *)
(* The argument has six parts.                                             *)
(*   - A request.  After n ticks row k of the activations is at the PEs    *)
(*     (r, c) with k + r + c = n - 1 and has passed r + 1 of them, so lane *)
(*     c gives row k at tick k + (TILE - 1) + c + 1 (Wavefront).           *)
(*   - execute.  After a number of jobs of the plan each column of C holds *)
(*     the K-tiles that Share counts for it, in order (Progress), whatever *)
(*     the pipe and the runner are doing (Executing).                      *)
(*   - im2col.  The places the loops have been past hold the elements they *)
(*     are copied from (Layout), so the operands of the product are the    *)
(*     patches and the kernels (InPlace).                                  *)
(*   - The way back.  Three indices made one can be taken apart again      *)
(*     (IndexApart), so row (n, i, j) of the product is output (n, i, j),  *)
(*     and the position of a feature says which maximum it is (Output).    *)
(*   - The C library.  The packed tile is the tile; rows before the block  *)
(*     are done and rows of the block hold the tiles collected (Driving).  *)
(*   - The activations.  quantize_multiplier only ever multiplies and      *)
(*     divides by powers of two (Scaled), so M0 and shift are the          *)
(*     multiplier to half a unit of M0 (Near); requant's bounds follow     *)
(*     from how far its loops can go (LoopBounds).  What is needed of a    *)
(*     power of two is that 1..n has that many subsets (TwoIsSubsets).     *)
(* TileProduct is recursive.  That it is the tile's sum needs no induction *)
(* principle: a least number at which it is not would have one before it   *)
(* (SumsAre).                                                              *)
(***************************************************************************)
EXTENDS ConvNet, SequenceTheorems, FiniteSetTheorems, TLAPS

-------------------------------------------------------------------------------
(* Arithmetic.                                                             *)

(* Quotient and remainder.                                                 *)
LEMMA Division ==
    ASSUME NEW a \in Nat, NEW b \in Nat \ {0}
    PROVE  a \div b \in Nat /\ a % b \in 0..(b - 1) /\ a = (a \div b) * b + (a % b)
<1>1. a \div b \in Int /\ a % b \in 0..(b - 1) /\ a = (a \div b) * b + (a % b)
  BY Z3
<1> DEFINE q == a \div b
<1>2. q \in Int /\ q * b > -b
  BY <1>1, Z3
<1> HIDE DEF q
<1>3. q >= 0
  <2>1. SUFFICES ASSUME q <= -1 PROVE q * b <= -b
    BY <1>2, <2>1, Z3
  <2>2. QED
    BY <1>2, <2>1, Z3
<1>4. QED
  BY <1>1, <1>2, <1>3 DEF q

(* They are the only ones.                                                 *)
LEMMA QuotientUnique ==
    ASSUME NEW b \in Nat \ {0}, NEW q \in Nat, NEW r \in 0..(b - 1)
    PROVE  (q * b + r) \div b = q /\ (q * b + r) % b = r
<1> DEFINE a == q * b + r
           d == a \div b
           t == a % b
<1>1. q * b \in Nat /\ a \in Nat
  BY Z3
<1>2. d \in Nat /\ t \in 0..(b - 1) /\ a = d * b + t
  <2> HIDE DEF a
  <2>1. QED
    BY <1>1, Division DEF d, t
<1> HIDE DEF d, t
<1>3. (q - d) * b = t - r
  BY <1>2, Z3
<1>4. CASE q - d >= 1
  <2>1. (q - d) * b >= b
    BY <1>2, <1>4, Z3
  <2>2. QED
    BY <1>2, <1>3, <2>1, Z3
<1>5. CASE q - d <= -1
  <2>1. (q - d) * b <= -b
    BY <1>2, <1>5, Z3
  <2>2. QED
    BY <1>2, <1>3, <2>1, Z3
<1>6. CASE q = d
  <2>1. t = r
    BY <1>2, <1>6, Z3
  <2>2. QED
    BY <1>6, <2>1 DEF d, t
<1>7. QED
  BY <1>2, <1>4, <1>5, <1>6

LEMMA Times ==
    ASSUME NEW a \in Nat, NEW b \in Nat
    PROVE  /\ a * b \in Nat /\ a * b = b * a /\ (a + 1) * b = a * b + b
           /\ 0 * b = 0 /\ 1 * b = b
           /\ a > 0 /\ b > 0 => a * b > 0
BY Z3

LEMMA TimesMonotone ==
    ASSUME NEW a \in Nat, NEW b \in Nat, NEW n \in Nat
    PROVE  /\ a <= b => a * n <= b * n
           /\ a < b => a * n + n <= b * n
<1>1. a <= b => a * n <= b * n
  BY Z3
<1>2. a + 1 <= b => (a + 1) * n <= b * n
  BY Z3
<1>3. QED
  BY <1>1, <1>2, Times, Z3

(* A place in a table of rows of n.                                        *)
LEMMA Flat ==
    ASSUME NEW m \in Nat, NEW n \in Nat, NEW p \in 0..(m - 1), NEW q \in 0..(n - 1)
    PROVE  p * n + q \in 0..(m * n - 1)
<1>1. p * n + n <= m * n /\ p * n \in Nat /\ m * n \in Nat
  BY Times, TimesMonotone
<1>2. QED
  BY <1>1

LEMMA Unflat ==
    ASSUME NEW m \in Nat, NEW n \in Nat \ {0}, NEW i \in 0..(m * n - 1)
    PROVE  /\ i \div n \in 0..(m - 1) /\ (i % n) \in 0..(n - 1)
           /\ i = (i \div n) * n + (i % n)
<1>1. m * n \in Nat /\ i \in Nat
  BY Times
<1>2. i \div n \in Nat /\ (i % n) \in 0..(n - 1) /\ i = (i \div n) * n + (i % n)
  BY <1>1, Division
<1> DEFINE q == i \div n
<1> HIDE DEF q
<1>3. ASSUME q >= m PROVE FALSE
  <2>1. m * n <= q * n
    BY <1>2, <1>3, TimesMonotone DEF q
  <2>2. q * n \in Nat
    BY <1>2, Times DEF q
  <2>3. QED
    BY <1>1, <1>2, <2>1, <2>2 DEF q
<1>4. QED
  BY <1>2, <1>3 DEF q

(* Tiles cover a dimension, and all of them are needed.                    *)
LEMMA TilesCover ==
    ASSUME NEW a \in Nat \ {0}, NEW b \in Nat \ {0}
    PROVE  /\ CeilDiv(a, b) \in Nat \ {0} /\ a <= CeilDiv(a, b) * b
           /\ \A k \in 0..(CeilDiv(a, b) - 1) : k * b < a
<1> DEFINE n == CeilDiv(a, b)
           r == (a + b - 1) % b
<1>1. n \in Nat /\ r \in 0..(b - 1) /\ a + b - 1 = n * b + r
  BY Division, a + b - 1 \in Nat DEF CeilDiv
<1> HIDE DEF n, r
<1>2. n * b \in Nat /\ 0 * b = 0
  BY <1>1, Times
<1>3. n # 0 /\ a <= n * b
  BY <1>1, <1>2
<1>4. ASSUME NEW k \in 0..(n - 1) PROVE k * b < a
  <2>1. k \in Nat /\ k < n
    BY <1>1
  <2>2. k * b \in Nat /\ k * b + b <= n * b
    BY <1>1, <2>1, Times, TimesMonotone
  <2>3. QED
    BY <1>1, <1>2, <2>2
<1>5. QED
  BY <1>1, <1>3, <1>4 DEF n

(* There is a least number in a set of numbers.                            *)
LEMMA LeastNumber ==
    ASSUME NEW T \in SUBSET Nat, T # {}
    PROVE  \E n \in T : \A k \in T : n <= k
<1>1. IsWellFoundedOn(OpToRel(<, Nat), Nat)
  BY NatLessThanWellFounded
<1>2. PICK n \in T : \A k \in T : ~(<<k, n>> \in OpToRel(<, Nat))
  BY <1>1, WFMin
<1>3. \A k \in T : ~(k < n)
  BY <1>2 DEF OpToRel
<1>4. QED
  BY <1>3

-------------------------------------------------------------------------------
(* Sums.                                                                   *)

LEMMA AppendTerm ==
    ASSUME NEW e, NEW n \in Nat
    PROVE  Append([i \in 1..n |-> e[i]], e[n + 1]) = [i \in 1..(n + 1) |-> e[i]]
OBVIOUS

LEMMA ConcatTerms ==
    ASSUME NEW S, NEW a \in Nat, NEW b \in Nat,
           NEW u \in [1..a -> S], NEW w \in [1..b -> S], NEW t \in [1..(a + b) -> S],
           \A i \in 1..a : t[i] = u[i], \A i \in 1..b : t[a + i] = w[i]
    PROVE  u \o w = t
<1>1. u \in Seq(S) /\ w \in Seq(S) /\ t \in Seq(S) /\ Len(u) = a /\ Len(w) = b
  OBVIOUS
<1>2. /\ u \o w \in Seq(S) /\ Len(u \o w) = a + b
      /\ \A i \in 1..(a + b) : (u \o w)[i] = IF i <= a THEN u[i] ELSE w[i - a]
  <2>1. /\ u \o w \in Seq(S) /\ Len(u \o w) = Len(u) + Len(w)
        /\ \A i \in 1..(Len(u) + Len(w)) :
               (u \o w)[i] = IF i <= Len(u) THEN u[i] ELSE w[i - Len(u)]
    BY <1>1, ConcatProperties, Zenon
  <2>2. QED
    BY <1>1, <2>1
<1>3. \A i \in 1..(a + b) : (u \o w)[i] = t[i]
  <2>1. \A i \in 1..(a + b) : ~(i <= a) => i - a \in 1..b /\ a + (i - a) = i
    OBVIOUS
  <2>2. QED
    BY <1>2, <2>1
<1>4. Len(t) = a + b
  BY <1>1
<1>5. QED
  BY <1>1, <1>2, <1>3, <1>4, SeqEqual

-------------------------------------------------------------------------------
(* The tiled product.                                                      *)

\* The operands are in place, and none of their elements is zero.
Matrices ==
    /\ M \in Nat \ {0} /\ K \in Nat \ {0} /\ N \in Nat \ {0}
    /\ \A m \in 0..(M - 1), k \in 0..(K - 1) : A[m][k] # Zero
    /\ \A k \in 0..(K - 1), c \in 0..(N - 1) : W[k][c] # Zero

\* The tiles of column tile nt added up when run of the plan have been.
Share(run, nt) ==
    IF run >= (nt + 1) * n_kt THEN n_kt
    ELSE IF run <= nt * n_kt THEN 0 ELSE run - nt * n_kt

\* The first n lanes of K-tile kt for element (m, c) of the product.
TileSum(m, c, kt, n) ==
    IF c < N THEN [p \in 1..SmallerOf(n, K - kt * TILE) |->
                      <<A[m][kt * TILE + p - 1], W[kt * TILE + p - 1][c]>>]
    ELSE <<>>

LEMMA Tiles ==
    ASSUME Matrices
    PROVE  /\ TILE \in Nat \ {0}
           /\ n_kt \in Nat \ {0} /\ n_nt \in Nat \ {0} /\ n_nt * n_kt \in Nat
           /\ K <= n_kt * TILE /\ N <= n_nt * TILE
           /\ \A kt \in 0..(n_kt - 1) : kt * TILE \in Nat /\ kt * TILE < K
<1>1. TILE \in Nat \ {0}
  BY TileAssumption
<1>2. n_kt \in Nat \ {0} /\ K <= n_kt * TILE /\ \A kt \in 0..(n_kt - 1) : kt * TILE < K
  BY <1>1, TilesCover DEF Matrices, n_kt
<1>3. n_nt \in Nat \ {0} /\ N <= n_nt * TILE
  BY <1>1, TilesCover DEF Matrices, n_nt
<1>4. \A kt \in 0..(n_kt - 1) : kt * TILE \in Nat
  <2>1. \A kt \in 0..(n_kt - 1) : kt \in Nat
    BY <1>2
  <2>2. QED
    BY <1>1, <2>1, Times
<1>5. n_nt * n_kt \in Nat
  BY <1>2, <1>3, Times
<1>6. QED
  BY <1>1, <1>2, <1>3, <1>4, <1>5

(* Each job of the plan adds the next tile to its own columns.             *)
LEMMA ShareStep ==
    ASSUME Matrices, NEW run \in 0..(n_nt * n_kt - 1)
    PROVE  /\ run % n_kt \in 0..(n_kt - 1) /\ run \div n_kt \in 0..(n_nt - 1)
           /\ Share(run, run \div n_kt) = run % n_kt
           /\ Share(run + 1, run \div n_kt) = (run % n_kt) + 1
           /\ \A nt \in Nat : nt # run \div n_kt => Share(run + 1, nt) = Share(run, nt)
<1>1. n_kt \in Nat \ {0} /\ n_nt \in Nat \ {0}
  BY Tiles
<1> DEFINE kt == run % n_kt
           q == run \div n_kt
<1>2. kt \in 0..(n_kt - 1) /\ q \in 0..(n_nt - 1) /\ run = q * n_kt + kt
  BY <1>1, Unflat
<1> HIDE DEF kt, q
<1>3. q \in Nat /\ q * n_kt \in Nat /\ (q + 1) * n_kt = q * n_kt + n_kt
  BY <1>1, <1>2, Times
<1>4. Share(run, q) = kt /\ Share(run + 1, q) = kt + 1
  BY <1>1, <1>2, <1>3 DEF Share
<1>5. ASSUME NEW nt \in Nat, nt # q PROVE Share(run + 1, nt) = Share(run, nt)
  <2>1. /\ nt * n_kt \in Nat /\ (nt + 1) * n_kt = nt * n_kt + n_kt
        /\ nt < q => nt * n_kt + n_kt <= q * n_kt
        /\ q < nt => q * n_kt + n_kt <= nt * n_kt
    BY <1>1, <1>3, Times, TimesMonotone
  <2>2. QED
    BY <1>1, <1>2, <1>3, <1>5, <2>1 DEF Share
<1>6. QED
  BY <1>2, <1>4, <1>5 DEF kt, q

LEMMA ShareEnds ==
    ASSUME Matrices, NEW nt \in 0..(n_nt - 1)
    PROVE  Share(0, nt) = 0 /\ Share(n_nt * n_kt, nt) = n_kt
<1>1. n_kt \in Nat \ {0} /\ n_nt \in Nat \ {0} /\ n_nt * n_kt \in Nat
  BY Tiles
<1>2. nt * n_kt \in Nat /\ (nt + 1) * n_kt = nt * n_kt + n_kt /\ (nt + 1) * n_kt <= n_nt * n_kt
  BY <1>1, Times, TimesMonotone, nt \in Nat, nt + 1 \in Nat, nt + 1 <= n_nt
<1>3. QED
  BY <1>1, <1>2 DEF Share

\* The products of row m and column c from element a on.
Terms(m, c, a) == [p \in Nat |-> <<A[m][a + p - 1], W[a + p - 1][c]>>]

LEMMA TermsAre ==
    ASSUME NEW m, NEW c, NEW a \in Nat, NEW n \in Nat
    PROVE  /\ [p \in 1..n |-> <<A[m][a + p - 1], W[a + p - 1][c]>>]
                  = [p \in 1..n |-> Terms(m, c, a)[p]]
           /\ Terms(m, c, a)[n] = <<A[m][a + n - 1], W[a + n - 1][c]>>
BY DEF Terms

(* A lane adds its product, or nothing beyond the edge of the matrices.    *)
LEMMA LaneAdds ==
    ASSUME Matrices, NEW kt \in 0..(n_kt - 1), NEW r \in Lane, NEW m \in 0..(M - 1), NEW c \in Nat
    PROVE  TileSum(m, c, kt, r + 1) =
               Mac(TileSum(m, c, kt, r),
                   IF kt * TILE + r < K THEN A[m][kt * TILE + r] ELSE Zero,
                   IF kt * TILE + r < K /\ c < N THEN W[kt * TILE + r][c] ELSE Zero)
<1>1. /\ TILE \in Nat \ {0} /\ K \in Nat /\ kt * TILE \in Nat /\ kt * TILE < K /\ N \in Nat
      /\ r \in Nat
  BY Tiles DEF Matrices, Lane
<1> DEFINE b == kt * TILE
<1>2. b \in Nat /\ b < K
  BY <1>1
<1>3. CASE b + r < K /\ c < N
  <2> DEFINE e == Terms(m, c, b)
  <2>1. SmallerOf(r, K - b) = r /\ SmallerOf(r + 1, K - b) = r + 1
    BY <1>1, <1>2, <1>3 DEF SmallerOf
  <2>2. \A n \in Nat : [p \in 1..n |-> <<A[m][b + p - 1], W[b + p - 1][c]>>] = [p \in 1..n |-> e[p]]
    BY <1>2, TermsAre
  <2>3. TileSum(m, c, kt, r) = [p \in 1..r |-> e[p]]
        /\ TileSum(m, c, kt, r + 1) = [p \in 1..(r + 1) |-> e[p]]
    <3>1. TileSum(m, c, kt, r) = [p \in 1..r |-> <<A[m][b + p - 1], W[b + p - 1][c]>>]
          /\ TileSum(m, c, kt, r + 1) =
                [p \in 1..(r + 1) |-> <<A[m][b + p - 1], W[b + p - 1][c]>>]
      BY <1>3, <2>1, Zenon DEF TileSum
    <3>2. r \in Nat /\ r + 1 \in Nat
      BY <1>1
    <3> HIDE DEF b, e
    <3>3. QED
      BY <2>2, <3>1, <3>2, Zenon
  <2>4. e[r + 1] = <<A[m][b + r], W[b + r][c]>>
    <3>1. r + 1 \in Nat /\ b + (r + 1) - 1 = b + r
      BY <1>1, <1>2
    <3>2. e[r + 1] = <<A[m][b + (r + 1) - 1], W[b + (r + 1) - 1][c]>>
      BY <1>2, <3>1, TermsAre
    <3> HIDE DEF e
    <3>3. QED
      BY <3>1, <3>2
  <2>5. A[m][b + r] # Zero /\ W[b + r][c] # Zero
    BY <1>1, <1>2, <1>3 DEF Matrices
  <2> HIDE DEF e
  <2>6. Append([p \in 1..r |-> e[p]], e[r + 1]) = [p \in 1..(r + 1) |-> e[p]]
    BY <1>1, AppendTerm
  <2>7. QED
    BY <1>3, <2>3, <2>4, <2>5, <2>6 DEF Mac, ZeroElt, Zero
<1>4. CASE ~(b + r < K) \/ ~(c < N)
  <2>1. ~(b + r < K) => SmallerOf(r, K - b) = K - b /\ SmallerOf(r + 1, K - b) = K - b
    BY <1>1, <1>2 DEF SmallerOf
  <2>2. TileSum(m, c, kt, r + 1) = TileSum(m, c, kt, r)
    BY <1>4, <2>1 DEF TileSum
  <2>3. QED
    BY <1>4, <2>2 DEF Mac, ZeroElt, Zero
<1>5. QED
  BY <1>3, <1>4

LEMMA NoLaneYet ==
    ASSUME Matrices, NEW kt \in 0..(n_kt - 1), NEW m, NEW c
    PROVE  TileSum(m, c, kt, 0) = <<>>
<1>1. kt * TILE \in Nat /\ kt * TILE < K /\ K \in Nat
  BY Tiles DEF Matrices
<1>2. SmallerOf(0, K - kt * TILE) = 0
  BY <1>1 DEF SmallerOf
<1>3. QED
  BY <1>2 DEF TileSum

(* Adding a tile's sum to the tiles before it.                             *)
LEMMA TileAdds ==
    ASSUME Matrices, NEW kt \in 0..(n_kt - 1), NEW m \in 0..(M - 1), NEW c \in 0..(N - 1)
    PROVE  Golden(m, c, SmallerOf(K, kt * TILE)) \o TileSum(m, c, kt, TILE)
               = Golden(m, c, SmallerOf(K, (kt + 1) * TILE))
<1>1. /\ TILE \in Nat \ {0} /\ K \in Nat /\ kt * TILE \in Nat /\ kt * TILE < K /\ N \in Nat
      /\ (kt + 1) * TILE = kt * TILE + TILE
  BY Tiles, Times, kt \in Nat DEF Matrices
<1> DEFINE a == kt * TILE
           b == SmallerOf(TILE, K - a)
           e == Terms(m, c, 0)
           f == Terms(m, c, a)
<1>2. /\ a \in Nat /\ b \in Nat /\ SmallerOf(K, a) = a
      /\ SmallerOf(K, (kt + 1) * TILE) = a + b
  BY <1>1 DEF SmallerOf
<1>3. Golden(m, c, a) = [p \in 1..a |-> e[p]] /\ Golden(m, c, a + b) = [p \in 1..(a + b) |-> e[p]]
  <2>1. \A n \in Nat : [p \in 1..n |-> <<A[m][p - 1], W[p - 1][c]>>] = [p \in 1..n |-> e[p]]
    BY DEF Terms
  <2>2. a + b \in Nat
    BY <1>2
  <2>3. QED
    BY <1>2, <2>1, <2>2 DEF Golden
<1>4. TileSum(m, c, kt, TILE) = [p \in 1..b |-> f[p]]
  <2>1. TileSum(m, c, kt, TILE) = [p \in 1..b |-> <<A[m][a + p - 1], W[a + p - 1][c]>>]
    <3>1. c < N
      BY <1>1
    <3>2. QED
      BY <3>1, Zenon DEF TileSum
  <2> HIDE DEF a, b
  <2>2. [p \in 1..b |-> <<A[m][a + p - 1], W[a + p - 1][c]>>] = [p \in 1..b |-> Terms(m, c, a)[p]]
    BY <1>2, TermsAre
  <2>3. QED
    BY <2>1, <2>2, Zenon
<1> DEFINE S == {e[p] : p \in 1..(a + b)}
<1>5. \A p \in 1..b : f[p] = e[a + p]
  <2> HIDE DEF a, b
  <2>1. \A p \in 1..b : a + p \in Nat /\ p \in Nat /\ 0 + (a + p) - 1 = a + p - 1
    BY <1>2
  <2>2. \A p \in 1..b : /\ f[p] = <<A[m][a + p - 1], W[a + p - 1][c]>>
                        /\ e[a + p] = <<A[m][0 + (a + p) - 1], W[0 + (a + p) - 1][c]>>
    BY <1>2, <2>1, TermsAre
  <2>3. QED
    BY <2>1, <2>2
<1> HIDE DEF a, b, e, f
<1>6. /\ Golden(m, c, a) \in [1..a -> S] /\ TileSum(m, c, kt, TILE) \in [1..b -> S]
      /\ Golden(m, c, a + b) \in [1..(a + b) -> S]
  <2>1. /\ \A p \in 1..a : p \in 1..(a + b)
        /\ \A p \in 1..b : a + p \in 1..(a + b)
    BY <1>2
  <2>2. QED
    BY <1>3, <1>4, <1>5, <2>1
<1>7. /\ \A p \in 1..a : Golden(m, c, a + b)[p] = Golden(m, c, a)[p]
      /\ \A p \in 1..b : Golden(m, c, a + b)[a + p] = TileSum(m, c, kt, TILE)[p]
  <2>1. /\ \A p \in 1..a : p \in 1..(a + b)
        /\ \A p \in 1..b : a + p \in 1..(a + b)
    BY <1>2
  <2>2. QED
    BY <1>3, <1>4, <1>5, <2>1
<1>8. Golden(m, c, a) \o TileSum(m, c, kt, TILE) = Golden(m, c, a + b)
  <2> HIDE DEF S
  <2>1. a \in Nat /\ b \in Nat
    BY <1>2
  <2>2. QED
    BY <1>6, <1>7, <2>1, ConcatTerms, SMTT(30)
<1>9. QED
  BY <1>2, <1>8 DEF a

LEMMA TailTerms ==
    ASSUME NEW S, NEW e \in [Nat -> S], NEW b \in Nat, NEW n \in Nat \ {0},
           NEW q, q = [i \in 1..n |-> e[b + i]]
    PROVE  /\ q # <<>> /\ Len(q) = n /\ Head(q) = e[b + 1]
           /\ Tail(q) = [i \in 1..(n - 1) |-> e[(b + 1) + i]]
<1>1. q \in Seq(S) /\ Len(q) = n /\ \A i \in 1..n : q[i] = e[b + i]
  <2>1. \A i \in 1..n : e[b + i] \in S
    OBVIOUS
  <2>2. q \in [1..n -> S]
    BY <2>1
  <2>3. QED
    BY <2>2
<1>2. q # <<>> /\ Head(q) = e[b + 1]
  BY <1>1
<1> DEFINE t == [i \in 1..(n - 1) |-> e[(b + 1) + i]]
<1>3. t \in Seq(S) /\ Len(t) = n - 1
  <2>1. t \in [1..(n - 1) -> S] /\ n - 1 \in Nat
    OBVIOUS
  <2> HIDE DEF t
  <2>2. QED
    BY <2>1
<1>4. /\ Tail(q) \in Seq(S) /\ Len(Tail(q)) = n - 1
      /\ \A i \in 1..(n - 1) : Tail(q)[i] = q[i + 1]
  <2>1. /\ Tail(q) \in Seq(S) /\ Len(Tail(q)) = Len(q) - 1
        /\ \A i \in 1..Len(Tail(q)) : Tail(q)[i] = q[i + 1]
    BY <1>1, <1>2, HeadTailProperties
  <2>2. QED
    BY <1>1, <2>1
<1>5. \A i \in 1..(n - 1) : Tail(q)[i] = t[i]
  <2>1. \A i \in 1..(n - 1) : i + 1 \in 1..n /\ b + (i + 1) = (b + 1) + i
    OBVIOUS
  <2>2. QED
    BY <1>1, <1>4, <2>1
<1> HIDE DEF t
<1>6. Tail(q) = t
  BY <1>3, <1>4, <1>5, SeqEqual
<1>7. QED
  BY <1>1, <1>2, <1>6 DEF t

(* The tiles that are sent, element by element.                            *)
LEMMA TileElements ==
    ASSUME Matrices, NEW kt \in 0..(n_kt - 1), NEW nt \in 0..(n_nt - 1)
    PROVE  /\ \A m \in 0..(M - 1), r \in Lane :
                 ATile(kt)[m][r] = IF kt * TILE + r < K THEN A[m][kt * TILE + r] ELSE Zero
           /\ \A r \in Lane, c \in Lane :
                 WTile(kt, nt)[r][c] = IF kt * TILE + r < K /\ nt * TILE + c < N
                                       THEN W[kt * TILE + r][nt * TILE + c] ELSE Zero
<1> DEFINE a == kt * TILE
           b == nt * TILE
<1>1. /\ M \in Nat /\ K \in Nat /\ N \in Nat /\ TILE \in Nat /\ a \in Nat /\ b \in Nat
      /\ (kt + 1) * TILE = a + TILE /\ (nt + 1) * TILE = b + TILE
  BY Tiles, Times, kt \in Nat, nt \in Nat DEF Matrices
<1> HIDE DEF a, b
<1>2. ASSUME NEW m \in 0..(M - 1), NEW r \in Lane
      PROVE  PadTile(A, <<M, K>>, 0, M, a, a + TILE)[m][r] = IF a + r < K THEN A[m][a + r] ELSE Zero
  <2>1. m \in 0..(M - 0 - 1) /\ r \in 0..((a + TILE) - a - 1) /\ 0 + m = m
    BY <1>1 DEF Lane
  <2>2. 0 + m < SmallerOf(M, M) /\ (a + r < SmallerOf(a + TILE, K) <=> a + r < K)
    BY <1>1 DEF SmallerOf, Lane
  <2>3. PadTile(A, <<M, K>>, 0, M, a, a + TILE)[m][r] =
            IF 0 + m < SmallerOf(M, M) /\ a + r < SmallerOf(a + TILE, K)
            THEN A[0 + m][a + r] ELSE Zero
    BY <2>1 DEF PadTile
  <2>4. QED
    BY <2>1, <2>2, <2>3
<1>3. ASSUME NEW r \in Lane, NEW c \in Lane
      PROVE  PadTile(W, <<K, N>>, a, a + TILE, b, b + TILE)[r][c]
                 = IF a + r < K /\ b + c < N THEN W[a + r][b + c] ELSE Zero
  <2>1. r \in 0..((a + TILE) - a - 1) /\ c \in 0..((b + TILE) - b - 1)
    BY <1>1 DEF Lane
  <2>2. /\ a + r < SmallerOf(a + TILE, K) <=> a + r < K
        /\ b + c < SmallerOf(b + TILE, N) <=> b + c < N
    BY <1>1 DEF SmallerOf, Lane
  <2>3. PadTile(W, <<K, N>>, a, a + TILE, b, b + TILE)[r][c] =
            IF a + r < SmallerOf(a + TILE, K) /\ b + c < SmallerOf(b + TILE, N)
            THEN W[a + r][b + c] ELSE Zero
    BY <2>1 DEF PadTile
  <2>4. QED
    BY <2>2, <2>3
<1>4. /\ ATile(kt) = PadTile(A, <<M, K>>, 0, M, a, a + TILE)
      /\ WTile(kt, nt) = PadTile(W, <<K, N>>, a, a + TILE, b, b + TILE)
  BY <1>1 DEF ATile, WTile, a, b
<1>5. QED
  BY <1>2, <1>3, <1>4 DEF a, b

-------------------------------------------------------------------------------
(* One request: the runner and the array.                                  *)

Job == Head(schedule)
JobInPlan == Job.kt \in 0..(n_kt - 1) /\ Job.nt \in 0..(n_nt - 1)

Request == [rows |-> M, Wt |-> WTile(Job.kt, Job.nt), At |-> ATile(Job.kt)]

\* What the first n lanes contribute to row m in column c of the job.
LaneSum(m, c, n) == TileSum(m, Job.nt * TILE + c, Job.kt, n)

\* Activation k of lane r, which is nothing before the first and after the last.
Fed(k, r) == IF k \in 0..(M - 1) THEN ATile(Job.kt)[k][r] ELSE Zero
Summed(k, c, n) == IF k \in 0..(M - 1) THEN LaneSum(k, c, n) ELSE <<>>

(* After n ticks row k is at the PEs (r, c) with k + r + c = n - 1.        *)
Wavefront ==
    /\ weight = [r \in Lane |-> [c \in Lane |-> WTile(Job.kt, Job.nt)[r][c]]]
    /\ act = [r \in Lane |-> [c \in Lane |-> Fed(tick - 1 - r - c, r)]]
    /\ psum = [r \in Lane |-> [c \in Lane |-> Summed(tick - 1 - r - c, c, r + 1)]]
    /\ results = [m \in 0..(M - 1) |-> [c \in Lane |->
                     IF m + (TILE - 1) + c < tick THEN LaneSum(m, c, TILE) ELSE <<>>]]

Ticks == M + 2 * (TILE - 1) + 1     \* of one request

\* Where the runner is with the request, and the clock edges it has spent on it.
Working ==
    /\ req = Request
    /\ rpc \in {"reset", "load", "stream", "print"}
    /\ rpc = "reset" => edges = total_cycles
    /\ rpc = "load" => /\ edges = total_cycles + 1
                       /\ weight = ZeroArray /\ act = ZeroArray /\ psum = ZeroArray
    /\ rpc = "stream" => /\ edges = total_cycles + 2 + tick
                         /\ tick \in 0..(Ticks - 1) /\ Wavefront
    /\ rpc = "print" => /\ edges = total_cycles + 2 + Ticks
                        /\ tick = Ticks /\ Wavefront

ArrayFrame == UNCHANGED <<matrixVars, schedule, total_cycles>>

LEMMA FrameKeeps ==
    ASSUME ArrayFrame
    PROVE  /\ Job' = Job /\ Request' = Request /\ Ticks' = Ticks
           /\ n_kt' = n_kt /\ n_nt' = n_nt
           /\ Matrices' = Matrices /\ JobInPlan' = JobInPlan
           /\ M' = M /\ total_cycles' = total_cycles
BY DEF ArrayFrame, matrixVars, Job, Request, Ticks, n_kt, n_nt, Matrices, JobInPlan, WTile, ATile

LEMMA ResetStep ==
    ASSUME Matrices, JobInPlan, Working, ResetTick, ArrayFrame, total_cycles \in Nat
    PROVE  Working'
<1>1. /\ Job' = Job /\ Request' = Request /\ total_cycles' = total_cycles
  BY FrameKeeps
<1>2. /\ rpc = "reset" /\ rpc' = "load" /\ edges' = edges + 1 /\ req' = req
      /\ weight' = ZeroArray /\ act' = ZeroArray /\ psum' = ZeroArray
  BY DEF ResetTick, PeReset
<1>3. QED
  BY <1>1, <1>2 DEF Working

LEMMA LoadStep ==
    ASSUME Matrices, JobInPlan, Working, LoadTick, ArrayFrame, total_cycles \in Nat
    PROVE  Working'
<1>0. TILE \in Nat \ {0} /\ M \in Nat \ {0}
  BY TileAssumption DEF Matrices
<1>1. /\ Job' = Job /\ Request' = Request /\ total_cycles' = total_cycles /\ M' = M
      /\ Ticks' = Ticks
  BY FrameKeeps
<1>2. /\ rpc = "load" /\ rpc' = "stream" /\ edges' = edges + 1 /\ req' = req /\ tick' = 0
      /\ edges = total_cycles + 1 /\ req = Request
      /\ weight = ZeroArray /\ act = ZeroArray /\ psum = ZeroArray
  BY DEF LoadTick, Working
<1>3. req.rows = M /\ req.Wt = WTile(Job.kt, Job.nt)
  BY <1>2 DEF Request
<1>4. /\ weight' = [r \in Lane |-> [c \in Lane |-> WTile(Job.kt, Job.nt)[r][c]]]
      /\ act' = [r \in Lane |-> [c \in Lane |-> Zero]]
      /\ psum' = [r \in Lane |-> [c \in Lane |-> <<>>]]
      /\ results' = [m \in 0..(M - 1) |-> [c \in Lane |-> <<>>]]
  <2>1. \A r \in Lane, c \in Lane :
            /\ a_in(ZeroLanes, r, c) = Zero
            /\ Mac(p_in(r, c), a_in(ZeroLanes, r, c), weight[r][c]) = <<>>
    <3>1. \A r \in Lane : r # 0 => r - 1 \in Lane
      BY <1>0 DEF Lane
    <3>2. QED
      BY <1>2, <3>1 DEF a_in, p_in, Mac, ZeroLanes, ZeroArray, ZeroElt, Zero
  <2>2. /\ weight' = [r \in Lane |-> [c \in Lane |-> req.Wt[r][c]]]
        /\ act' = [r \in Lane |-> [c \in Lane |-> a_in(ZeroLanes, r, c)]]
        /\ psum' = [r \in Lane |-> [c \in Lane |->
                       Mac(p_in(r, c), a_in(ZeroLanes, r, c), weight[r][c])]]
        /\ results' = [m \in 0..(req.rows - 1) |-> [c \in Lane |-> <<>>]]
    BY DEF LoadTick, PeEdge
  <2>3. QED
    BY <1>3, <2>1, <2>2
<1>5. \A r \in Lane, c \in Lane : 0 - 1 - r - c \notin 0..(M - 1)
  BY <1>0 DEF Lane
<1>6. \A m \in 0..(M - 1), c \in Lane : ~(m + (TILE - 1) + c < 0)
  BY <1>0 DEF Lane
<1>7. /\ act' = [r \in Lane |-> [c \in Lane |-> Fed(0 - 1 - r - c, r)]]
      /\ psum' = [r \in Lane |-> [c \in Lane |-> Summed(0 - 1 - r - c, c, r + 1)]]
      /\ results' = [m \in 0..(M - 1) |-> [c \in Lane |->
                        IF m + (TILE - 1) + c < 0 THEN LaneSum(m, c, TILE) ELSE <<>>]]
  BY <1>4, <1>5, <1>6 DEF Fed, Summed
<1>8. Wavefront'
  <2>1. \A k, c, n : Fed(k, c)' = Fed(k, c) /\ Summed(k, c, n)' = Summed(k, c, n)
                     /\ LaneSum(k, c, n)' = LaneSum(k, c, n)
    BY <1>1 DEF Fed, Summed, LaneSum, TileSum, ATile, ArrayFrame, matrixVars
  <2>2. WTile(Job.kt, Job.nt)' = WTile(Job.kt, Job.nt)
    BY <1>1 DEF WTile, ArrayFrame, matrixVars
  <2>3. QED
    BY <1>1, <1>2, <1>4, <1>7, <2>1, <2>2 DEF Wavefront
<1>9. Ticks \in Nat \ {0}
  BY <1>0 DEF Ticks
<1>10. QED
  BY <1>1, <1>2, <1>8, <1>9 DEF Working

(* What the PE of row r and column c makes of row k.                       *)
LEMMA PeAdds ==
    ASSUME Matrices, JobInPlan, NEW k \in Int, NEW r \in Lane, NEW c \in Lane
    PROVE  Mac(Summed(k, c, r), Fed(k, r), WTile(Job.kt, Job.nt)[r][c]) = Summed(k, c, r + 1)
<1>1. CASE k \in 0..(M - 1)
  <2> DEFINE col == Job.nt * TILE + c
  <2>1. col \in Nat
    <3>1. Job.nt \in Nat /\ TILE \in Nat /\ c \in Nat
      BY TileAssumption, Tiles DEF JobInPlan, Lane
    <3>2. Job.nt * TILE \in Nat
      BY <3>1, Times
    <3>3. QED
      BY <3>1, <3>2
  <2>2. /\ Fed(k, r) = IF Job.kt * TILE + r < K THEN A[k][Job.kt * TILE + r] ELSE Zero
        /\ WTile(Job.kt, Job.nt)[r][c] = IF Job.kt * TILE + r < K /\ col < N
                                         THEN W[Job.kt * TILE + r][col] ELSE Zero
    BY <1>1, TileElements DEF JobInPlan, Fed
  <2> HIDE DEF col
  <2>3. TileSum(k, col, Job.kt, r + 1) =
            Mac(TileSum(k, col, Job.kt, r), Fed(k, r), WTile(Job.kt, Job.nt)[r][c])
    BY <1>1, <2>1, <2>2, LaneAdds DEF JobInPlan
  <2>4. QED
    BY <1>1, <2>3 DEF Summed, LaneSum, col
<1>2. CASE k \notin 0..(M - 1)
  BY <1>2 DEF Summed, Fed, Mac, Zero, ZeroElt
<1>3. QED
  BY <1>1, <1>2

LEMMA StreamStep ==
    ASSUME Matrices, JobInPlan, Working, StreamTick, ArrayFrame, total_cycles \in Nat
    PROVE  Working'
<1>0. TILE \in Nat \ {0} /\ M \in Nat \ {0} /\ Ticks \in Nat
  BY TileAssumption DEF Matrices, Ticks
<1>1. /\ Job' = Job /\ Request' = Request /\ total_cycles' = total_cycles /\ M' = M
      /\ Ticks' = Ticks
  BY FrameKeeps
<1>2. /\ rpc = "stream" /\ edges' = edges + 1 /\ req' = req /\ tick' = tick + 1
      /\ edges = total_cycles + 2 + tick /\ tick \in 0..(Ticks - 1) /\ Wavefront
      /\ req = Request
  BY DEF StreamTick, Working
<1>3. req.rows = M /\ req.At = ATile(Job.kt) /\ stream_ticks = Ticks
  BY <1>2 DEF Request, stream_ticks, Ticks
<1>4. /\ weight' = weight
      /\ act' = [r \in Lane |-> [c \in Lane |-> a_in(set_act(tick), r, c)]]
      /\ psum' = [r \in Lane |-> [c \in Lane |->
                     Mac(p_in(r, c), a_in(set_act(tick), r, c), weight[r][c])]]
  BY DEF StreamTick, PeEdge
<1>5. \A r \in Lane, c \in Lane : a_in(set_act(tick), r, c) = Fed(tick - r - c, r)
  <2> TAKE r \in Lane, c \in Lane
  <2>1. CASE c = 0
    <3>1. set_act(tick)[r] = IF tick - r \in 0..(M - 1) THEN ATile(Job.kt)[tick - r][r] ELSE Zero
      BY <1>3 DEF set_act, ZeroElt, Zero
    <3>2. tick - r - c = tick - r
      BY <1>2, <2>1 DEF Lane
    <3>3. QED
      BY <2>1, <3>1, <3>2 DEF a_in, Fed
  <2>2. CASE c # 0
    <3>1. c - 1 \in Lane /\ tick - 1 - r - (c - 1) = tick - r - c
      BY <1>0, <1>2, <2>2 DEF Lane
    <3>2. act[r][c - 1] = Fed(tick - 1 - r - (c - 1), r)
      BY <1>2, <3>1 DEF Wavefront
    <3>3. QED
      BY <2>2, <3>1, <3>2 DEF a_in
  <2>3. QED
    BY <2>1, <2>2
<1>6. \A r \in Lane, c \in Lane : p_in(r, c) = Summed(tick - r - c, c, r)
  <2> TAKE r \in Lane, c \in Lane
  <2>1. CASE r = 0
    <3>1. LaneSum(tick - r - c, c, 0) = <<>>
      BY NoLaneYet DEF LaneSum, JobInPlan
    <3>2. QED
      BY <2>1, <3>1 DEF p_in, Summed
  <2>2. CASE r # 0
    <3>1. r - 1 \in Lane /\ tick - 1 - (r - 1) - c = tick - r - c /\ (r - 1) + 1 = r
      BY <1>0, <1>2, <2>2 DEF Lane
    <3>2. psum[r - 1][c] = Summed(tick - 1 - (r - 1) - c, c, (r - 1) + 1)
      BY <1>2, <3>1 DEF Wavefront
    <3>3. QED
      BY <2>2, <3>1, <3>2 DEF p_in
  <2>3. QED
    BY <2>1, <2>2
<1>7. \A r \in Lane, c \in Lane :
          Mac(p_in(r, c), a_in(set_act(tick), r, c), weight[r][c]) = Summed(tick - r - c, c, r + 1)
  <2> TAKE r \in Lane, c \in Lane
  <2>1. weight[r][c] = WTile(Job.kt, Job.nt)[r][c]
    BY <1>2 DEF Wavefront
  <2>2. tick - r - c \in Int
    BY <1>2 DEF Lane
  <2>3. QED
    BY <1>5, <1>6, <2>1, <2>2, PeAdds
<1>8. /\ act' = [r \in Lane |-> [c \in Lane |-> Fed(tick - r - c, r)]]
      /\ psum' = [r \in Lane |-> [c \in Lane |-> Summed(tick - r - c, c, r + 1)]]
  BY <1>4, <1>5, <1>7
<1>9. results' = [m \in 0..(M - 1) |-> [c \in Lane |->
                     IF m + (TILE - 1) + c < tick + 1 THEN LaneSum(m, c, TILE) ELSE <<>>]]
  <2>1. results' = [m \in 0..(M - 1) |-> [c \in Lane |->
                      IF SampledRow(tick, c) = m THEN psum_out(c)' ELSE results[m][c]]]
    BY <1>3 DEF StreamTick
  <2>2. ASSUME NEW m \in 0..(M - 1), NEW c \in Lane
        PROVE  (IF SampledRow(tick, c) = m THEN psum_out(c)' ELSE results[m][c])
                   = IF m + (TILE - 1) + c < tick + 1 THEN LaneSum(m, c, TILE) ELSE <<>>
    <3>1. results[m][c] = IF m + (TILE - 1) + c < tick THEN LaneSum(m, c, TILE) ELSE <<>>
      BY <1>2 DEF Wavefront
    <3>2. CASE SampledRow(tick, c) = m
      <4>1. TILE - 1 \in Lane /\ tick - (TILE - 1) - c = m /\ (TILE - 1) + 1 = TILE
            /\ m + (TILE - 1) + c < tick + 1
        BY <1>0, <1>2, <3>2 DEF Lane, SampledRow
      <4>2. psum'[TILE - 1][c] = Summed(tick - (TILE - 1) - c, c, (TILE - 1) + 1)
        BY <1>8, <4>1
      <4>3. psum'[TILE - 1][c] = LaneSum(m, c, TILE)
        BY <4>1, <4>2 DEF Summed
      <4>4. QED
        BY <3>2, <4>1, <4>3 DEF psum_out
    <3>3. CASE SampledRow(tick, c) # m
      <4>1. m + (TILE - 1) + c < tick + 1 <=> m + (TILE - 1) + c < tick
        BY <1>0, <1>2, <3>3 DEF Lane, SampledRow
      <4>2. QED
        BY <3>1, <3>3, <4>1
    <3>4. QED
      BY <3>2, <3>3
  <2>3. QED
    BY <2>1, <2>2
<1>10. Wavefront'
  <2>1. \A k, c, n : Fed(k, c)' = Fed(k, c) /\ Summed(k, c, n)' = Summed(k, c, n)
                     /\ LaneSum(k, c, n)' = LaneSum(k, c, n)
    BY <1>1 DEF Fed, Summed, LaneSum, TileSum, ATile, ArrayFrame, matrixVars
  <2>2. WTile(Job.kt, Job.nt)' = WTile(Job.kt, Job.nt)
    BY <1>1 DEF WTile, ArrayFrame, matrixVars
  <2>3. tick' = tick + 1 /\ \A r \in Lane : \A c \in Lane : (tick + 1) - 1 - r - c = tick - r - c
    BY <1>2 DEF Lane
  <2>4. /\ act' = [r \in Lane |-> [c \in Lane |-> Fed((tick + 1) - 1 - r - c, r)]]
        /\ psum' = [r \in Lane |-> [c \in Lane |-> Summed((tick + 1) - 1 - r - c, c, r + 1)]]
    BY <1>8, <2>3
  <2>5. weight' = [r \in Lane |-> [c \in Lane |-> WTile(Job.kt, Job.nt)[r][c]]]
    BY <1>2, <1>4 DEF Wavefront
  <2>6. QED
    BY <1>1, <1>9, <2>1, <2>2, <2>3, <2>4, <2>5 DEF Wavefront
<1>11. /\ rpc' = IF tick + 1 < Ticks THEN "stream" ELSE "print"
       /\ tick + 1 < Ticks => tick + 1 \in 0..(Ticks - 1)
       /\ ~(tick + 1 < Ticks) => tick + 1 = Ticks
       /\ edges' = total_cycles + 2 + (tick + 1)
  BY <1>0, <1>2, <1>3 DEF StreamTick
<1>12. QED
  <2>1. req' = Request' /\ total_cycles' = total_cycles /\ tick' = tick + 1 /\ Ticks' = Ticks
    BY <1>1, <1>2
  <2>2. CASE tick + 1 < Ticks
    BY <1>10, <1>11, <2>1, <2>2 DEF Working
  <2>3. CASE ~(tick + 1 < Ticks)
    BY <1>10, <1>11, <2>1, <2>3 DEF Working
  <2>4. QED
    BY <2>2, <2>3

-------------------------------------------------------------------------------
(* execute: the jobs, one request each.                                    *)

\* Line i of the answer to the request.
Lines == [i \in Nat |-> IF i \in 1..M THEN [c \in Lane |-> LaneSum(i - 1, c, TILE)]
                                      ELSE <<"END", 2 + Ticks>>]

\* The request is in the pipe.
Asked ==
    /\ rpc = "read" /\ to_runner = <<Request>> /\ to_host = <<>> /\ Ct = <<>>
    /\ edges = total_cycles

\* The answer has been written and d rows of it read.
Answered(d) ==
    /\ rpc = "read" /\ to_runner = <<>> /\ edges = total_cycles + 2 + Ticks
    /\ Ct = [i \in 1..d |-> Lines[i]]
    /\ to_host = [i \in 1..(M + 1 - d) |-> Lines[d + i]]

\* The plan from its first job on.
Jobs == [i \in Nat |-> [kt |-> (i - 1) % n_kt, nt |-> (i - 1) \div n_kt]]

\* Jobs 1 to run have been done.
Progress(run) ==
    /\ schedule = [i \in 1..(n_nt * n_kt - run) |-> Jobs[run + i]]
    /\ C = [m \in 0..(M - 1) |-> [c \in 0..(n_nt * TILE - 1) |->
               IF c < N THEN Golden(m, c, SmallerOf(K, Share(run, c \div TILE) * TILE)) ELSE <<>>]]

AtRest == rpc = "read" /\ to_runner = <<>> /\ to_host = <<>> /\ edges = total_cycles

Executing ==
    /\ Matrices /\ total_cycles \in Nat /\ closed = FALSE
    /\ \E run \in 0..(n_nt * n_kt) : Progress(run)
    /\ \/ hpc = "jobs" /\ AtRest
       \/ /\ hpc = "rows" /\ schedule # <<>>
          /\ \/ Asked
             \/ Working /\ to_runner = <<>> /\ to_host = <<>> /\ Ct = <<>>
             \/ \E d \in 0..M : Answered(d)

\* The job at hand.
LEMMA NextJob ==
    ASSUME Matrices, NEW run \in 0..(n_nt * n_kt), Progress(run), schedule # <<>>
    PROVE  /\ run \in 0..(n_nt * n_kt - 1) /\ JobInPlan
           /\ Job.kt = run % n_kt /\ Job.nt = run \div n_kt
           /\ Tail(schedule) = [i \in 1..(n_nt * n_kt - (run + 1)) |-> Jobs[(run + 1) + i]]
<1>1. n_nt * n_kt \in Nat /\ run \in Nat
  BY Tiles
<1> DEFINE n == n_nt * n_kt - run
           S == {Jobs[i] : i \in Nat}
<1>2. schedule = [i \in 1..n |-> Jobs[run + i]] /\ n \in Nat
  BY <1>1 DEF Progress
<1>3. n # 0
  <2>1. n = 0 => schedule = <<>>
    BY <1>2
  <2>2. QED
    BY <2>1
<1>4. Jobs \in [Nat -> S]
  BY DEF Jobs
<1>5. n - 1 = n_nt * n_kt - (run + 1)
  BY <1>1
<1> HIDE DEF n, S
<1>6. /\ Job = Jobs[run + 1]
      /\ Tail(schedule) = [i \in 1..(n - 1) |-> Jobs[(run + 1) + i]]
  BY <1>1, <1>2, <1>3, <1>4, TailTerms DEF Job
<1>7. run \in 0..(n_nt * n_kt - 1)
  BY <1>1, <1>2, <1>3 DEF n
<1>8. Job.kt = run % n_kt /\ Job.nt = run \div n_kt
  <2>1. (run + 1) - 1 = run /\ run + 1 \in Nat
    BY <1>1
  <2>2. QED
    BY <1>6, <2>1 DEF Jobs
<1>9. QED
  BY <1>5, <1>6, <1>7, <1>8, ShareStep DEF JobInPlan

LEMMA WriteStep ==
    ASSUME Matrices, Working, Write, to_host = <<>>, to_runner = <<>>, Ct = <<>>,
           ArrayFrame, Ct' = Ct
    PROVE  Answered(0)'
<1>0. TILE \in Nat \ {0} /\ M \in Nat \ {0}
  BY TileAssumption DEF Matrices
<1>1. /\ rpc = "print" /\ rpc' = "read" /\ to_host' = to_host \o Answer
      /\ to_runner' = <<>> /\ edges' = edges
      /\ edges = total_cycles + 2 + Ticks /\ tick = Ticks /\ Wavefront /\ req = Request
  BY DEF Write, Working
<1>2. req.rows = M /\ cycles = 2 + Ticks
  BY <1>1 DEF Request, cycles, stream_ticks, Ticks
<1>3. \A i \in 1..M : results[i - 1] = Lines[i]
  <2> TAKE i \in 1..M
  <2>1. i - 1 \in 0..(M - 1) /\ \A c \in Lane : (i - 1) + (TILE - 1) + c < Ticks
    BY <1>0 DEF Lane, Ticks
  <2>2. results[i - 1] = [c \in Lane |->
            IF (i - 1) + (TILE - 1) + c < Ticks THEN LaneSum(i - 1, c, TILE) ELSE <<>>]
    BY <1>1, <2>1 DEF Wavefront
  <2>3. QED
    BY <2>1, <2>2 DEF Lines
<1>4. Lines[M + 1] = <<"END", cycles>>
  <2>1. M + 1 \in Nat /\ M + 1 \notin 1..M
    BY <1>0
  <2>2. QED
    BY <1>2, <2>1 DEF Lines
<1>5. Answer = [i \in 1..(M + 1) |-> Lines[i]]
  <2>1. [m \in 1..req.rows |-> results[m - 1]] = [i \in 1..M |-> Lines[i]]
    BY <1>2, <1>3
  <2>2. Append([i \in 1..M |-> Lines[i]], Lines[M + 1]) = [i \in 1..(M + 1) |-> Lines[i]]
    BY <1>0, AppendTerm
  <2>3. QED
    BY <1>4, <2>1, <2>2 DEF Answer
<1>6. <<>> \o Answer = Answer
  <2> DEFINE S == {Lines[i] : i \in Nat}
  <2>1. Answer \in Seq(S)
    <3>1. Answer \in [1..(M + 1) -> S] /\ M + 1 \in Nat
      BY <1>0, <1>5
    <3> HIDE DEF S
    <3>2. QED
      BY <3>1
  <2> HIDE DEF S
  <2>2. QED
    BY <2>1, ConcatEmptySeq
<1>7. to_host' = [i \in 1..(M + 1) |-> Lines[i]] /\ Ct' = <<>>
  BY <1>1, <1>5, <1>6
<1>8. Lines' = Lines /\ M' = M /\ Ticks' = Ticks /\ total_cycles' = total_cycles
  BY FrameKeeps DEF Lines, LaneSum, TileSum, ArrayFrame, matrixVars
<1>9. /\ [i \in 1..0 |-> Lines[i]] = <<>>
      /\ [i \in 1..(M + 1 - 0) |-> Lines[0 + i]] = [i \in 1..(M + 1) |-> Lines[i]]
  <2>1. M + 1 - 0 = M + 1 /\ \A i \in 1..(M + 1) : 0 + i = i
    BY <1>0
  <2>2. QED
    BY <2>1
<1>10. QED
  BY <1>1, <1>7, <1>8, <1>9 DEF Answered

LEMMA RunnerKeepsExecuting ==
    ASSUME Executing, Runner,
           UNCHANGED <<hpc, Ct, C, schedule, total_cycles, matrixVars>>
    PROVE  Executing'
<1>1. ArrayFrame
  BY DEF ArrayFrame
<1>2. Matrices /\ Matrices' /\ total_cycles \in Nat /\ total_cycles' = total_cycles /\ closed = FALSE
  BY <1>1, FrameKeeps DEF Executing
<1>3. PICK run \in 0..(n_nt * n_kt) : Progress(run)
  BY DEF Executing
<1>4. n_nt' = n_nt /\ n_kt' = n_kt /\ Progress(run)'
  BY <1>1, <1>3, FrameKeeps DEF Progress, Jobs, Share, Golden, matrixVars
<1>5. hpc = "rows"
  BY DEF Executing, AtRest, Runner, ReadRequest, ResetTick, LoadTick, StreamTick, Write, Exit
<1>6. schedule # <<>> /\ JobInPlan
  BY <1>2, <1>3, <1>5, NextJob DEF Executing
<1>7. /\ closed' = FALSE
      /\ \/ Working' /\ to_runner' = <<>> /\ to_host' = <<>> /\ Ct' = <<>>
         \/ Answered(0)'
  <2>1. CASE ReadRequest
    <3>1. rpc = "read" /\ to_runner # <<>>
      BY <2>1 DEF ReadRequest
    <3>2. Asked
      BY <1>5, <3>1 DEF Executing, Working, Answered
    <3>3. /\ req' = Request /\ to_runner' = <<>> /\ to_host' = <<>> /\ Ct' = <<>>
          /\ rpc' = "reset" /\ edges' = total_cycles /\ closed' = FALSE
      BY <1>2, <2>1, <3>2 DEF ReadRequest, Asked
    <3>4. Request' = Request
      BY <1>1, FrameKeeps
    <3>5. QED
      BY <1>2, <3>3, <3>4 DEF Working
  <2>2. CASE ResetTick \/ LoadTick \/ StreamTick \/ Write
    <3>1. Working /\ to_runner = <<>> /\ to_host = <<>> /\ Ct = <<>>
      BY <1>5, <2>2 DEF Executing, ResetTick, LoadTick, StreamTick, Write, Asked, Answered
    <3>2. CASE ResetTick \/ LoadTick \/ StreamTick
      <4>1. UNCHANGED <<to_runner, to_host, closed>>
        BY <3>2 DEF ResetTick, LoadTick, StreamTick, pipeVars
      <4>2. Working'
        BY <1>1, <1>2, <1>6, <3>1, <3>2, ResetStep, LoadStep, StreamStep
      <4>3. QED
        BY <1>2, <3>1, <4>1, <4>2
    <3>3. CASE Write
      <4>1. closed' = closed
        BY <3>3 DEF Write
      <4>2. QED
        BY <1>1, <1>2, <3>1, <3>3, <4>1, WriteStep
    <3>4. QED
      BY <2>2, <3>2, <3>3
  <2>3. CASE Exit
    BY <1>2, <2>3 DEF Exit
  <2>4. QED
    BY <2>1, <2>2, <2>3 DEF Runner
<1>8. 0 \in 0..M'
  BY <1>2 DEF Matrices
<1>9. run \in 0..(n_nt' * n_kt')
  BY <1>3, <1>4
<1>10. QED
  BY <1>2, <1>4, <1>5, <1>6, <1>7, <1>8, <1>9 DEF Executing

LEMMA StartKeepsExecuting ==
    ASSUME Executing, StartJob, UNCHANGED matrixVars
    PROVE  Executing'
<1>1. /\ hpc = "jobs" /\ schedule # <<>> /\ hpc' = "rows" /\ to_runner' = Append(to_runner, Request)
      /\ Ct' = <<>> /\ UNCHANGED <<schedule, C, total_cycles, to_host, closed, rpc, edges>>
  BY DEF StartJob, Request, Job, runnerVars
<1>2. AtRest
  BY <1>1 DEF Executing
<1>3. ArrayFrame
  BY <1>1 DEF ArrayFrame
<1>4. Asked'
  <2>1. Append(<<>>, Request) = <<Request>>
    OBVIOUS
  <2>2. Request' = Request
    BY <1>3, FrameKeeps
  <2>3. QED
    BY <1>1, <1>2, <2>1, <2>2 DEF Asked, AtRest
<1>5. PICK run \in 0..(n_nt * n_kt) : Progress(run)
  BY DEF Executing
<1>6. n_nt' = n_nt /\ n_kt' = n_kt /\ Progress(run)'
  BY <1>1, <1>3, <1>5, FrameKeeps DEF Progress, Jobs, Share, Golden, matrixVars
<1>7. Matrices' /\ total_cycles' \in Nat /\ closed' = FALSE
  BY <1>1, <1>3, FrameKeeps DEF Executing
<1>8. run \in 0..(n_nt' * n_kt')
  BY <1>5, <1>6
<1>9. QED
  BY <1>1, <1>4, <1>6, <1>7, <1>8 DEF Executing

LEMMA LinesAre ==
    ASSUME Matrices, NEW d \in 0..M, Answered(d)
    PROVE  /\ Len(Ct) = d /\ to_host # <<>>
           /\ Head(to_host) = Lines[d + 1]
           /\ Tail(to_host) = [i \in 1..(M - d) |-> Lines[(d + 1) + i]]
           /\ \A m \in 0..(d - 1), c \in Lane : Ct[m + 1][c] = LaneSum(m, c, TILE)
<1>1. M \in Nat /\ d \in Nat /\ M + 1 - d \in Nat \ {0} /\ (M + 1 - d) - 1 = M - d
  BY DEF Matrices
<1> DEFINE S == {Lines[i] : i \in Nat}
<1>2. Lines \in [Nat -> S]
  BY DEF Lines
<1> HIDE DEF S
<1>3. Ct = [i \in 1..d |-> Lines[i]] /\ to_host = [i \in 1..(M + 1 - d) |-> Lines[d + i]]
  BY DEF Answered
<1>4. Len(Ct) = d
  BY <1>1, <1>3
<1>5. /\ to_host # <<>> /\ Head(to_host) = Lines[d + 1]
      /\ Tail(to_host) = [i \in 1..((M + 1 - d) - 1) |-> Lines[(d + 1) + i]]
  <2> DEFINE n == M + 1 - d
  <2>1. n \in Nat \ {0} /\ to_host = [i \in 1..n |-> Lines[d + i]]
    BY <1>1, <1>3
  <2> HIDE DEF n
  <2>2. /\ to_host # <<>> /\ Head(to_host) = Lines[d + 1]
        /\ Tail(to_host) = [i \in 1..(n - 1) |-> Lines[(d + 1) + i]]
    <3>1. d \in Nat
      BY <1>1
    <3>2. n \in Nat \ {0}
      BY <2>1
    <3>3. to_host = [i \in 1..n |-> Lines[d + i]]
      BY <2>1
    <3>4. QED
      BY <1>2, <3>1, <3>2, <3>3, TailTerms, Z3T(30)
  <2>3. QED
    BY <2>2 DEF n
<1>6. ASSUME NEW m \in 0..(d - 1), NEW c \in Lane PROVE Ct[m + 1][c] = LaneSum(m, c, TILE)
  <2>1. m + 1 \in 1..d /\ m + 1 \in 1..M /\ m + 1 \in Nat /\ (m + 1) - 1 = m
    BY <1>1
  <2>2. Lines[m + 1] = [k \in Lane |-> LaneSum((m + 1) - 1, k, TILE)]
    BY <2>1 DEF Lines
  <2>3. QED
    BY <1>3, <2>1, <2>2
<1>7. QED
  BY <1>1, <1>4, <1>5, <1>6

LEMMA RowKeepsExecuting ==
    ASSUME Executing, ReadRow, UNCHANGED matrixVars
    PROVE  Executing'
<1>1. /\ hpc = "rows" /\ Len(Ct) < M /\ to_host # <<>> /\ hpc' = hpc
      /\ Ct' = Append(Ct, Head(to_host)) /\ to_host' = Tail(to_host)
      /\ UNCHANGED <<schedule, C, total_cycles, to_runner, closed, rpc, edges>>
  BY DEF ReadRow, runnerVars
<1>2. Matrices /\ schedule # <<>> /\ M \in Nat
  BY <1>1 DEF Executing, Matrices
<1>3. PICK d \in 0..M : Answered(d)
  BY <1>1 DEF Executing, Asked
<1>4. ArrayFrame
  BY <1>1 DEF ArrayFrame
<1>5. d \in 0..(M - 1) /\ d + 1 \in 0..M /\ M + 1 - (d + 1) = M - d
  BY <1>1, <1>2, <1>3, LinesAre
<1>6. Answered(d + 1)'
  <2>1. Ct = [i \in 1..d |-> Lines[i]] /\ Head(to_host) = Lines[d + 1]
    BY <1>2, <1>3, LinesAre DEF Answered
  <2>2. Append([i \in 1..d |-> Lines[i]], Lines[d + 1]) = [i \in 1..(d + 1) |-> Lines[i]]
    BY <1>3, AppendTerm, d \in Nat
  <2>3. Ct' = [i \in 1..(d + 1) |-> Lines[i]]
    BY <1>1, <2>1, <2>2
  <2>4. to_host' = [i \in 1..(M + 1 - (d + 1)) |-> Lines[(d + 1) + i]]
    <3>1. Tail(to_host) = [i \in 1..(M - d) |-> Lines[(d + 1) + i]]
      BY <1>2, <1>3, LinesAre
    <3>2. QED
      BY <1>1, <1>5, <3>1
  <2>5. Lines' = Lines /\ M' = M /\ Ticks' = Ticks /\ total_cycles' = total_cycles
    BY <1>4, FrameKeeps DEF Lines, LaneSum, TileSum, ArrayFrame, matrixVars
  <2>6. rpc = "read" /\ to_runner = <<>> /\ edges = total_cycles + 2 + Ticks
    BY <1>3 DEF Answered
  <2>7. QED
    BY <1>1, <2>3, <2>4, <2>5, <2>6 DEF Answered
<1>7. PICK run \in 0..(n_nt * n_kt) : Progress(run)
  BY DEF Executing
<1>8. n_nt' = n_nt /\ n_kt' = n_kt /\ Progress(run)'
  BY <1>1, <1>4, <1>7, FrameKeeps DEF Progress, Jobs, Share, Golden, matrixVars
<1>9. Matrices' /\ total_cycles' \in Nat /\ closed' = FALSE /\ M' = M
  BY <1>1, <1>4, FrameKeeps DEF Executing
<1>10. run \in 0..(n_nt' * n_kt') /\ d + 1 \in 0..M'
  BY <1>5, <1>7, <1>8, <1>9
<1>11. QED
  BY <1>1, <1>2, <1>6, <1>8, <1>9, <1>10 DEF Executing

LEMMA FinishKeepsExecuting ==
    ASSUME Executing, FinishJob, UNCHANGED matrixVars
    PROVE  Executing'
<1>1. /\ hpc = "rows" /\ Len(Ct) = M /\ to_host # <<>> /\ hpc' = "jobs"
      /\ total_cycles' = total_cycles + Head(to_host)[2] /\ to_host' = Tail(to_host)
      /\ schedule' = Tail(schedule)
      /\ UNCHANGED <<Ct, to_runner, closed, rpc, edges>>
  BY DEF FinishJob, runnerVars
<1>2. Matrices /\ schedule # <<>> /\ M \in Nat \ {0} /\ total_cycles \in Nat /\ closed = FALSE
  BY <1>1 DEF Executing, Matrices
<1>3. PICK d \in 0..M : Answered(d)
  BY <1>1 DEF Executing, Asked
<1>4. d = M
  BY <1>1, <1>2, <1>3, LinesAre
<1>5. PICK run \in 0..(n_nt * n_kt) : Progress(run)
  BY DEF Executing
<1>6. /\ run \in 0..(n_nt * n_kt - 1) /\ JobInPlan
      /\ Job.kt = run % n_kt /\ Job.nt = run \div n_kt
      /\ Tail(schedule) = [i \in 1..(n_nt * n_kt - (run + 1)) |-> Jobs[(run + 1) + i]]
  BY <1>2, <1>5, NextJob
<1>7. Head(to_host)[2] = 2 + Ticks /\ to_host' = <<>>
  <2>1. Lines[M + 1] = <<"END", 2 + Ticks>>
    BY <1>2, M + 1 \in Nat, M + 1 \notin 1..M DEF Lines
  <2>2. Head(to_host) = Lines[M + 1] /\ Tail(to_host) = [i \in 1..(M - M) |-> Lines[(M + 1) + i]]
    BY <1>2, <1>3, <1>4, LinesAre
  <2>3. M - M = 0
    BY <1>2
  <2>4. Tail(to_host) = <<>>
    BY <2>2, <2>3
  <2>5. QED
    BY <1>1, <2>1, <2>2, <2>4
<1>8. Ticks \in Nat
  BY <1>2, TileAssumption DEF Ticks
<1>9. AtRest' /\ total_cycles' \in Nat /\ closed' = FALSE
  <2>1. rpc = "read" /\ to_runner = <<>> /\ edges = total_cycles + 2 + Ticks
    BY <1>3 DEF Answered
  <2>2. total_cycles' = total_cycles + (2 + Ticks)
    BY <1>1, <1>7
  <2>3. edges' = total_cycles' /\ total_cycles' \in Nat
    BY <1>1, <1>2, <1>8, <2>1, <2>2
  <2>4. QED
    BY <1>1, <1>2, <1>7, <2>1, <2>3 DEF AtRest
<1> DEFINE Part(r, m, c) == IF c < N THEN Golden(m, c, SmallerOf(K, Share(r, c \div TILE) * TILE)) ELSE <<>>
<1>10. C' = [m \in 0..(M - 1) |-> [c \in 0..(n_nt * TILE - 1) |-> Part(run + 1, m, c)]]
  <2>1. C' = [m \in 0..(M - 1) |-> [c \in 0..(n_nt * TILE - 1) |->
                 IF c \div TILE = Job.nt THEN C[m][c] \o Ct[m + 1][c % TILE] ELSE C[m][c]]]
    BY DEF FinishJob, Job
  <2>2. ASSUME NEW m \in 0..(M - 1), NEW c \in 0..(n_nt * TILE - 1)
        PROVE  (IF c \div TILE = Job.nt THEN C[m][c] \o Ct[m + 1][c % TILE] ELSE C[m][c])
                   = Part(run + 1, m, c)
    <3>1. C[m][c] = Part(run, m, c)
      BY <1>5 DEF Progress
    <3>2. /\ TILE \in Nat \ {0} /\ n_nt \in Nat \ {0} /\ n_kt \in Nat \ {0} /\ N \in Nat
          /\ c \in Nat /\ c \div TILE \in Nat /\ c % TILE \in Lane
          /\ c = (c \div TILE) * TILE + (c % TILE)
      <4>1. TILE \in Nat \ {0} /\ n_nt \in Nat \ {0} /\ n_kt \in Nat \ {0}
        BY <1>2, Tiles
      <4>2. /\ c \div TILE \in 0..(n_nt - 1) /\ c % TILE \in 0..(TILE - 1)
            /\ c = (c \div TILE) * TILE + (c % TILE)
        BY <4>1, Unflat
      <4>3. N \in Nat
        BY <1>2 DEF Matrices
      <4>4. c \in Nat
        BY <4>1, Times
      <4>5. QED
        BY <4>1, <4>2, <4>3, <4>4 DEF Lane
    <3>3. CASE c \div TILE # Job.nt
      <4>1. Share(run + 1, c \div TILE) = Share(run, c \div TILE)
        BY <1>2, <1>6, <3>2, <3>3, ShareStep
      <4>2. QED
        BY <3>1, <3>3, <4>1
    <3>4. CASE c \div TILE = Job.nt
      <4>1. Ct[m + 1][c % TILE] = TileSum(m, c, Job.kt, TILE)
        <5>1. Ct[m + 1][c % TILE] = LaneSum(m, c % TILE, TILE)
          BY <1>2, <1>3, <1>4, <3>2, LinesAre
        <5>2. QED
          BY <3>2, <3>4, <5>1 DEF LaneSum
      <4>2. CASE c < N
        <5>1. Share(run, c \div TILE) = Job.kt /\ Share(run + 1, c \div TILE) = Job.kt + 1
          BY <1>2, <1>6, <3>4, ShareStep
        <5>2. c \in 0..(N - 1)
          BY <3>2, <4>2
        <5>3. Golden(m, c, SmallerOf(K, Job.kt * TILE)) \o TileSum(m, c, Job.kt, TILE)
                  = Golden(m, c, SmallerOf(K, (Job.kt + 1) * TILE))
          BY <1>2, <1>6, <5>2, TileAdds DEF JobInPlan
        <5>4. QED
          BY <3>1, <3>4, <4>1, <4>2, <5>1, <5>3
      <4>3. CASE ~(c < N)
        <5>1. TileSum(m, c, Job.kt, TILE) = <<>> /\ C[m][c] = <<>> /\ Part(run + 1, m, c) = <<>>
          BY <3>1, <4>3 DEF TileSum
        <5>2. <<>> \o <<>> = <<>>
          OBVIOUS
        <5>3. QED
          BY <3>4, <4>1, <5>1, <5>2
      <4>4. QED
        BY <4>2, <4>3
    <3>5. QED
      BY <3>3, <3>4
  <2> HIDE DEF Part
  <2>3. QED
    BY <2>1, <2>2
<1>11. UNCHANGED <<matrixVars, n_nt, n_kt>> /\ Matrices'
  BY <1>2 DEF matrixVars, n_nt, n_kt, Matrices
<1>12. Progress(run + 1)'
  <2>1. \A m, c : Part(run + 1, m, c)' = Part(run + 1, m, c)
    BY <1>11 DEF Golden, Share, matrixVars
  <2>2. Jobs' = Jobs /\ M' = M
    BY <1>11 DEF Jobs, matrixVars
  <2>3. schedule' = [i \in 1..(n_nt' * n_kt' - (run + 1)) |-> Jobs'[(run + 1) + i]]
    BY <1>1, <1>6, <1>11, <2>2
  <2>4. C' = [m \in 0..(M' - 1) |-> [c \in 0..(n_nt' * TILE - 1) |-> Part(run + 1, m, c)']]
    <3> HIDE DEF Part
    <3>1. QED
      BY <1>10, <1>11, <2>1, <2>2
  <2>5. QED
    BY <2>3, <2>4 DEF Progress
<1>13. run + 1 \in 0..(n_nt' * n_kt')
  <2>1. n_nt * n_kt \in Nat
    BY <1>2, Tiles
  <2>2. QED
    BY <1>6, <1>11, <2>1
<1>14. QED
  BY <1>1, <1>9, <1>11, <1>12, <1>13 DEF Executing

(* What is called as finished or under way is golden.                      *)
LEMMA ExecutingIsGolden ==
    ASSUME Executing PROVE ExecuteIsGolden
<1>1. PICK run \in 0..(n_nt * n_kt) : Progress(run)
  BY DEF Executing
<1>2. n_nt * n_kt \in Nat /\ Matrices
  BY Tiles DEF Executing
<1>3. Len(schedule) = n_nt * n_kt - run
  <2>1. n_nt * n_kt - run \in Nat
    BY <1>1, <1>2
  <2>2. QED
    BY <1>1, <2>1 DEF Progress
<1>4. n_nt * n_kt - Len(schedule) = run
  BY <1>1, <1>2, <1>3
<1>5. hpc # "rows" => total_cycles = edges
  BY DEF Executing, AtRest
<1>6. \A m \in 0..(M - 1), c \in 0..(n_nt * TILE - 1) :
          C[m][c] = IF c < N THEN Golden(m, c, SmallerOf(K, Share(run, c \div TILE) * TILE)) ELSE <<>>
  BY <1>1 DEF Progress
<1>7. QED
  BY <1>4, <1>5, <1>6 DEF ExecuteIsGolden, Share

-------------------------------------------------------------------------------
(* The layout of the convolution.                                          *)

LEMMA Shape ==
    ASSUME s \in Shapes
    PROVE  /\ s.n \in Nat \ {0} /\ s.c \in Nat \ {0} /\ s.co \in Nat \ {0}
           /\ s.kh \in Nat \ {0} /\ s.kw \in Nat \ {0} /\ OH \in Nat \ {0} /\ OW \in Nat \ {0}
           /\ OH * OW \in Nat \ {0} /\ s.kh * s.kw \in Nat \ {0}
           /\ s.n * OH \in Nat \ {0} /\ s.c * s.kh \in Nat \ {0}
           /\ s.n * OH * OW \in Nat \ {0} /\ s.c * s.kh * s.kw \in Nat \ {0}
           /\ s.n * OH * OW = s.n * (OH * OW) /\ s.c * s.kh * s.kw = s.c * (s.kh * s.kw)
<1>1. /\ s.n \in Nat \ {0} /\ s.c \in Nat \ {0} /\ s.co \in Nat \ {0}
      /\ s.kh \in Nat \ {0} /\ s.kw \in Nat \ {0} /\ s.h \in Nat \ {0} /\ s.w \in Nat \ {0}
      /\ s.h >= s.kh /\ s.w >= s.kw
  BY ShapesAssumption
<1>2. OH \in Nat \ {0} /\ OW \in Nat \ {0}
  BY <1>1 DEF OH, OW
<1> DEFINE Pos(i) == i \in Nat \ {0}
<1>3. ASSUME NEW a, NEW b, Pos(a), Pos(b) PROVE Pos(a * b)
  BY <1>3, Times
<1>4. ASSUME NEW a, NEW b, NEW c, Pos(a), Pos(b), Pos(c) PROVE a * b * c = a * (b * c)
  BY <1>4, Z3
<1>5. Pos(s.n) /\ Pos(s.c) /\ Pos(s.kh) /\ Pos(s.kw) /\ Pos(OH) /\ Pos(OW)
  BY <1>1, <1>2
<1> HIDE DEF Pos
<1>6. Pos(OH * OW) /\ Pos(s.kh * s.kw) /\ Pos(s.n * OH) /\ Pos(s.c * s.kh)
  BY <1>3, <1>5
<1>7. Pos(s.n * OH * OW) /\ Pos(s.c * s.kh * s.kw)
  BY <1>3, <1>5, <1>6
<1>8. s.n * OH * OW = s.n * (OH * OW) /\ s.c * s.kh * s.kw = s.c * (s.kh * s.kw)
  BY <1>4, <1>5
<1>9. QED
  BY <1>1, <1>2, <1>6, <1>7, <1>8 DEF Pos

\* The indices of cols, and where each is copied from.
Places == Below(s.n) \X Below(OH) \X Below(OW) \X Below(s.c) \X Below(s.kh) \X Below(s.kw)
Source(i) == x(i[1], i[4], i[2] + i[5], i[3] + i[6])

\* The loops have been past i.
Past(i) == i[5] < dy \/ (i[5] = dy /\ i[6] < dx)

Layout ==
    /\ s \in Shapes /\ DOMAIN cols = Places
    /\ pc = "quantize" => dy = 0 /\ dx = 0
    /\ pc = "im2col" => dy \in Below(s.kh) /\ dx \in Below(s.kw)
    /\ \A i \in Places : (pc \in {"quantize", "im2col"} => Past(i)) => cols[i] = Source(i)

\* Row and column of the operands as places.
RowPlace(row) == <<row \div (OH * OW), (row \div OW) % OH, row % OW>>
Patched(row, k) ==
    x(RowPlace(row)[1], Patch(k)[1], RowPlace(row)[2] + Patch(k)[2], RowPlace(row)[3] + Patch(k)[3])

InPlace ==
    /\ s \in Shapes
    /\ M = s.n * OH * OW /\ K = s.c * s.kh * s.kw /\ N = s.co
    /\ A = [row \in Below(M) |-> [k \in Below(K) |-> Patched(row, k)]]
    /\ W = [k \in Below(K) |-> [co \in Below(N) |-> W_i8(k, co)]]

LEMMA InitLayout == Init => Layout
<1> SUFFICES ASSUME Init PROVE Layout
  OBVIOUS
<1>1. s \in Shapes /\ pc = "quantize" /\ dy = 0 /\ dx = 0 /\ DOMAIN cols = Places
  BY DEF Init, Places
<1>2. \A i \in Places : ~Past(i)
  <2>1. s.kh \in Nat /\ s.kw \in Nat
    BY <1>1, Shape
  <2>2. \A i \in Places : i[5] \in Below(s.kh) /\ i[6] \in Below(s.kw)
    BY DEF Places
  <2>3. QED
    BY <1>1, <2>1, <2>2 DEF Past, Below
<1>3. QED
  BY <1>1, <1>2 DEF Layout

LEMMA LayoutStep == Layout /\ [Next]_vars => Layout'
<1> SUFFICES ASSUME Layout, [Next]_vars PROVE Layout'
  OBVIOUS
<1>1. s \in Shapes /\ s.kh \in Nat \ {0} /\ s.kw \in Nat \ {0}
  BY Shape DEF Layout
<1>2. ASSUME UNCHANGED <<s, dy, dx, cols>>, \/ pc = "quantize" /\ pc' \in {"quantize", "im2col"}
                                            \/ pc \notin {"quantize", "im2col"}
                                               /\ pc' \notin {"quantize", "im2col"}
                                            \/ pc' = pc
      PROVE  Layout'
  <2>1. Places' = Places /\ \A i : Past(i)' = Past(i) /\ Source(i)' = Source(i)
    BY <1>2 DEF Places, Past, Source, OH, OW, x
  <2>2. Below(s.kh)' = Below(s.kh) /\ Below(s.kw)' = Below(s.kw)
        /\ 0 \in Below(s.kh) /\ 0 \in Below(s.kw)
    BY <1>1, <1>2 DEF Below
  <2>3. QED
    BY <1>2, <2>1, <2>2 DEF Layout
<1>3. CASE Quantize
  BY <1>2, <1>3 DEF Quantize, layoutVars
<1>4. CASE Im2colStep
  <2>1. /\ pc = "im2col" /\ dy \in Below(s.kh) /\ dx \in Below(s.kw) /\ DOMAIN cols = Places
        /\ cols' = [i \in Places |-> IF i[5] = dy /\ i[6] = dx
                                     THEN x(i[1], i[4], i[2] + dy, i[3] + dx) ELSE cols[i]]
        /\ dx' = (dx + 1) % s.kw
        /\ dy' = IF dx + 1 = s.kw THEN dy + 1 ELSE dy
        /\ pc' = IF dx + 1 = s.kw /\ dy + 1 = s.kh THEN "matmul" ELSE "im2col"
        /\ s' = s
    BY <1>4 DEF Im2colStep, Layout
  <2>2. Places' = Places /\ \A i : Source(i)' = Source(i)
    BY <2>1 DEF Places, Source, OH, OW, x
  <2>3. dx \in 0..(s.kw - 1) /\ dy \in 0..(s.kh - 1)
    BY <2>1 DEF Below
  <2>4. dx' = IF dx + 1 = s.kw THEN 0 ELSE dx + 1
    <3>1. CASE dx + 1 = s.kw
      <4>1. s.kw = 1 * s.kw + 0 /\ 0 \in 0..(s.kw - 1) /\ 1 \in Nat
        BY <1>1
      <4>2. (1 * s.kw + 0) % s.kw = 0
        BY <1>1, <4>1, QuotientUnique
      <4>3. QED
        BY <2>1, <3>1, <4>1, <4>2
    <3>2. CASE dx + 1 # s.kw
      <4>1. dx + 1 = 0 * s.kw + (dx + 1) /\ dx + 1 \in 0..(s.kw - 1) /\ 0 \in Nat
        BY <1>1, <2>3, <3>2
      <4>2. (0 * s.kw + (dx + 1)) % s.kw = dx + 1
        BY <1>1, <4>1, QuotientUnique
      <4>3. QED
        BY <2>1, <3>2, <4>1, <4>2
    <3>3. QED
      BY <3>1, <3>2
  <2>5. pc' = "im2col" => dy' \in Below(s.kh) /\ dx' \in Below(s.kw)
    BY <1>1, <2>1, <2>3, <2>4 DEF Below
  <2>6. ASSUME NEW i \in Places, pc' \in {"quantize", "im2col"} => Past(i)'
        PROVE  cols'[i] = Source(i)
    <3>1. i[5] \in 0..(s.kh - 1) /\ i[6] \in 0..(s.kw - 1)
      BY DEF Places, Below
    <3>2. Past(i) \/ (i[5] = dy /\ i[6] = dx)
      BY <1>1, <2>1, <2>3, <2>4, <2>6, <3>1 DEF Past
    <3>3. CASE i[5] = dy /\ i[6] = dx
      BY <2>1, <3>3 DEF Source
    <3>4. CASE ~(i[5] = dy /\ i[6] = dx)
      <4>1. cols[i] = Source(i)
        BY <2>1, <3>2, <3>4 DEF Layout
      <4>2. QED
        BY <2>1, <3>4, <4>1
    <3>5. QED
      BY <3>3, <3>4
  <2>7. DOMAIN cols' = Places
    BY <2>1
  <2>8. pc' # "quantize"
    BY <2>1
  <2>9. QED
    BY <1>1, <2>1, <2>2, <2>5, <2>6, <2>7, <2>8 DEF Layout
<1>5. CASE CallExecute \/ CallDriver
  BY <1>2, <1>5 DEF CallExecute, CallDriver, layoutVars
<1>6. CASE ExecuteStep \/ DriverStep \/ RunnerStep
  BY <1>2, <1>6 DEF ExecuteStep, DriverStep, RunnerStep, layoutVars
<1>7. CASE ReLU \/ MaxPool \/ Flatten \/ Close
  <2>1. UNCHANGED <<s, dy, dx, cols>>
    <3>1. CASE ReLU \/ Close
      BY <3>1 DEF ReLU, Close, layoutVars
    <3>2. CASE MaxPool
      BY <3>2 DEF MaxPool
    <3>3. CASE Flatten
      BY <3>3 DEF Flatten
    <3>4. QED
      BY <1>7, <3>1, <3>2, <3>3
  <2>2. /\ pc \notin {"quantize", "im2col"}
        /\ pc' \notin {"quantize", "im2col"}
    <3>1. CASE ReLU \/ Close
      BY <3>1 DEF ReLU, Close
    <3>2. CASE MaxPool
      BY <3>2, Zenon DEF MaxPool
    <3>3. CASE Flatten
      BY <3>3, Zenon DEF Flatten
    <3>4. QED
      BY <1>7, <3>1, <3>2, <3>3
  <2>3. QED
    BY <1>2, <2>1, <2>2
<1>8. CASE \E a \in Acc : MlpActivation(a) \/ ConvOutput(a)
  BY <1>2, <1>8 DEF MlpActivation, ConvOutput, layoutVars
<1>9. CASE UNCHANGED vars
  BY <1>2, <1>9 DEF vars, layoutVars
<1>10. QED
  BY <1>3, <1>4, <1>5, <1>6, <1>7, <1>8, <1>9 DEF Next

LEMMA RowIsPlace ==
    ASSUME s \in Shapes, NEW row \in 0..(s.n * OH * OW - 1)
    PROVE  /\ RowPlace(row)[1] \in 0..(s.n - 1) /\ RowPlace(row)[2] \in 0..(OH - 1)
           /\ RowPlace(row)[3] \in 0..(OW - 1)
<1>1. row \in 0..(s.n * (OH * OW) - 1) /\ row \in Nat
  BY Shape
<1>2. row \div (OH * OW) \in 0..(s.n - 1)
  BY <1>1, Shape, Unflat
<1>3. row \div OW \in Nat /\ (row % OW) \in 0..(OW - 1)
  BY <1>1, Shape, Division
<1>4. ((row \div OW) % OH) \in 0..(OH - 1)
  BY <1>3, Shape, Division
<1>5. QED
  BY <1>2, <1>3, <1>4 DEF RowPlace

LEMMA ColumnIsPatch ==
    ASSUME s \in Shapes, NEW k \in 0..(s.c * s.kh * s.kw - 1)
    PROVE  /\ Patch(k)[1] \in 0..(s.c - 1) /\ Patch(k)[2] \in 0..(s.kh - 1)
           /\ Patch(k)[3] \in 0..(s.kw - 1)
<1>1. k \in 0..(s.c * (s.kh * s.kw) - 1) /\ k \in Nat
  BY Shape
<1>2. k \div (s.kh * s.kw) \in 0..(s.c - 1)
  BY <1>1, Shape, Unflat
<1>3. k \div s.kw \in Nat /\ (k % s.kw) \in 0..(s.kw - 1)
  BY <1>1, Shape, Division
<1>4. ((k \div s.kw) % s.kh) \in 0..(s.kh - 1)
  BY <1>3, Shape, Division
<1>5. QED
  BY <1>2, <1>3, <1>4 DEF Patch

(* What im2col hands over is the product's operands.                       *)
LEMMA OperandsInPlace ==
    ASSUME Layout, pc = "matmul", Operands, s' = s
    PROVE  InPlace'
<1>1. s \in Shapes /\ \A i \in Places : cols[i] = Source(i)
  BY DEF Layout
<1> DEFINE m == s.n * OH * OW
           n == s.c * s.kh * s.kw
<1>2. ASSUME NEW row \in Below(m), NEW k \in Below(n)
      PROVE  ColsMatrix(row, k) = Patched(row, k)
  <2>1. /\ RowPlace(row)[1] \in Below(s.n) /\ RowPlace(row)[2] \in Below(OH)
        /\ RowPlace(row)[3] \in Below(OW)
    BY <1>1, RowIsPlace DEF Below
  <2>2. /\ Patch(k)[1] \in Below(s.c) /\ Patch(k)[2] \in Below(s.kh)
        /\ Patch(k)[3] \in Below(s.kw)
    BY <1>1, ColumnIsPatch DEF Below
  <2> DEFINE i == <<RowPlace(row)[1], RowPlace(row)[2], RowPlace(row)[3],
                    Patch(k)[1], Patch(k)[2], Patch(k)[3]>>
  <2>3. i \in Places
    <3> HIDE DEF Below
    <3>1. QED
      BY <2>1, <2>2 DEF Places
  <2>4. ColsMatrix(row, k) = cols[i]
    BY DEF ColsMatrix, RowPlace
  <2>5. Source(i) = Patched(row, k)
    BY DEF Source, Patched
  <2>6. QED
    BY <1>1, <2>3, <2>4, <2>5
<1>3. M' = m /\ K' = n /\ N' = s.co
  BY DEF Operands
<1>4. /\ A' = [row \in Below(m) |-> [k \in Below(n) |-> ColsMatrix(row, k)]]
      /\ W' = [k \in Below(n) |-> [co \in Below(s.co) |-> W_i8(k, co)]]
  BY DEF Operands
<1>5. OH' = OH /\ OW' = OW /\ \A row, k, co : Patched(row, k)' = Patched(row, k) /\ W_i8(k, co)' = W_i8(k, co)
  BY DEF OH, OW, Patched, RowPlace, Patch, W_i8, Kernel, x
<1>6. A' = [row \in Below(m) |-> [k \in Below(n) |-> Patched(row, k)]]
  <2> HIDE DEF m, n
  <2>1. QED
    BY <1>2, <1>4
<1>7. QED
  BY <1>1, <1>3, <1>4, <1>5, <1>6 DEF InPlace

LEMMA InPlaceIsMatrices == InPlace => Matrices
<1> SUFFICES ASSUME InPlace PROVE Matrices
  OBVIOUS
<1>1. M \in Nat \ {0} /\ K \in Nat \ {0} /\ N \in Nat \ {0}
  BY Shape DEF InPlace
<1>2. \A m \in 0..(M - 1), k \in 0..(K - 1) : A[m][k] = Patched(m, k)
  BY DEF InPlace, Below
<1>3. \A k \in 0..(K - 1), c \in 0..(N - 1) : W[k][c] = W_i8(k, c)
  BY DEF InPlace, Below
<1>4. \A m, k : Patched(m, k) # Zero /\ W_i8(m, k) # Zero
  BY DEF Patched, W_i8, x, Kernel, Zero
<1>5. QED
  BY <1>1, <1>2, <1>3, <1>4 DEF Matrices

-------------------------------------------------------------------------------
(* The forward pass.                                                       *)

\* execute has just been called.
Fresh ==
    /\ Matrices /\ total_cycles \in Nat /\ closed = FALSE
    /\ hpc = "jobs" /\ schedule = plan /\ C = ZeroC /\ AtRest

LEMMA FreshIsExecuting == Fresh => Executing
<1> SUFFICES ASSUME Fresh PROVE Executing
  OBVIOUS
<1>1. Matrices
  BY DEF Fresh
<1>2. TILE \in Nat \ {0} /\ n_nt \in Nat \ {0} /\ n_nt * n_kt \in Nat /\ K \in Nat \ {0}
  BY <1>1, Tiles DEF Matrices
<1>3. schedule = [i \in 1..(n_nt * n_kt - 0) |-> Jobs[0 + i]]
  <2> DEFINE n == n_nt * n_kt
  <2>1. schedule = [i \in 1..n |-> [kt |-> (i - 1) % n_kt, nt |-> (i - 1) \div n_kt]]
    BY DEF Fresh, plan
  <2>2. \A i \in 1..n : 0 + i = i /\ i \in Nat
    BY <1>2
  <2>3. n - 0 = n
    BY <1>2
  <2>4. schedule = [i \in 1..(n - 0) |-> Jobs[0 + i]]
    <3> HIDE DEF n
    <3>1. \A i \in 1..n : Jobs[0 + i] = [kt |-> (i - 1) % n_kt, nt |-> (i - 1) \div n_kt]
      BY <2>2 DEF Jobs
    <3>2. QED
      BY <2>1, <2>3, <3>1
  <2>5. QED
    BY <2>4
<1>4. ASSUME NEW m, NEW c \in 0..(n_nt * TILE - 1)
      PROVE  Golden(m, c, SmallerOf(K, Share(0, c \div TILE) * TILE)) = <<>>
  <2>1. c \div TILE \in 0..(n_nt - 1)
    BY <1>2, Unflat
  <2>2. Share(0, c \div TILE) = 0 /\ 0 * TILE = 0
    BY <1>1, <1>2, <2>1, ShareEnds, Times
  <2>3. SmallerOf(K, 0) = 0
    BY <1>2 DEF SmallerOf
  <2>4. Golden(m, c, 0) = <<>>
    BY DEF Golden
  <2>5. QED
    BY <2>2, <2>3, <2>4
<1>5. C = [m \in 0..(M - 1) |-> [c \in 0..(n_nt * TILE - 1) |->
              IF c < N THEN Golden(m, c, SmallerOf(K, Share(0, c \div TILE) * TILE)) ELSE <<>>]]
  BY <1>4 DEF Fresh, ZeroC
<1>6. Progress(0) /\ 0 \in 0..(n_nt * n_kt)
  BY <1>2, <1>3, <1>5 DEF Progress
<1>7. QED
  BY <1>1, <1>6 DEF Fresh, Executing

\* The runner is idle, or has ended because its pipe was closed.
Idle ==
    /\ hpc = "idle" /\ to_runner = <<>> /\ to_host = <<>> /\ edges = total_cycles
    /\ rpc \in {"read", "exited"} /\ (rpc = "exited" => closed)
    /\ closed \in BOOLEAN /\ (closed => pc \in {"wait", "returned"})

Forward ==
    /\ Layout /\ total_cycles \in Nat
    /\ pc \in {"execute", "driver"} => InPlace
    /\ pc = "execute" => Executing
    /\ pc # "execute" => Idle

LEMMA InitForward == Init => Forward
<1>1. Init => pc = "quantize" /\ total_cycles = 0 /\ Idle
  BY DEF Init, ExecuteInit, RunnerInit, Idle
<1>2. QED
  BY <1>1, InitLayout DEF Forward

LEMMA IdleKept ==
    ASSUME Idle, UNCHANGED <<executeVars, pipeVars, runnerVars>>, pc \notin {"wait", "returned"}
    PROVE  Idle'
BY DEF Idle, executeVars, pipeVars, runnerVars

LEMMA InPlaceKept ==
    ASSUME InPlace, UNCHANGED <<s, matrixVars>>
    PROVE  InPlace'
BY DEF InPlace, matrixVars, Patched, RowPlace, Patch, W_i8, OH, OW, x, Kernel, Below

LEMMA ForwardStep == Forward /\ [Next]_vars => Forward'
<1> SUFFICES ASSUME Forward, [Next]_vars PROVE Forward'
  OBVIOUS
<1>1. Layout /\ Layout'
  BY LayoutStep DEF Forward
<1>2. CASE Quantize \/ Im2colStep
  <2>1. pc # "execute" /\ pc' \notin {"execute", "driver"} /\ pc \notin {"wait", "returned"}
        /\ UNCHANGED <<executeVars, pipeVars, runnerVars>>
    BY <1>2 DEF Quantize, Im2colStep
  <2>2. Idle' /\ total_cycles' \in Nat
    BY <2>1, IdleKept DEF Forward, executeVars
  <2>3. QED
    BY <1>1, <2>1, <2>2 DEF Forward
<1>3. CASE CallExecute
  <2>1. /\ pc = "matmul" /\ pc' = "execute" /\ Operands /\ s' = s
        /\ hpc' = "jobs" /\ schedule' = plan' /\ C' = ZeroC'
        /\ UNCHANGED <<total_cycles, pipeVars, runnerVars>>
    BY <1>3 DEF CallExecute, Execute
  <2>2. InPlace'
    BY <1>1, <2>1, OperandsInPlace
  <2>3. InPlace' => Matrices'
    BY InPlaceIsMatrices, PTL
  <2>4. Idle /\ total_cycles \in Nat
    BY <2>1 DEF Forward
  <2>5. AtRest' /\ closed' = FALSE
    BY <2>1, <2>4 DEF AtRest, Idle, pipeVars, runnerVars
  <2>6. Fresh'
    BY <2>1, <2>2, <2>3, <2>4, <2>5 DEF Fresh
  <2>7. Fresh' => Executing'
    BY FreshIsExecuting, PTL
  <2>8. QED
    BY <1>1, <2>1, <2>2, <2>4, <2>6, <2>7 DEF Forward
<1>4. CASE CallDriver
  <2>1. /\ pc = "matmul" /\ pc' = "driver" /\ Operands /\ s' = s
        /\ UNCHANGED <<executeVars, pipeVars, runnerVars>>
    BY <1>4 DEF CallDriver
  <2>2. InPlace'
    BY <1>1, <2>1, OperandsInPlace
  <2>3. Idle' /\ total_cycles' \in Nat
    BY <2>1, IdleKept DEF Forward, executeVars
  <2>4. QED
    BY <1>1, <2>1, <2>2, <2>3 DEF Forward
<1>5. CASE ExecuteStep
  <2>1. pc = "execute" /\ pc' = pc /\ UNCHANGED <<s, matrixVars>> /\ (StartJob \/ ReadRow \/ FinishJob)
    BY <1>5 DEF ExecuteStep
  <2>2. Executing /\ InPlace
    BY <2>1 DEF Forward
  <2>3. Executing' /\ InPlace'
    BY <2>1, <2>2, StartKeepsExecuting, RowKeepsExecuting, FinishKeepsExecuting, InPlaceKept
  <2>4. total_cycles' \in Nat
    BY <2>3 DEF Executing
  <2>5. QED
    BY <1>1, <2>1, <2>3, <2>4 DEF Forward
<1>6. CASE DriverStep
  <2>1. pc = "driver" /\ pc' = pc /\ UNCHANGED <<s, matrixVars, executeVars, pipeVars, runnerVars>>
    BY <1>6 DEF DriverStep
  <2>2. Idle' /\ total_cycles' \in Nat /\ InPlace'
    BY <2>1, IdleKept, InPlaceKept DEF Forward, executeVars
  <2>3. QED
    BY <1>1, <2>1, <2>2 DEF Forward
<1>7. CASE RunnerStep
  <2>1. /\ Runner /\ pc' = pc
        /\ UNCHANGED <<s, matrixVars, executeVars>>
    BY <1>7 DEF RunnerStep
  <2>2. CASE pc = "execute"
    <3>1. Executing /\ InPlace
      BY <2>2 DEF Forward
    <3>2. UNCHANGED <<hpc, Ct, C, schedule, total_cycles, matrixVars>>
      BY <2>1 DEF executeVars
    <3>3. Executing'
      BY <2>1, <3>1, <3>2, RunnerKeepsExecuting
    <3>4. InPlace' /\ total_cycles' \in Nat
      BY <2>1, <3>1, <3>3, InPlaceKept DEF Executing
    <3>5. QED
      BY <1>1, <2>1, <2>2, <3>3, <3>4 DEF Forward
  <2>3. CASE pc # "execute"
    <3>1. Idle
      BY <2>3 DEF Forward
    <3>2. Exit
      BY <2>1, <3>1 DEF Runner, Idle, ReadRequest, ResetTick, LoadTick, StreamTick, Write
    <3>3. Idle' /\ total_cycles' \in Nat
      BY <2>1, <3>1, <3>2 DEF Exit, Idle, pipeVars, executeVars, Forward
    <3>4. pc \in {"execute", "driver"} => InPlace'
      BY <2>1, InPlaceKept DEF Forward
    <3>5. QED
      BY <1>1, <2>1, <2>3, <3>3, <3>4 DEF Forward
  <2>4. QED
    BY <2>2, <2>3
<1>8. CASE \E a \in Acc : MlpActivation(a)
  <2>1. pc = "driver" /\ pc' = "returned" /\ UNCHANGED <<executeVars, pipeVars, runnerVars>>
    BY <1>8 DEF MlpActivation
  <2>2. Idle' /\ total_cycles' \in Nat
    BY <2>1, IdleKept DEF Forward, executeVars
  <2>3. QED
    BY <1>1, <2>1, <2>2 DEF Forward
<1>9. CASE \E a \in Acc : ConvOutput(a)
  <2>1. /\ pc = "execute" /\ Executed /\ pc' = "relu" /\ hpc' = "idle"
        /\ UNCHANGED <<total_cycles, pipeVars, runnerVars>>
    BY <1>9 DEF ConvOutput
  <2>2. Executing /\ total_cycles \in Nat
    BY <2>1 DEF Forward
  <2>3. AtRest /\ closed = FALSE
    BY <2>1, <2>2 DEF Executing, Executed
  <2>4. Idle'
    BY <2>1, <2>3 DEF AtRest, Idle, pipeVars, runnerVars
  <2>5. QED
    BY <1>1, <2>1, <2>2, <2>4 DEF Forward
<1>10. CASE ReLU \/ MaxPool \/ Flatten
  <2>1. pc \in {"relu", "pool", "flatten"} /\ pc' \in {"pool", "flatten", "close"}
        /\ UNCHANGED <<executeVars, pipeVars, runnerVars>>
    <3>1. CASE ReLU
      BY <3>1, Zenon DEF ReLU
    <3>2. CASE MaxPool
      BY <3>2, Zenon DEF MaxPool
    <3>3. CASE Flatten
      BY <3>3, Zenon DEF Flatten
    <3>4. QED
      BY <1>10, <3>1, <3>2, <3>3
  <2>2. Idle' /\ total_cycles' \in Nat
    BY <2>1, IdleKept DEF Forward, executeVars
  <2>3. QED
    BY <1>1, <2>1, <2>2 DEF Forward
<1>11. CASE Close
  <2>1. /\ pc \in {"close", "wait"} /\ pc' \in {"wait", "returned"}
        /\ closed' = TRUE \/ closed' = closed
        /\ UNCHANGED <<executeVars, to_runner, to_host, runnerVars>>
    BY <1>11 DEF Close
  <2>2. Idle' /\ total_cycles' \in Nat
    <3>1. Idle /\ total_cycles \in Nat
      BY <2>1 DEF Forward
    <3>2. /\ UNCHANGED <<hpc, to_runner, to_host, edges, total_cycles, rpc>>
      BY <2>1 DEF executeVars, runnerVars
    <3>3. CASE closed' = TRUE
      BY <2>1, <3>1, <3>2, <3>3 DEF Idle
    <3>4. CASE closed' = closed
      BY <2>1, <3>1, <3>2, <3>4 DEF Idle
    <3>5. QED
      BY <2>1, <3>3, <3>4
  <2>3. QED
    BY <1>1, <2>1, <2>2 DEF Forward
<1>12. CASE UNCHANGED vars
  <2>1. UNCHANGED <<pc, s, matrixVars, executeVars, pipeVars, runnerVars>>
    BY <1>12 DEF vars
  <2>2. Idle => Idle'
    BY <2>1 DEF Idle, executeVars, pipeVars, runnerVars
  <2>3. Executing => Executing'
    <3>1. UNCHANGED <<M, K, N, A, W, total_cycles, closed, schedule, C, hpc, rpc, to_runner,
                      to_host, edges, Ct, req, tick, results, weight, act, psum>>
      BY <2>1 DEF matrixVars, executeVars, pipeVars, runnerVars, arrayVars
    <3>2. /\ n_nt' = n_nt /\ n_kt' = n_kt /\ Matrices' = Matrices /\ Request' = Request
          /\ Ticks' = Ticks
      BY <3>1 DEF n_nt, n_kt, Matrices, Request, Ticks, Job, WTile, ATile, PadTile
    <3>3. Lines' = Lines /\ \A run : Progress(run)' = Progress(run)
      BY <3>1, <3>2 DEF Lines, LaneSum, TileSum, Job, Progress, Jobs, Share, Golden
    <3>4. AtRest' = AtRest /\ Asked' = Asked /\ \A d : Answered(d)' = Answered(d)
      BY <3>1, <3>2, <3>3 DEF AtRest, Asked, Answered
    <3>5. Wavefront' = Wavefront
      BY <3>1 DEF Wavefront, Fed, Summed, LaneSum, TileSum, Job, WTile, ATile, PadTile, Ticks
    <3>6. Working' = Working
      BY <3>1, <3>2, <3>5 DEF Working
    <3>7. QED
      BY <3>1, <3>2, <3>3, <3>4, <3>6 DEF Executing
  <2>4. (InPlace => InPlace') /\ total_cycles' \in Nat
    BY <2>1, InPlaceKept DEF Forward, executeVars
  <2>5. QED
    BY <1>1, <2>1, <2>2, <2>3, <2>4 DEF Forward
<1>13. QED
  BY <1>2, <1>3, <1>4, <1>5, <1>6, <1>7, <1>8, <1>9, <1>10, <1>11, <1>12 DEF Next

LEMMA SpecForward == Spec => []Forward
<1>1. QED
  BY InitForward, ForwardStep, PTL DEF Spec

(* The array computes the product of execute: whatever job it stands at,   *)
(* and for matrices of any size, each column holds exactly the products of *)
(* the K-tiles run for it, in order, the padding holds nothing, and the    *)
(* cycles added up are the clock edges the array was given.                *)
THEOREM ProductIsGolden == Spec => []ExecuteIsGolden
<1>1. Forward => ExecuteIsGolden
  <2>1. ASSUME Forward, pc # "execute" PROVE ExecuteIsGolden
    BY <2>1 DEF Forward, Idle, ExecuteIsGolden
  <2>2. QED
    BY <2>1, ExecutingIsGolden DEF Forward
<1>2. QED
  BY <1>1, SpecForward, PTL

-------------------------------------------------------------------------------
(* Convolution and pooling.                                                *)

\* Three indices made one.
Index(p, b, q, c, r) == (p * b + q) * c + r

Apart(i, a, b, c, p, q, r) ==
    /\ i \in 0..(a * b * c - 1)
    /\ i \div (b * c) = p /\ (i \div c) % b = q /\ i % c = r

(* They can be taken apart again.                                          *)
LEMMA IndexApart ==
    ASSUME NEW a \in Nat \ {0}, NEW b \in Nat \ {0}, NEW c \in Nat \ {0},
           NEW p \in 0..(a - 1), NEW q \in 0..(b - 1), NEW r \in 0..(c - 1)
    PROVE  Apart(Index(p, b, q, c, r), a, b, c, p, q, r)
<1> DEFINE i == (p * b + q) * c + r
<1>1. p \in Nat /\ q \in Nat /\ r \in Nat /\ a * b \in Nat /\ b * c \in Nat \ {0}
  BY Times
<1>2. p * b + q \in 0..(a * b - 1)
  BY Flat
<1>3. i \in 0..((a * b) * c - 1)
  BY <1>1, <1>2, Flat
<1>4. i \div c = p * b + q /\ i % c = r
  BY <1>1, <1>2, QuotientUnique
<1>5. (p * b + q) % b = q
  BY <1>1, QuotientUnique
<1>6. i = p * (b * c) + (q * c + r)
  BY <1>1, Z3
<1>7. q * c + r \in 0..(b * c - 1)
  BY Flat
<1>8. (p * (b * c) + (q * c + r)) \div (b * c) = p
  <2> DEFINE t == q * c + r
             d == b * c
  <2>1. d \in Nat \ {0} /\ t \in 0..(d - 1)
    BY <1>1, <1>7
  <2> HIDE DEF t, d
  <2>2. (p * d + t) \div d = p
    BY <1>1, <2>1, QuotientUnique
  <2>3. QED
    BY <2>2 DEF t, d
<1>9. QED
  BY <1>3, <1>4, <1>5, <1>6, <1>8 DEF Index, Apart

(* The product of the finished execute, at the row of an output.           *)
LEMMA ProductIsDirect ==
    ASSUME InPlace, Executing, Executed,
           NEW n \in Below(s.n), NEW co \in Below(s.co), NEW i \in Below(OH), NEW j \in Below(OW)
    PROVE  C[(n * OH + i) * OW + j][co] = Direct(n, co, i, j)
<1> DEFINE row == (n * OH + i) * OW + j
<1>0. s \in Shapes /\ Matrices
  BY DEF InPlace, Executing
<1>1. /\ row \in 0..(s.n * OH * OW - 1)
      /\ row \div (OH * OW) = n /\ (row \div OW) % OH = i /\ row % OW = j
  <2>1. n \in 0..(s.n - 1) /\ i \in 0..(OH - 1) /\ j \in 0..(OW - 1)
    BY DEF Below
  <2>2. s.n \in Nat \ {0} /\ OH \in Nat \ {0} /\ OW \in Nat \ {0}
    BY <1>0, Shape
  <2>3. row = Index(n, OH, i, OW, j)
    BY DEF Index
  <2>4. Apart(Index(n, OH, i, OW, j), s.n, OH, OW, n, i, j)
    BY <2>1, <2>2, IndexApart
  <2> HIDE DEF row
  <2>5. QED
    BY <2>3, <2>4 DEF Apart
<1> HIDE DEF row
<1>2. row \in 0..(M - 1) /\ co \in 0..(N - 1) /\ row \in Below(M)
  BY <1>1 DEF InPlace, Below
<1>3. PICK run \in 0..(n_nt * n_kt) : Progress(run)
  BY DEF Executing
<1>4. run = n_nt * n_kt
  <2>1. n_nt * n_kt - run \in Nat
    BY <1>0, <1>3, Tiles
  <2>2. Len(schedule) = n_nt * n_kt - run
    BY <1>3, <2>1 DEF Progress
  <2>3. Len(schedule) = 0
    BY DEF Executed
  <2> DEFINE t == n_nt * n_kt
  <2>4. t \in Nat /\ run \in 0..t /\ t - run = 0
    BY <1>0, <1>3, <2>2, <2>3, Tiles
  <2> HIDE DEF t
  <2>5. run = t
    BY <2>4
  <2>6. QED
    BY <2>5 DEF t
<1>5. /\ co \in 0..(n_nt * TILE - 1) /\ co < N /\ co \div TILE \in 0..(n_nt - 1)
      /\ TILE \in Nat \ {0} /\ n_kt * TILE \in Nat /\ K <= n_kt * TILE /\ K \in Nat /\ N \in Nat
  <2>1. TILE \in Nat \ {0} /\ n_kt \in Nat /\ n_nt \in Nat /\ K <= n_kt * TILE /\ N <= n_nt * TILE
        /\ K \in Nat /\ N \in Nat
    BY <1>0, Tiles DEF Matrices
  <2>2. n_kt * TILE \in Nat /\ n_nt * TILE \in Nat
    BY <2>1, Times
  <2>3. co \in 0..(n_nt * TILE - 1)
    BY <1>2, <2>1, <2>2
  <2>4. co \div TILE \in 0..(n_nt - 1)
    BY <2>1, <2>3, Unflat
  <2>5. co < N
    BY <1>2, <2>1
  <2>6. QED
    BY <2>1, <2>2, <2>3, <2>4, <2>5
<1>6. C[row][co] = Golden(row, co, SmallerOf(K, Share(run, co \div TILE) * TILE))
  BY <1>2, <1>3, <1>5 DEF Progress
<1>7. Share(run, co \div TILE) = n_kt
  BY <1>0, <1>4, <1>5, ShareEnds
<1>8. SmallerOf(K, n_kt * TILE) = K
  BY <1>5 DEF SmallerOf
<1>9. C[row][co] = Golden(row, co, K)
  BY <1>6, <1>7, <1>8
<1>10. ASSUME NEW k \in 1..K
       PROVE  /\ A[row][k - 1] = x(n, Patch(k - 1)[1], i + Patch(k - 1)[2], j + Patch(k - 1)[3])
              /\ W[k - 1][co] = W_i8(k - 1, co)
  <2>1. k - 1 \in Below(K) /\ co \in Below(N)
    BY <1>2, <1>5 DEF Below
  <2>2. A[row][k - 1] = Patched(row, k - 1) /\ W[k - 1][co] = W_i8(k - 1, co)
    BY <1>2, <2>1 DEF InPlace
  <2>3. QED
    BY <1>1, <2>2 DEF Patched, RowPlace
<1>11. K = s.c * s.kh * s.kw
  BY DEF InPlace
<1>12. Golden(row, co, K) = Direct(n, co, i, j)
  BY <1>10, <1>11 DEF Golden, Direct, Patch, W_i8
<1>13. QED
  BY <1>9, <1>12 DEF row

Even == OH % 2 = 0 /\ OW % 2 = 0
PH == OH \div 2
PW == OW \div 2

\* The maximum over window (i, j), as the set of its elements.
Pooled(n, co, i, j) ==
    {Direct(n, co, h, w) : h \in (2 * i)..(2 * i + 1), w \in (2 * j)..(2 * j + 1)}

IsDirect(o) ==
    \A n \in Below(s.n), co \in Below(s.co), i \in Below(OH), j \in Below(OW) :
        o[n][co][i][j] = Direct(n, co, i, j)
IsPooled(p) ==
    \A n \in Below(s.n), co \in Below(s.co), i \in Below(PH), j \in Below(PW) :
        p[n][co][i][j] = Pooled(n, co, i, j)
IsFlat(f) ==
    \A n \in Below(s.n), co \in Below(s.co), i \in Below(PH), j \in Below(PW) :
        f[n][Index(co, PH, i, PW, j)] = Pooled(n, co, i, j)

Output ==
    /\ pc \in {"relu", "pool", "flatten", "close"} => IsDirect(out)
    /\ pc \in {"pool", "flatten"} => Even
    /\ pc = "flatten" => IsPooled(pool)
    /\ pc = "close" /\ Even => IsFlat(feat)

LEMMA SameShape ==
    ASSUME s' = s
    PROVE  /\ OH' = OH /\ OW' = OW /\ PH' = PH /\ PW' = PW /\ Even' = Even
           /\ \A n, co, i, j : Direct(n, co, i, j)' = Direct(n, co, i, j)
           /\ \A n, co, i, j : Pooled(n, co, i, j)' = Pooled(n, co, i, j)
<1>1. OH' = OH /\ OW' = OW /\ PH' = PH /\ PW' = PW /\ Even' = Even
  BY DEF OH, OW, PH, PW, Even
<1>2. \A n, co, i, j : Direct(n, co, i, j)' = Direct(n, co, i, j)
  BY <1>1 DEF Direct, x, Kernel
<1>3. \A n, co, i, j : Pooled(n, co, i, j)' = Pooled(n, co, i, j)
  BY <1>2 DEF Pooled
<1>4. QED
  BY <1>1, <1>2, <1>3

LEMMA OutputKept ==
    ASSUME Output, UNCHANGED <<s, out, pool, feat>>,
           pc' = pc \/ pc' \notin {"relu", "pool", "flatten", "close"}
    PROVE  Output'
<1>1. /\ IsDirect(out)' = IsDirect(out) /\ IsPooled(pool)' = IsPooled(pool)
      /\ IsFlat(feat)' = IsFlat(feat)
  BY SameShape DEF IsDirect, IsPooled, IsFlat
<1>2. QED
  BY <1>1, SameShape DEF Output

LEMMA WindowIsPooled ==
    ASSUME s \in Shapes, IsDirect(out),
           NEW n \in Below(s.n), NEW co \in Below(s.co), NEW i \in Below(PH), NEW j \in Below(PW)
    PROVE  {out[n][co][2 * i + a][2 * j + b] : a \in {0, 1}, b \in {0, 1}} = Pooled(n, co, i, j)
<1>1. OH \in Nat \ {0} /\ OW \in Nat \ {0}
  BY Shape
<1>2. /\ i \in Nat /\ 2 * i + 1 \in Below(OH) /\ 2 * i \in Below(OH)
      /\ j \in Nat /\ 2 * j + 1 \in Below(OW) /\ 2 * j \in Below(OW)
  BY <1>1 DEF PH, PW, Below
<1>3. /\ out[n][co][2 * i][2 * j] = Direct(n, co, 2 * i, 2 * j)
      /\ out[n][co][2 * i][2 * j + 1] = Direct(n, co, 2 * i, 2 * j + 1)
      /\ out[n][co][2 * i + 1][2 * j] = Direct(n, co, 2 * i + 1, 2 * j)
      /\ out[n][co][2 * i + 1][2 * j + 1] = Direct(n, co, 2 * i + 1, 2 * j + 1)
  BY <1>2 DEF IsDirect
<1> DEFINE S == {Direct(n, co, 2 * i, 2 * j), Direct(n, co, 2 * i, 2 * j + 1),
                 Direct(n, co, 2 * i + 1, 2 * j), Direct(n, co, 2 * i + 1, 2 * j + 1)}
           T == {out[n][co][2 * i + a][2 * j + b] : a \in {0, 1}, b \in {0, 1}}
<1>4. T = {out[n][co][2 * i][2 * j], out[n][co][2 * i][2 * j + 1],
           out[n][co][2 * i + 1][2 * j], out[n][co][2 * i + 1][2 * j + 1]}
  <2>1. 2 * i + 0 = 2 * i /\ 2 * j + 0 = 2 * j
    BY <1>2
  <2>2. QED
    BY <2>1
<1>5. Pooled(n, co, i, j) = S
  <2>1. (2 * i)..(2 * i + 1) = {2 * i, 2 * i + 1} /\ (2 * j)..(2 * j + 1) = {2 * j, 2 * j + 1}
    <3>1. ASSUME NEW t \in Nat PROVE t..(t + 1) = {t, t + 1}
      OBVIOUS
    <3>2. 2 * i \in Nat /\ 2 * j \in Nat
      BY <1>2
    <3>3. QED
      BY <3>1, <3>2
  <2>2. Pooled(n, co, i, j) = {Direct(n, co, h, w) : h \in {2 * i, 2 * i + 1},
                                                     w \in {2 * j, 2 * j + 1}}
    BY <2>1 DEF Pooled
  <2>3. QED
    BY <2>2
<1>6. QED
  BY <1>3, <1>4, <1>5

LEMMA OutputStep == Forward /\ Output /\ [Next]_vars => Output'
<1> SUFFICES ASSUME Forward, Output, [Next]_vars PROVE Output'
  OBVIOUS
<1>1. s \in Shapes
  BY DEF Forward, Layout
<1>2. CASE \E a \in Acc : ConvOutput(a)
  <2>1. /\ pc = "execute" /\ Executed /\ pc' = "relu" /\ s' = s
        /\ out' = [n \in Below(s.n) |-> [co \in Below(s.co) |->
                      [i \in Below(OH) |-> [j \in Below(OW) |-> C[(n * OH + i) * OW + j][co]]]]]
    BY <1>2 DEF ConvOutput
  <2>2. InPlace /\ Executing
    BY <2>1 DEF Forward
  <2>3. \A n \in Below(s.n), co \in Below(s.co), i \in Below(OH), j \in Below(OW) :
            out'[n][co][i][j] = Direct(n, co, i, j)
    BY <2>1, <2>2, ProductIsDirect
  <2>4. IsDirect(out)'
    BY <2>1, <2>3, SameShape DEF IsDirect
  <2>5. QED
    BY <2>1, <2>4 DEF Output
<1>3. CASE ReLU
  <2>1. /\ pc = "relu" /\ s' = s /\ out' = out
        /\ pc' = IF Even THEN "pool" ELSE "close"
    BY <1>3 DEF ReLU, layoutVars, Even
  <2>2. IsDirect(out)'
    BY <2>1, SameShape DEF Output, IsDirect
  <2>3. QED
    BY <2>1, <2>2, SameShape DEF Output
<1>4. CASE MaxPool
  <2>1. /\ pc = "pool" /\ s' = s /\ out' = out /\ pc' = "flatten"
        /\ pool' = [n \in Below(s.n) |-> [co \in Below(s.co) |->
                       [i \in Below(PH) |-> [j \in Below(PW) |->
                           {out[n][co][2 * i + a][2 * j + b] : a \in {0, 1}, b \in {0, 1}}]]]]
    <3>1. UNCHANGED <<s, out>> /\ pc = "pool" /\ pc' = "flatten"
      BY <1>4 DEF MaxPool
    <3>2. pool' = [n \in Below(s.n) |-> [co \in Below(s.co) |->
                     [i \in Below(PH) |-> [j \in Below(PW) |->
                         {out[n][co][2 * i + a][2 * j + b] : a \in {0, 1}, b \in {0, 1}}]]]]
      BY <1>4 DEF MaxPool, PH, PW, Window
    <3>3. QED
      BY <3>1, <3>2
  <2>2. IsDirect(out) /\ IsDirect(out)' /\ Even'
    BY <2>1, SameShape DEF Output, IsDirect
  <2>3. ASSUME NEW n \in Below(s.n), NEW co \in Below(s.co), NEW i \in Below(PH), NEW j \in Below(PW)
        PROVE  pool'[n][co][i][j] = Pooled(n, co, i, j)
    <3> DEFINE T(p, c, h, w) == {out[p][c][2 * h + a][2 * w + b] : a \in {0, 1}, b \in {0, 1}}
    <3>1. T(n, co, i, j) = Pooled(n, co, i, j)
      BY <1>1, <2>2, WindowIsPooled
    <3>2. pool' = [p \in Below(s.n) |-> [c \in Below(s.co) |->
                      [h \in Below(PH) |-> [w \in Below(PW) |-> T(p, c, h, w)]]]]
      BY <2>1
    <3> HIDE DEF T
    <3>3. QED
      BY <3>1, <3>2
  <2>4. IsPooled(pool)'
    BY <2>1, <2>3, SameShape DEF IsPooled
  <2>5. QED
    BY <2>1, <2>2, <2>4 DEF Output
<1>5. CASE Flatten
  <2>1. /\ pc = "flatten" /\ s' = s /\ out' = out /\ pc' = "close"
        /\ feat' = [n \in Below(s.n) |-> [f \in Below(s.co * PH * PW) |->
                       pool[n][f \div (PH * PW)][(f \div PW) % PH][f % PW]]]
    BY <1>5, Zenon DEF Flatten, PH, PW
  <2>2. IsDirect(out)' /\ IsPooled(pool)
    BY <2>1, SameShape DEF Output, IsDirect
  <2>3. ASSUME NEW n \in Below(s.n), NEW co \in Below(s.co), NEW i \in Below(PH), NEW j \in Below(PW)
        PROVE  feat'[n][Index(co, PH, i, PW, j)] = Pooled(n, co, i, j)
    <3> DEFINE f == Index(co, PH, i, PW, j)
    <3>1. co \in 0..(s.co - 1) /\ i \in 0..(PH - 1) /\ j \in 0..(PW - 1)
      BY DEF Below
    <3>2. s.co \in Nat \ {0} /\ PH \in Nat \ {0} /\ PW \in Nat \ {0}
      <4>1. OH \in Nat /\ OW \in Nat /\ s.co \in Nat \ {0}
        BY <1>1, Shape
      <4>2. PH \in Nat /\ PW \in Nat
        BY <4>1 DEF PH, PW
      <4>3. QED
        BY <3>1, <4>1, <4>2
    <3>3. Apart(f, s.co, PH, PW, co, i, j)
      BY <3>1, <3>2, IndexApart
    <3> HIDE DEF f
    <3>4. f \in Below(s.co * PH * PW)
      BY <3>3 DEF Apart, Below
    <3>5. feat'[n][f] = pool[n][co][i][j]
      BY <2>1, <3>3, <3>4 DEF Apart
    <3>6. QED
      BY <2>2, <3>5 DEF IsPooled, f
  <2>4. IsFlat(feat)'
    <3>1. s' = s /\ PH' = PH /\ PW' = PW
      BY <2>1, SameShape
    <3>2. \A n, co, i, j : Pooled(n, co, i, j)' = Pooled(n, co, i, j)
                         /\ Index(co, PH, i, PW, j)' = Index(co, PH, i, PW, j)
      BY <2>1, <3>1, SameShape DEF Index
    <3>3. QED
      BY <2>3, <3>1, <3>2 DEF IsFlat
  <2>5. QED
    BY <2>1, <2>2, <2>4 DEF Output
<1>6. CASE \/ Quantize \/ Im2colStep \/ CallExecute \/ CallDriver
  <2>1. UNCHANGED <<s, out, pool, feat>> /\ pc' \notin {"relu", "pool", "flatten", "close"}
    BY <1>6 DEF Quantize, Im2colStep, CallExecute, CallDriver, layoutVars
  <2>2. QED
    BY <2>1, OutputKept
<1>7. CASE ExecuteStep \/ DriverStep \/ RunnerStep \/ UNCHANGED vars
  <2>1. UNCHANGED <<s, out, pool, feat>> /\ pc' = pc
    BY <1>7 DEF ExecuteStep, DriverStep, RunnerStep, vars, layoutVars
  <2>2. QED
    BY <2>1, OutputKept
<1>8. CASE Close \/ \E a \in Acc : MlpActivation(a)
  <2>1. UNCHANGED <<s, out, pool, feat>> /\ pc' \notin {"relu", "pool", "flatten", "close"}
    BY <1>8 DEF Close, MlpActivation, layoutVars
  <2>2. QED
    BY <2>1, OutputKept
<1>9. QED
  BY <1>2, <1>3, <1>4, <1>5, <1>6, <1>7, <1>8 DEF Next

(* Convolution by im2col on the array is the convolution, for every shape: *)
(* each output sums the products of the window under it, in its place, and *)
(* the features are the maxima over its 2 x 2 windows, in order.           *)
THEOREM OutputIsDirect == Spec => []ConvIsDirect
<1>1. Init => Output
  BY DEF Init, Output
<1>2. Forward /\ Output => ConvIsDirect
  BY DEF Output, ConvIsDirect, IsDirect, IsFlat, Pooled, Even, PH, PW, Index
<1>3. QED
  BY <1>1, <1>2, SpecForward, OutputStep, PTL DEF Spec

-------------------------------------------------------------------------------
(* The C driver.                                                           *)

\* What defines the sums of TileProduct.
SumsOver(f, At, Wt, m, n) ==
    f = [i \in 0..TILE |-> IF i = 0 THEN <<>> ELSE Mac(f[i - 1], At[m][i - 1], Wt[i - 1][n])]

LEMMA TileProductIsSum ==
    ASSUME NEW At, NEW Wt, NEW m, NEW n
    PROVE  TileProduct(At, Wt, m, n) = (CHOOSE f : SumsOver(f, At, Wt, m, n))[TILE]
BY DEF TileProduct, SumsOver

(* The sums are what any closed form of them says.                         *)
LEMMA SumsAre ==
    ASSUME NEW At, NEW Wt, NEW m, NEW n, NEW g, SumsOver(g, At, Wt, m, n)
    PROVE  TileProduct(At, Wt, m, n) = g[TILE]
<1>0. TILE \in Nat \ {0}
  BY TileAssumption
<1>2. \A i \in 0..TILE : g[i] = IF i = 0 THEN <<>> ELSE Mac(g[i - 1], At[m][i - 1], Wt[i - 1][n])
  BY DEF SumsOver
<1> DEFINE f == CHOOSE h : SumsOver(h, At, Wt, m, n)
<1>4. SumsOver(f, At, Wt, m, n)
  OBVIOUS
<1> HIDE DEF f
<1>5. \A i \in 0..TILE : f[i] = IF i = 0 THEN <<>> ELSE Mac(f[i - 1], At[m][i - 1], Wt[i - 1][n])
  BY <1>4 DEF SumsOver
<1> DEFINE T == {i \in 0..TILE : f[i] # g[i]}
<1>6. T = {}
  <2>1. SUFFICES ASSUME T # {} PROVE FALSE
    OBVIOUS
  <2>2. T \in SUBSET Nat
    OBVIOUS
  <2>3. PICK i \in T : \A k \in T : i <= k
    BY <2>1, <2>2, LeastNumber
  <2>4. i \in 0..TILE /\ f[i] # g[i] /\ i # 0
    BY <1>0, <1>2, <1>5, <2>3
  <2>5. i - 1 \in 0..TILE /\ i - 1 \notin T
    BY <1>0, <2>3, <2>4
  <2>6. f[i - 1] = g[i - 1]
    BY <2>5
  <2>7. QED
    BY <1>2, <1>5, <2>4, <2>6
<1>7. f[TILE] = g[TILE]
  BY <1>0, <1>6
<1>8. QED
  BY <1>7, TileProductIsSum DEF f

(* What is packed is the tile, and its product the tile's sums.            *)
LEMMA PackedTiles ==
    ASSUME Matrices, NEW kt \in 0..(n_kt - 1), NEW nt \in 0..(n_nt - 1),
           m0 \in Nat, m0 < M, NEW m \in 0..(mc - 1), NEW j \in Lane
    PROVE  /\ m0 + m \in 0..(M - 1)
           /\ TileProduct(pack_atile(kt), pack_wtile(kt, nt), m, j)
                  = TileSum(m0 + m, nt * TILE + j, kt, TILE)
<1>1. /\ TILE \in Nat \ {0} /\ M \in Nat \ {0} /\ K \in Nat \ {0} /\ N \in Nat \ {0}
      /\ MAX_ROWS \in Nat \ {0} /\ kt * TILE \in Nat /\ nt \in Nat /\ n_nt \in Nat
  BY Tiles, MaxRowsAssumption DEF Matrices
<1>2. nt * TILE \in Nat
  BY <1>1, Times
<1>3. j \in 0..(TILE - 1)
  BY DEF Lane
<1> DEFINE row == m0 + m
           c == nt * TILE + j
           b == kt * TILE
<1>4. row \in 0..(M - 1) /\ c \in Nat
  BY <1>1, <1>2, <1>3 DEF mc, SmallerOf
<1> HIDE DEF row, c
<1>5. ASSUME NEW r \in Lane
      PROVE  pack_atile(kt)[m][r] = IF b + r < K THEN A[row][b + r] ELSE Zero
  <2>1. pack_atile(kt)[m][r] = IF row < M /\ b + r < K THEN FlatA(row * K + (b + r)) ELSE Zero
    BY DEF pack_atile, row
  <2>2. CASE b + r < K
    <3> DEFINE k == b + r
    <3>1. k \in 0..(K - 1)
      BY <1>1, <2>2 DEF Lane
    <3> HIDE DEF k
    <3>2. row * K + k \in 0..(M * K - 1)
      BY <1>1, <1>4, <3>1, Flat
    <3>3. (row * K + k) \div K = row /\ (row * K + k) % K = k
      BY <1>1, <1>4, <3>1, QuotientUnique
    <3>4. row * K + k < M * K
      <4>1. M * K \in Nat
        BY <1>1, Times
      <4>2. QED
        BY <3>2, <4>1
    <3>5. FlatA(row * K + k) = A[row][k]
      BY <3>3, <3>4 DEF FlatA
    <3>6. QED
      BY <1>1, <1>4, <2>1, <2>2, <3>5 DEF k
  <2>3. QED
    BY <2>1, <2>2
<1>6. ASSUME NEW r \in Lane
      PROVE  pack_wtile(kt, nt)[r][j] = IF b + r < K /\ c < N THEN W[b + r][c] ELSE Zero
  <2>1. pack_wtile(kt, nt)[r][j] = IF b + r < K /\ c < N THEN FlatW((b + r) * N + c) ELSE Zero
    BY DEF pack_wtile, c
  <2>2. CASE b + r < K /\ c < N
    <3> DEFINE k == b + r
    <3>1. k \in 0..(K - 1) /\ c \in 0..(N - 1)
      BY <1>1, <1>4, <2>2 DEF Lane
    <3> HIDE DEF k
    <3>2. k * N + c \in 0..(K * N - 1) /\ K * N \in Nat
      BY <1>1, <3>1, Flat, Times
    <3>3. (k * N + c) \div N = k /\ (k * N + c) % N = c
      BY <1>1, <3>1, QuotientUnique
    <3>4. k * N + c < K * N
      BY <3>2
    <3>5. FlatW(k * N + c) = W[k][c]
      BY <3>3, <3>4 DEF FlatW
    <3>6. QED
      BY <2>1, <2>2, <3>5 DEF k
  <2>3. QED
    BY <2>1, <2>2
<1> DEFINE g == [i \in 0..TILE |-> TileSum(row, c, kt, i)]
<1>7. g[0] = <<>>
  <2>1. TileSum(row, c, kt, 0) = <<>>
    BY NoLaneYet
  <2>2. QED
    BY <1>1, <2>1
<1>8. ASSUME NEW r \in Lane
      PROVE  g[r + 1] = Mac(g[r], pack_atile(kt)[m][r], pack_wtile(kt, nt)[r][j])
  <2>1. r + 1 \in 0..TILE /\ r \in 0..TILE
    BY <1>1 DEF Lane
  <2>2. TileSum(row, c, kt, r + 1) =
            Mac(TileSum(row, c, kt, r), IF b + r < K THEN A[row][b + r] ELSE Zero,
                IF b + r < K /\ c < N THEN W[b + r][c] ELSE Zero)
    BY <1>4, LaneAdds
  <2>3. g[r] = TileSum(row, c, kt, r) /\ g[r + 1] = TileSum(row, c, kt, r + 1)
    BY <2>1
  <2> HIDE DEF g
  <2>4. QED
    BY <1>5, <1>6, <2>2, <2>3
<1> DEFINE At == pack_atile(kt)
           Wt == pack_wtile(kt, nt)
           S == {TileSum(row, c, kt, i) : i \in 0..TILE}
<1>9. g \in [0..TILE -> S] /\ g[TILE] = TileSum(row, c, kt, TILE)
  BY <1>1
<1> HIDE DEF g, b, S, At, Wt
<1>10. \A i \in 0..TILE : g[i] = IF i = 0 THEN <<>> ELSE Mac(g[i - 1], At[m][i - 1], Wt[i - 1][j])
  <2>1. \A i \in 0..TILE : i # 0 => i - 1 \in Lane /\ (i - 1) + 1 = i
    BY <1>1 DEF Lane
  <2>2. \A r \in Lane : g[r + 1] = Mac(g[r], At[m][r], Wt[r][j])
    BY <1>8 DEF At, Wt
  <2>3. QED
    BY <1>7, <2>1, <2>2
<1>11. SumsOver(g, At, Wt, m, j)
  BY <1>9, <1>10 DEF SumsOver
<1>12. TileProduct(At, Wt, m, j) = g[TILE]
  BY <1>11, SumsAre
<1>13. QED
  BY <1>4, <1>9, <1>12 DEF row, c, At, Wt

\* The rows before the block are done; those of the block hold the tiles collected.
Driving ==
    /\ Matrices /\ m0 \in Nat /\ tile \in 0..(n_nt * n_kt)
    /\ DOMAIN flatC = 0..(M * N - 1)
    /\ \A i \in 0..(M * N - 1) :
           /\ i \div N < m0 => flatC[i] = Golden(i \div N, i % N, K)
           /\ i \div N \in m0..(m0 + MAX_ROWS - 1) =>
                  flatC[i] = Golden(i \div N, i % N,
                                    SmallerOf(K, Share(tile, (i % N) \div TILE) * TILE))

LEMMA PlaceInC ==
    ASSUME Matrices, NEW i \in 0..(M * N - 1)
    PROVE  /\ i \div N \in 0..(M - 1) /\ i % N \in 0..(N - 1)
           /\ (i % N) \div TILE \in 0..(n_nt - 1) /\ ((i % N) % TILE) \in Lane
           /\ i % N = ((i % N) \div TILE) * TILE + ((i % N) % TILE)
<1>1. /\ M \in Nat /\ N \in Nat \ {0} /\ TILE \in Nat \ {0} /\ n_nt \in Nat /\ N <= n_nt * TILE
      /\ n_nt * TILE \in Nat
  BY Tiles, Times DEF Matrices
<1>2. i \div N \in 0..(M - 1) /\ (i % N) \in 0..(N - 1)
  BY <1>1, Unflat
<1> DEFINE c == i % N
<1>3. c \in 0..(n_nt * TILE - 1)
  BY <1>1, <1>2
<1> HIDE DEF c
<1>4. /\ c \div TILE \in 0..(n_nt - 1) /\ (c % TILE) \in 0..(TILE - 1)
      /\ c = (c \div TILE) * TILE + (c % TILE)
  BY <1>1, <1>3, Unflat
<1>5. QED
  BY <1>2, <1>4 DEF c, Lane

\* coproc_matmul_tiled has just been called.
Entered ==
    /\ Matrices /\ m0 = 0 /\ tile = 0
    /\ flatC = [i \in 0..(M * N - 1) |-> IF i \div N < MAX_ROWS THEN <<>> ELSE <<"uninitialised">>]

LEMMA NothingYet ==
    ASSUME Matrices, NEW m, NEW c, NEW nt \in 0..(n_nt - 1)
    PROVE  Golden(m, c, SmallerOf(K, Share(0, nt) * TILE)) = <<>>
<1>1. Share(0, nt) = 0 /\ 0 * TILE = 0 /\ K \in Nat \ {0}
  BY ShareEnds, Tiles, Times DEF Matrices
<1>2. SmallerOf(K, 0) = 0
  BY <1>1 DEF SmallerOf
<1>3. Golden(m, c, 0) = <<>>
  BY DEF Golden
<1>4. QED
  BY <1>1, <1>2, <1>3

LEMMA AllTiles ==
    ASSUME Matrices, NEW nt \in 0..(n_nt - 1)
    PROVE  SmallerOf(K, Share(n_nt * n_kt, nt) * TILE) = K
<1>1. Share(n_nt * n_kt, nt) = n_kt
  BY ShareEnds
<1>2. K <= n_kt * TILE /\ K \in Nat /\ n_kt * TILE \in Nat
  BY Tiles, Times DEF Matrices
<1>3. QED
  BY <1>1, <1>2 DEF SmallerOf

LEMMA EnteredIsDriving == Entered => Driving
<1> SUFFICES ASSUME Entered PROVE Driving
  OBVIOUS
<1>1. Matrices /\ m0 = 0 /\ tile = 0 /\ n_nt * n_kt \in Nat /\ MAX_ROWS \in Nat \ {0}
  BY Tiles, MaxRowsAssumption DEF Entered
<1>2. tile \in 0..(n_nt * n_kt)
  <2> DEFINE n == n_nt * n_kt
  <2>1. n \in Nat
    BY <1>1
  <2> HIDE DEF n
  <2>2. tile \in 0..n
    BY <1>1, <2>1
  <2>3. QED
    BY <2>2 DEF n
<1>3. ASSUME NEW i \in 0..(M * N - 1), i \div N \in m0..(m0 + MAX_ROWS - 1)
      PROVE  flatC[i] = Golden(i \div N, i % N, SmallerOf(K, Share(tile, (i % N) \div TILE) * TILE))
  <2>1. (i % N) \div TILE \in 0..(n_nt - 1) /\ i \div N < MAX_ROWS
    BY <1>1, <1>3, PlaceInC
  <2>2. flatC[i] = <<>>
    BY <2>1 DEF Entered
  <2>3. QED
    BY <1>1, <2>1, <2>2, NothingYet
<1>4. ASSUME NEW i \in 0..(M * N - 1), i \div N < m0 PROVE FALSE
  <2>1. i \div N \in 0..(M - 1)
    BY <1>1, PlaceInC
  <2>2. QED
    BY <1>1, <1>4, <2>1
<1>5. DOMAIN flatC = 0..(M * N - 1)
  BY DEF Entered
<1>6. QED
  BY <1>1, <1>2, <1>3, <1>4, <1>5 DEF Driving

LEMMA CollectKeepsDriving ==
    ASSUME Driving, CollectTile, UNCHANGED matrixVars
    PROVE  Driving'
<1>1. /\ Matrices /\ m0 \in Nat /\ m0 < M /\ tile \in 0..(n_nt * n_kt) /\ tile < n_nt * n_kt
      /\ tile' = tile + 1 /\ m0' = m0
  BY DEF Driving, CollectTile
<1>2. /\ TILE \in Nat \ {0} /\ M \in Nat \ {0} /\ N \in Nat \ {0} /\ n_nt * n_kt \in Nat
      /\ MAX_ROWS \in Nat \ {0}
  BY <1>1, Tiles, MaxRowsAssumption DEF Matrices
<1>3. tile \in 0..(n_nt * n_kt - 1) /\ tile + 1 \in 0..(n_nt * n_kt)
  <2> DEFINE n == n_nt * n_kt
  <2>1. n \in Nat /\ tile \in 0..n /\ tile < n
    BY <1>1, <1>2
  <2> HIDE DEF n
  <2>2. tile \in 0..(n - 1) /\ tile + 1 \in 0..n
    BY <2>1
  <2>3. QED
    BY <2>2 DEF n
<1> DEFINE kt == tile % n_kt
           nt == tile \div n_kt
           ct == [m \in 0..(mc - 1) |-> [j \in Lane |->
                     TileProduct(pack_atile(kt), pack_wtile(kt, nt), m, j)]]
<1>4. /\ kt \in 0..(n_kt - 1) /\ nt \in 0..(n_nt - 1)
      /\ Share(tile, nt) = kt /\ Share(tile + 1, nt) = kt + 1
      /\ \A q \in Nat : q # nt => Share(tile + 1, q) = Share(tile, q)
  BY <1>1, <1>3, ShareStep
<1>5. flatC' = AddTile(ct, nt)
  BY DEF CollectTile
<1> HIDE DEF kt, nt
<1>6. ASSUME NEW m \in 0..(mc - 1), NEW j \in Lane
      PROVE  ct[m][j] = TileSum(m0 + m, nt * TILE + j, kt, TILE)
  BY <1>1, <1>4, PackedTiles
<1> HIDE DEF ct
<1>7. /\ DOMAIN flatC' = 0..(M * N - 1)
      /\ \A i \in 0..(M * N - 1) :
             flatC'[i] = IF (i \div N) - m0 \in 0..(mc - 1) /\ (i % N) - nt * TILE \in Lane
                         THEN flatC[i] \o ct[(i \div N) - m0][(i % N) - nt * TILE] ELSE flatC[i]
  BY <1>5 DEF AddTile, Driving
<1>8. ASSUME NEW i \in 0..(M * N - 1)
      PROVE  /\ i \div N < m0 => flatC'[i] = Golden(i \div N, i % N, K)
             /\ i \div N \in m0..(m0 + MAX_ROWS - 1) =>
                    flatC'[i] = Golden(i \div N, i % N,
                                    SmallerOf(K, Share(tile + 1, (i % N) \div TILE) * TILE))
  <2> DEFINE m == i \div N
             c == i % N
             q == c \div TILE
             j == c % TILE
  <2>1. /\ m \in 0..(M - 1) /\ c \in 0..(N - 1) /\ q \in 0..(n_nt - 1) /\ j \in Lane
        /\ c = q * TILE + j
    BY <1>1, PlaceInC
  <2>2. /\ m < m0 => flatC[i] = Golden(m, c, K)
        /\ m \in m0..(m0 + MAX_ROWS - 1) =>
               flatC[i] = Golden(m, c, SmallerOf(K, Share(tile, q) * TILE))
    BY DEF Driving
  <2>3. flatC'[i] = IF m - m0 \in 0..(mc - 1) /\ c - nt * TILE \in Lane
                    THEN flatC[i] \o ct[m - m0][c - nt * TILE] ELSE flatC[i]
    BY <1>7
  <2> HIDE DEF m, c, q, j
  <2>4. CASE m < m0
    <3>1. ~(m - m0 \in 0..(mc - 1)) /\ m \notin m0..(m0 + MAX_ROWS - 1)
      BY <1>1, <1>2, <2>1, <2>4
    <3>2. QED
      BY <2>2, <2>3, <3>1 DEF m, c
  <2>5. CASE m \in m0..(m0 + MAX_ROWS - 1)
    <3>1. m - m0 \in 0..(mc - 1) /\ m0 + (m - m0) = m /\ ~(m < m0)
      BY <1>1, <1>2, <2>1, <2>5 DEF mc, SmallerOf
    <3>2. CASE q = nt
      <4>1. c - nt * TILE = j
        <5>1. q * TILE \in Nat /\ j \in Nat
          BY <1>2, <2>1, Times DEF Lane
        <5>2. QED
          BY <2>1, <3>2, <5>1
      <4>2. ct[m - m0][j] = TileSum(m, c, kt, TILE)
        BY <1>6, <2>1, <3>1, <3>2
      <4>3. flatC[i] = Golden(m, c, SmallerOf(K, kt * TILE))
        BY <1>4, <2>2, <2>5, <3>2
      <4>4. Golden(m, c, SmallerOf(K, kt * TILE)) \o TileSum(m, c, kt, TILE)
                = Golden(m, c, SmallerOf(K, (kt + 1) * TILE))
        BY <1>1, <1>4, <2>1, TileAdds
      <4>5. flatC'[i] = Golden(m, c, SmallerOf(K, Share(tile + 1, q) * TILE))
        BY <1>4, <2>1, <2>3, <3>1, <3>2, <4>1, <4>2, <4>3, <4>4
      <4>6. QED
        BY <3>1, <4>5 DEF m, c, q
    <3>3. CASE q # nt
      <4>1. ~(c - nt * TILE \in Lane)
        <5>1. q \in Nat /\ nt \in Nat /\ j \in 0..(TILE - 1)
          BY <1>4, <2>1 DEF Lane
        <5>2. /\ q * TILE \in Nat /\ nt * TILE \in Nat
              /\ q < nt => q * TILE + TILE <= nt * TILE
              /\ nt < q => nt * TILE + TILE <= q * TILE
          BY <1>2, <5>1, Times, TimesMonotone
        <5>3. QED
          BY <1>2, <2>1, <3>3, <5>1, <5>2 DEF Lane
      <4>2. Share(tile + 1, q) = Share(tile, q)
        BY <1>4, <2>1, <3>3
      <4>3. flatC'[i] = Golden(m, c, SmallerOf(K, Share(tile + 1, q) * TILE))
        BY <2>2, <2>3, <2>5, <4>1, <4>2
      <4>4. QED
        BY <3>1, <4>3 DEF m, c, q
    <3>4. QED
      BY <3>2, <3>3
  <2>6. QED
    BY <2>4, <2>5 DEF m
<1>9. UNCHANGED <<M, N, K, A, W, n_nt, n_kt>>
  BY DEF matrixVars, n_nt, n_kt
<1>10. \A m, c, k, r, q : Golden(m, c, k)' = Golden(m, c, k) /\ Share(r, q)' = Share(r, q)
  BY <1>9 DEF Golden, Share
<1>11. Matrices'
  BY <1>1, <1>9 DEF Matrices
<1>12. DOMAIN flatC' = 0..(M' * N' - 1)
  BY <1>7, <1>9
<1>13. tile' \in 0..(n_nt' * n_kt')
  BY <1>1, <1>3, <1>9
<1>14. QED
  BY <1>1, <1>8, <1>9, <1>10, <1>11, <1>12, <1>13 DEF Driving

LEMMA NextKeepsDriving ==
    ASSUME Driving, NextBlock, UNCHANGED matrixVars
    PROVE  Driving'
<1>1. /\ Matrices /\ m0 \in Nat /\ tile = n_nt * n_kt /\ tile' = 0 /\ m0' = m0 + MAX_ROWS
      /\ MAX_ROWS \in Nat \ {0} /\ n_nt * n_kt \in Nat
  BY Tiles, MaxRowsAssumption DEF Driving, NextBlock
<1>2. m0' \in Nat
  BY <1>1
<1>3. /\ DOMAIN flatC' = 0..(M * N - 1)
      /\ \A i \in 0..(M * N - 1) :
             flatC'[i] = IF i \div N \in m0'..(m0' + MAX_ROWS - 1) THEN <<>> ELSE flatC[i]
  BY DEF Driving, NextBlock
<1>4. ASSUME NEW i \in 0..(M * N - 1)
      PROVE  /\ i \div N < m0' => flatC'[i] = Golden(i \div N, i % N, K)
             /\ i \div N \in m0'..(m0' + MAX_ROWS - 1) =>
                    flatC'[i] = Golden(i \div N, i % N,
                                    SmallerOf(K, Share(0, (i % N) \div TILE) * TILE))
  <2> DEFINE m == i \div N
             c == i % N
             q == c \div TILE
  <2>1. m \in 0..(M - 1) /\ q \in 0..(n_nt - 1)
    BY <1>1, PlaceInC
  <2>2. /\ m < m0 => flatC[i] = Golden(m, c, K)
        /\ m \in m0..(m0 + MAX_ROWS - 1) =>
               flatC[i] = Golden(m, c, SmallerOf(K, Share(tile, q) * TILE))
    BY DEF Driving
  <2>3. flatC'[i] = IF m \in m0'..(m0' + MAX_ROWS - 1) THEN <<>> ELSE flatC[i]
    BY <1>3
  <2> HIDE DEF m, c, q
  <2>4. CASE m < m0'
    <3>1. m \notin m0'..(m0' + MAX_ROWS - 1) /\ (m < m0 \/ m \in m0..(m0 + MAX_ROWS - 1))
      BY <1>1, <2>1, <2>4
    <3>2. SmallerOf(K, Share(tile, q) * TILE) = K
      BY <1>1, <2>1, AllTiles
    <3>3. flatC'[i] = Golden(m, c, K)
      BY <2>2, <2>3, <3>1, <3>2
    <3>4. QED
      BY <3>1, <3>3 DEF m, c
  <2>5. CASE ~(m < m0')
    <3>1. m \in m0'..(m0' + MAX_ROWS - 1) => flatC'[i] = <<>>
      BY <2>3
    <3>2. Golden(m, c, SmallerOf(K, Share(0, q) * TILE)) = <<>>
      BY <1>1, <2>1, NothingYet
    <3>3. QED
      BY <2>5, <3>1, <3>2 DEF m, c, q
  <2>6. QED
    BY <2>4, <2>5
<1>5. UNCHANGED <<M, N, K, A, W, n_nt, n_kt>>
  BY DEF matrixVars, n_nt, n_kt
<1>6. \A m, c, k, r, q : Golden(m, c, k)' = Golden(m, c, k) /\ Share(r, q)' = Share(r, q)
  BY <1>5 DEF Golden, Share
<1>7. Matrices'
  BY <1>1, <1>5 DEF Matrices
<1>8. tile' \in 0..(n_nt' * n_kt')
  <2> DEFINE n == n_nt * n_kt
  <2>1. n \in Nat
    BY <1>1
  <2> HIDE DEF n
  <2>2. 0 \in 0..n
    BY <2>1
  <2>3. QED
    BY <1>1, <1>5, <2>2 DEF n
<1>9. QED
  BY <1>1, <1>2, <1>3, <1>4, <1>5, <1>6, <1>7, <1>8 DEF Driving

\* The result array does not exist before the driver is called.
Driven ==
    \/ flatC = <<>> /\ pc # "driver"
    \/ pc \in {"driver", "returned"} /\ Driving

LEMMA DrivingKept ==
    ASSUME Driving, UNCHANGED <<matrixVars, driverVars>>
    PROVE  Driving'
BY DEF Driving, Matrices, Golden, Share, n_nt, n_kt, matrixVars, driverVars

LEMMA DrivenStep == Forward /\ Driven /\ [Next]_vars => Driven'
<1> SUFFICES ASSUME Forward, Driven, [Next]_vars PROVE Driven'
  OBVIOUS
<1>1. CASE CallDriver
  <2>1. /\ pc = "matmul" /\ pc' = "driver" /\ Operands /\ s' = s
        /\ m0' = 0 /\ tile' = 0
        /\ flatC' = [i \in 0..(M' * N' - 1) |->
                        IF i \div N' < MAX_ROWS THEN <<>> ELSE <<"uninitialised">>]
    BY <1>1 DEF CallDriver, CallDriverOn
  <2>2. InPlace'
    BY <2>1, OperandsInPlace DEF Forward
  <2>3. InPlace' => Matrices'
    BY InPlaceIsMatrices, PTL
  <2>4. Entered'
    BY <2>1, <2>2, <2>3 DEF Entered
  <2>5. Entered' => Driving'
    BY EnteredIsDriving, PTL
  <2>6. QED
    BY <2>1, <2>4, <2>5 DEF Driven
<1>2. CASE DriverStep
  <2>1. pc = "driver" /\ pc' = pc /\ UNCHANGED matrixVars /\ (CollectTile \/ NextBlock)
    BY <1>2 DEF DriverStep
  <2>2. Driving
    BY <2>1 DEF Driven
  <2>3. Driving'
    BY <2>1, <2>2, CollectKeepsDriving, NextKeepsDriving
  <2>4. QED
    BY <2>1, <2>3 DEF Driven
<1>3. ASSUME UNCHANGED driverVars,
             \/ pc \notin {"driver", "returned"} /\ pc' # "driver"
             \/ pc' = pc /\ UNCHANGED matrixVars
             \/ pc = "driver" /\ pc' = "returned" /\ UNCHANGED matrixVars
      PROVE  Driven'
  BY <1>3, DrivingKept DEF Driven, driverVars
<1>4. CASE Quantize \/ Im2colStep \/ CallExecute
  BY <1>3, <1>4 DEF Quantize, Im2colStep, CallExecute
<1>5. CASE ExecuteStep \/ RunnerStep
  BY <1>3, <1>5 DEF ExecuteStep, RunnerStep
<1>6. CASE \E a \in Acc : MlpActivation(a) \/ ConvOutput(a)
  BY <1>3, <1>6 DEF MlpActivation, ConvOutput
<1>7. CASE ReLU \/ Close
  BY <1>3, <1>7 DEF ReLU, Close
<1>8. CASE MaxPool
  BY <1>3, <1>8 DEF MaxPool
<1>9. CASE Flatten
  BY <1>3, <1>9 DEF Flatten
<1>10. CASE UNCHANGED vars
  BY <1>3, <1>10 DEF vars
<1>11. QED
  BY <1>1, <1>2, <1>4, <1>5, <1>6, <1>7, <1>8, <1>9, <1>10 DEF Next

(* The C library's product, cut into row blocks and working on flat        *)
(* arrays: whatever the shape and the block size, every row left behind is *)
(* golden_matmul, and nothing outside the operands is read.                *)
THEOREM BlocksAreGolden == Spec => []DriverIsGolden
<1>1. Init => Driven
  BY DEF Init, Driven
<1>2. Driven => DriverIsGolden
  <2>1. ASSUME flatC = <<>> PROVE DriverIsGolden
    <3>1. DOMAIN flatC = {}
      BY <2>1
    <3>2. QED
      BY <3>1 DEF DriverIsGolden
  <2>2. ASSUME Driving PROVE DriverIsGolden
    BY <2>2 DEF Driving, DriverIsGolden
  <2>3. QED
    BY <2>1, <2>2 DEF Driven
<1>3. QED
  BY <1>1, <1>2, SpecForward, DrivenStep, PTL DEF Spec

-------------------------------------------------------------------------------
(* Powers of two.                                                          *)

\* The provers know nothing of 2^n: it is kept behind this name.
Two(n) == 2^n

LEMMA TwoIsSubsets ==
    ASSUME NEW n \in Nat
    PROVE  Two(n) \in Nat /\ IsFiniteSet(SUBSET (1..n)) /\ Cardinality(SUBSET (1..n)) = Two(n)
<1>1. IsFiniteSet(1..n) /\ Cardinality(1..n) = n
  <2>1. Cardinality(1..n) = IF 1 > n THEN 0 ELSE n - 1 + 1
    BY FS_Interval
  <2>2. QED
    BY <2>1, FS_Interval
<1>2. IsFiniteSet(SUBSET (1..n)) /\ Cardinality(SUBSET (1..n)) = 2^n
  <2>1. Cardinality(SUBSET (1..n)) = 2^Cardinality(1..n)
    BY <1>1, FS_SUBSET
  <2>2. QED
    BY <1>1, <2>1, FS_SUBSET
<1>3. QED
  BY <1>2, FS_CardinalityType DEF Two

LEMMA TwoType == \A n \in Nat : Two(n) \in Nat
BY TwoIsSubsets

(* As many subsets of 1..n+1 have n + 1 in them as have not.               *)
LEMMA TwoSucc ==
    ASSUME NEW n \in Nat
    PROVE  Two(n + 1) = 2 * Two(n)
<1> DEFINE S == SUBSET (1..n)
           T == SUBSET (1..(n + 1))
           f == [U \in S |-> U \cup {n + 1}]
           X == {U \in T : n + 1 \in U}
<1>1. f \in Bijection(S, X)
  <2>1. f \in [S -> X]
    OBVIOUS
  <2>2. \A U, V \in S : f[U] = f[V] => U = V
    <3>1. \A U \in S : U = f[U] \ {n + 1}
      OBVIOUS
    <3>2. QED
      BY <3>1
  <2>3. \A V \in X : \E U \in S : f[U] = V
    <3>1. ASSUME NEW V \in X PROVE V \ {n + 1} \in S /\ f[V \ {n + 1}] = V
      OBVIOUS
    <3>2. QED
      BY <3>1
  <2>4. QED
    BY <2>1, <2>2, <2>3 DEF Bijection, Injection, Surjection, IsInjective
<1>2. IsFiniteSet(S) /\ Cardinality(S) = Two(n) /\ Two(n) \in Nat
  BY TwoIsSubsets
<1>3. IsFiniteSet(X) /\ Cardinality(X) = Two(n)
  <2> HIDE DEF S, X
  <2>1. ExistsBijection(S, X)
    BY <1>1 DEF ExistsBijection
  <2>2. QED
    BY <1>2, <2>1, FS_Bijection
<1>4. T = S \cup X /\ S \cap X = {}
  OBVIOUS
<1>5. Cardinality(T) = Two(n + 1) /\ Two(n + 1) \in Nat
  <2>1. n + 1 \in Nat
    OBVIOUS
  <2>2. QED
    BY <2>1, TwoIsSubsets
<1>6. Cardinality(S \cup X) = Cardinality(S) + Cardinality(X) - Cardinality(S \cap X)
  <2> HIDE DEF S, X
  <2>1. QED
    BY <1>2, <1>3, FS_Union
<1>7. Cardinality(S \cap X) = 0
  BY <1>4, FS_EmptySet
<1> HIDE DEF S, X, T
<1>8. QED
  BY <1>2, <1>3, <1>4, <1>5, <1>6, <1>7

LEMMA TwoZero == Two(0) = 1
BY DEF Two

LEMMA TwoPositive ==
    ASSUME NEW n \in Nat
    PROVE  Two(n) \in Nat \ {0}
<1> DEFINE T == {k \in Nat : Two(k) = 0}
<1>1. SUFFICES T = {}
  BY TwoType
<1>2. SUFFICES ASSUME T # {} PROVE FALSE
  OBVIOUS
<1>3. PICK k \in T : \A j \in T : k <= j
  BY <1>2, LeastNumber
<1>4. k # 0 /\ k - 1 \in Nat /\ k = (k - 1) + 1
  BY <1>3, TwoZero
<1>5. Two(k) = 2 * Two(k - 1)
  BY <1>4, TwoSucc
<1>6. Two(k - 1) # 0
  BY <1>3, <1>4
<1>7. QED
  BY <1>3, <1>4, <1>5, <1>6, TwoType

(* Were there an exponent at which this fails, there would be a least one. *)
LEMMA TwoPlus ==
    ASSUME NEW a \in Nat, NEW b \in Nat
    PROVE  Two(a + b) = Two(a) * Two(b)
<1> DEFINE T == {k \in Nat : Two(a + k) # Two(a) * Two(k)}
<1>1. SUFFICES T = {}
  OBVIOUS
<1>2. SUFFICES ASSUME T # {} PROVE FALSE
  OBVIOUS
<1>3. PICK k \in T : \A j \in T : k <= j
  BY <1>2, LeastNumber
<1>4. k # 0
  <2>1. Two(a + 0) = Two(a) * Two(0)
    BY TwoZero, TwoType
  <2>2. QED
    BY <1>3, <2>1
<1>5. k - 1 \in Nat /\ k = (k - 1) + 1 /\ a + (k - 1) \in Nat /\ a + k = (a + (k - 1)) + 1
  BY <1>4
<1>6. Two(k) = 2 * Two(k - 1) /\ Two(a + k) = 2 * Two(a + (k - 1))
  BY <1>5, TwoSucc
<1>7. Two(a + (k - 1)) = Two(a) * Two(k - 1)
  BY <1>3, <1>5
<1>8. Two(a) \in Nat /\ Two(k - 1) \in Nat
  BY <1>5, TwoType
<1>9. \A p, q \in Nat : 2 * (p * q) = p * (2 * q)
  BY Z3
<1>10. QED
  BY <1>3, <1>6, <1>7, <1>8, <1>9

(* A power is at most another exactly if its exponent is.                  *)
LEMMA TwoOrder ==
    ASSUME NEW a \in Nat, NEW b \in Nat
    PROVE  Two(a) <= Two(b) <=> a <= b
<1>1. ASSUME NEW p \in Nat, NEW q \in Nat, p <= q PROVE Two(p) <= Two(q)
  <2>1. Two(p + (q - p)) = Two(p) * Two(q - p) /\ p + (q - p) = q
    BY <1>1, TwoPlus
  <2>2. Two(p) \in Nat \ {0} /\ Two(q - p) \in Nat \ {0}
    BY <1>1, TwoPositive
  <2>3. \A y, z \in Nat \ {0} : y <= y * z
    BY Z3
  <2>4. QED
    BY <2>1, <2>2, <2>3
<1>2. ASSUME b < a PROVE Two(b) < Two(a)
  <2>1. Two(b + 1) <= Two(a)
    BY <1>1, <1>2
  <2>2. Two(b + 1) = 2 * Two(b) /\ Two(b) \in Nat \ {0} /\ Two(a) \in Nat
    BY TwoSucc, TwoPositive, TwoType
  <2>3. QED
    BY <2>1, <2>2
<1>3. Two(a) \in Nat /\ Two(b) \in Nat
  BY TwoType
<1>4. QED
  BY <1>1, <1>2, <1>3

-------------------------------------------------------------------------------
(* The fixed-point operators.                                              *)

(* A product that fits the machine's integer is not wrapped.               *)
LEMMA WrapInRange ==
    ASSUME NEW y \in Int, -Two(2 * B + 1) <= y, y < Two(2 * B + 1)
    PROVE  WrapProduct(y) = y
<1> DEFINE H == Two(2 * B + 1)
           V == Two(2 * (B + 1))
<1>1. B \in Nat \ {0} /\ 2 * B + 1 \in Nat /\ (2 * B + 1) + 1 = 2 * (B + 1)
  BY RequantAssumption
<1>2. V = 2 * H /\ H \in Nat \ {0}
  BY <1>1, TwoSucc, TwoPositive
<1>3. V \div 2 = H
  <2> HIDE DEF V, H
  <2>1. QED
    BY <1>2
<1>4. (y + H) % V = y + H
  <2> HIDE DEF V, H
  <2>1. V \in Nat \ {0} /\ y + H \in 0..(V - 1) /\ 0 * V + (y + H) = y + H
    BY <1>2 DEF H
  <2>2. QED
    BY <2>1, QuotientUnique
<1>5. WrapProduct(y) = ((y + (V \div 2)) % V) - (V \div 2)
  BY DEF WrapProduct, Two
<1>6. QED
  <2> HIDE DEF V, H
  <2>1. QED
    BY <1>2, <1>3, <1>4, <1>5

(* Rounding moves a quotient by at most a half.                            *)
LEMMA RoundNear ==
    ASSUME NEW n \in Nat, NEW d \in Nat \ {0}
    PROVE  /\ round(n, d) \in {n \div d, n \div d + 1}
           /\ n % d = 0 => round(n, d) = n \div d
           /\ -d <= 2 * (round(n, d) * d - n) /\ 2 * (round(n, d) * d - n) <= d
<1> DEFINE q == n \div d
           r == n % d
<1>1. q \in Nat /\ r \in 0..(d - 1) /\ n = q * d + r
  BY Division
<1>2. round(n, d) = IF 2 * r > d \/ (2 * r = d /\ q % 2 = 1) THEN q + 1 ELSE q
  BY DEF round
<1> HIDE DEF q, r
<1>3. CASE 2 * r > d \/ (2 * r = d /\ q % 2 = 1)
  <2>1. round(n, d) = q + 1 /\ (q + 1) * d = q * d + d
    BY <1>1, <1>2, <1>3, Z3
  <2>2. 2 * r >= d
    BY <1>1, <1>3
  <2>3. (q + 1) * d - n = d - r
    BY <1>1, <2>1, Z3
  <2>4. QED
    BY <1>1, <2>1, <2>2, <2>3 DEF q, r
<1>4. CASE ~(2 * r > d \/ (2 * r = d /\ q % 2 = 1))
  <2>1. round(n, d) = q
    BY <1>2, <1>4
  <2>2. 2 * r <= d
    BY <1>1, <1>4
  <2>3. q * d - n = -r
    BY <1>1, Z3
  <2>4. QED
    BY <1>1, <2>1, <2>2, <2>3 DEF q, r
<1>5. QED
  BY <1>3, <1>4

(* An error bound, multiplied by what is left of 2^(B+2).                  *)
LEMMA Scaling ==
    ASSUME NEW r \in Nat, NEW D \in Nat, NEW Th \in Nat, NEW Td \in Nat, NEW Tk \in Nat,
           NEW TB \in Nat, NEW p \in Nat,
           -(D * Th) <= 2 * (r * (D * Th) - (p * Td) * TB),
           2 * (r * (D * Th) - (p * Td) * TB) <= D * Th
    PROVE  /\ -(D * (Th * Tk)) <= 2 * (r * (D * (Th * Tk)) - p * ((Td * Tk) * TB))
           /\ 2 * (r * (D * (Th * Tk)) - p * ((Td * Tk) * TB)) <= D * (Th * Tk)
<1> DEFINE a == D * Th
           b == 2 * (r * (D * Th) - (p * Td) * TB)
<1>1. 2 * (r * (D * (Th * Tk)) - p * ((Td * Tk) * TB)) = b * Tk
  BY Z3
<1>2. D * (Th * Tk) = a * Tk /\ -(D * (Th * Tk)) = (-a) * Tk
  BY Z3
<1>3. a \in Int /\ b \in Int /\ -a <= b /\ b <= a
  BY Z3
<1> HIDE DEF a, b
<1>4. (-a) * Tk <= b * Tk /\ b * Tk <= a * Tk
  BY <1>3, Z3
<1>5. QED
  BY <1>1, <1>2, <1>4

-------------------------------------------------------------------------------
(* quantize_multiplier.                                                    *)

\* After h halvings and d doublings; never both.
Scaled(h, d) ==
    /\ num0 # 0 /\ h \in Nat /\ d \in Nat /\ (h = 0 \/ d = 0)
    /\ den = Denominator * Two(h) /\ num = num0 * Two(d) /\ shift = h - d

\* What M0 and shift say about the multiplier, each side multiplied by 2^(B+2):
\* |M0 * 2^shift - num0 / Denominator * 2^B| <= 2^shift / 2.
Near ==
    LET T == Two(shift + B + 2)
        e == 2 * (M0 * (Denominator * T) - num0 * Two(2 * B + 2))
    IN  -(Denominator * T) <= e /\ e <= Denominator * T

Multiplier ==
    /\ shift \in (-(B + 1))..(B + 2) /\ M0 \in 0..(Two(B) - 1)
    /\ num0 = 0 => M0 = 0
    /\ num0 # 0 => M0 >= Two(B - 1)
    /\ shift = B + 2 => M0 = Two(B - 1)
    /\ Near

Quantizing ==
    /\ num0 \in Numerators
    /\ qpc \in {"start", "halve", "double", "round", "ready"}
    /\ qpc = "start" => num = num0 /\ den = Denominator
    /\ qpc = "halve" => \E h \in Nat : Scaled(h, 0) /\ (h = 0 \/ den <= 2 * num)
    /\ qpc = "double" => \E h, d \in Nat : /\ Scaled(h, d) /\ num < den
                                           /\ (h = 0 \/ den <= 2 * num)
    /\ qpc = "round" => \E h, d \in Nat : Scaled(h, d) /\ num < den /\ den <= 2 * num
    /\ qpc = "ready" => Multiplier

(* What the assumptions on the constants say of powers of two.             *)
LEMMA Given ==
    /\ B \in Nat \ {0} /\ ACT_MAX \in Nat /\ Denominator \in Nat \ {0}
    /\ \A n \in Numerators : /\ n \in Nat
                             /\ n # 0 => /\ Denominator <= n * Two(B + 2)
                                         /\ n <= Denominator * Two(B + 1)
BY RequantAssumption DEF Two

(* A multiplier of zero.                                                   *)
LEMMA ZeroNear ==
    ASSUME num0 = 0, M0 = 0, shift = 0
    PROVE  Multiplier
<1>1. B \in Nat \ {0} /\ Denominator \in Nat \ {0}
  BY Given
<1>2. Two(B) \in Nat \ {0} /\ Two(B + 2) \in Nat /\ Two(2 * B + 2) \in Nat
  BY <1>1, TwoPositive
<1>3. Denominator * Two(B + 2) \in Nat
  BY <1>1, <1>2, Z3
<1>4. Near
  <2>1. shift + B + 2 = B + 2
    BY <1>1
  <2>2. M0 * (Denominator * Two(B + 2)) = 0 /\ num0 * Two(2 * B + 2) = 0
    BY <1>2, <1>3
  <2>3. QED
    BY <1>3, <2>1, <2>2 DEF Near
<1>5. QED
  BY <1>1, <1>2, <1>4 DEF Multiplier

(* How far the loops can go.                                               *)
LEMMA LoopBounds ==
    ASSUME num0 \in Numerators, NEW h, NEW d, Scaled(h, d), num < den, den <= 2 * num
    PROVE  h <= B + 2 /\ d <= B + 1 /\ (h = B + 2 => den = 2 * num)
<1>1. /\ B \in Nat \ {0} /\ Denominator \in Nat \ {0} /\ num0 \in Nat \ {0}
      /\ Denominator <= num0 * Two(B + 2) /\ num0 <= Denominator * Two(B + 1)
  BY Given DEF Scaled
<1>2. /\ h \in Nat /\ d \in Nat /\ (h = 0 \/ d = 0)
      /\ den = Denominator * Two(h) /\ num = num0 * Two(d)
  BY DEF Scaled
<1>3. /\ Two(h) \in Nat \ {0} /\ Two(d) \in Nat \ {0} /\ Two(B + 1) \in Nat \ {0}
      /\ Two(B + 2) = 2 * Two(B + 1)
  <2>1. B + 2 = (B + 1) + 1 /\ B + 1 \in Nat
    BY <1>1
  <2>2. QED
    BY <1>1, <1>2, <2>1, TwoPositive, TwoSucc
<1>4. ASSUME d = 0 PROVE h <= B + 2 /\ (h = B + 2 => den = 2 * num)
  <2>1. num = num0
    BY <1>1, <1>2, <1>4, TwoZero
  <2>2. Denominator * Two(h) <= Denominator * Two(B + 2)
    <3>1. 2 * num0 <= 2 * (Denominator * Two(B + 1))
      BY <1>1, <1>3, Z3
    <3>2. 2 * (Denominator * Two(B + 1)) = Denominator * Two(B + 2)
      BY <1>1, <1>3, Z3
    <3>3. Denominator * Two(h) \in Nat /\ Denominator * Two(B + 2) \in Nat
      BY <1>1, <1>3, Z3
    <3>4. QED
      BY <1>1, <1>2, <2>1, <3>1, <3>2, <3>3
  <2>3. Two(h) <= Two(B + 2)
    <3>1. \A u, y, z \in Nat : u # 0 /\ u * y <= u * z => y <= z
      BY Z3
    <3>2. QED
      BY <1>1, <1>3, <2>2, <3>1
  <2>4. h <= B + 2
    BY <1>1, <1>2, <2>3, TwoOrder
  <2>5. h = B + 2 => den = 2 * num
    <3>1. SUFFICES ASSUME h = B + 2 PROVE den = 2 * num
      OBVIOUS
    <3>2. den = 2 * (Denominator * Two(B + 1))
      BY <1>1, <1>2, <1>3, <3>1, Z3
    <3>3. Denominator * Two(B + 1) \in Nat
      BY <1>1, <1>3, Z3
    <3>4. QED
      BY <1>1, <2>1, <3>2, <3>3
  <2>6. QED
    BY <2>4, <2>5
<1>5. ASSUME d # 0 PROVE d <= B + 1
  <2>1. h = 0 /\ den = Denominator
    BY <1>1, <1>2, <1>5, TwoZero
  <2>2. num0 * Two(d) < num0 * Two(B + 2)
    <3>1. num0 * Two(d) \in Nat /\ num0 * Two(B + 2) \in Nat
      BY <1>1, <1>3, Z3
    <3>2. QED
      BY <1>1, <1>2, <2>1, <3>1
  <2>3. ~(Two(B + 2) <= Two(d))
    <3>1. \A u, y, z \in Nat : u * y < u * z => ~(z <= y)
      BY Z3
    <3>2. QED
      BY <1>1, <1>3, <2>2, <3>1
  <2>4. ~(B + 2 <= d)
    BY <1>1, <1>2, <2>3, TwoOrder
  <2>5. QED
    BY <1>1, <1>2, <2>4
<1>6. QED
  BY <1>1, <1>2, <1>4, <1>5

(* The rounded M0 is within half a unit, and has B significant bits.       *)
LEMMA RoundStep ==
    ASSUME num0 \in Numerators, NEW h, NEW d, Scaled(h, d), num < den, den <= 2 * num, Round
    PROVE  Multiplier'
<1> DEFINE n == num * Two(B)
           r == round(n, den)
           k == B + 2 - d
           T == Two(h + k)
           HalfB == Two(B - 1)
<1>1. B \in Nat \ {0} /\ Denominator \in Nat \ {0} /\ num0 \in Nat \ {0}
  BY Given DEF Scaled
<1>2. /\ h \in Nat /\ d \in Nat /\ den = Denominator * Two(h) /\ num = num0 * Two(d)
      /\ shift = h - d /\ h <= B + 2 /\ d <= B + 1 /\ (h = B + 2 => den = 2 * num)
      /\ k \in Nat /\ h + k \in Nat /\ B - 1 \in Nat /\ d + k = B + 2
  <2>1. h <= B + 2 /\ d <= B + 1 /\ (h = B + 2 => den = 2 * num)
    BY LoopBounds
  <2>2. /\ h \in Nat /\ d \in Nat /\ den = Denominator * Two(h) /\ num = num0 * Two(d)
        /\ shift = h - d
    BY DEF Scaled
  <2>3. QED
    BY <1>1, <2>1, <2>2
<1>3. /\ Two(h) \in Nat \ {0} /\ Two(d) \in Nat \ {0} /\ Two(k) \in Nat \ {0}
      /\ Two(B) \in Nat \ {0} /\ HalfB \in Nat \ {0} /\ T \in Nat \ {0}
  BY <1>1, <1>2, TwoPositive
<1>4. Two(B) = 2 * HalfB
  <2>1. B = (B - 1) + 1
    BY <1>1
  <2>2. QED
    BY <1>2, <2>1, TwoSucc
<1>5. den \in Nat \ {0} /\ num \in Nat \ {0} /\ n \in Nat
  <2>1. \A y, z \in Nat \ {0} : y * z \in Nat \ {0}
    BY Z3
  <2>2. QED
    BY <1>1, <1>2, <1>3, <2>1
<1> HIDE DEF HalfB, k, T
<1>6. r \in HalfB..Two(B) /\ (den = 2 * num => r = HalfB)
  <2> DEFINE q == n \div den
             w == n % den
  <2>1. q \in Nat /\ w \in 0..(den - 1) /\ n = q * den + w
    BY <1>5, Division
  <2>2. n < den * Two(B) /\ HalfB * den <= n
    <3>1. \A u, y, z \in Nat : u < y /\ z # 0 => u * z < y * z
      BY Z3
    <3>2. n < den * Two(B)
      BY <1>3, <1>5, <3>1
    <3>3. \A u, y, z \in Nat : y <= 2 * u => z * y <= u * (2 * z)
      BY Z3
    <3>4. QED
      BY <1>3, <1>4, <1>5, <3>2, <3>3
  <2> HIDE DEF q, w
  <2>3. q < Two(B)
    <3>1. SUFFICES ASSUME Two(B) <= q PROVE FALSE
      BY <1>3, <2>1
    <3>2. den * Two(B) <= q * den
      BY <1>3, <1>5, <2>1, <3>1, Z3
    <3>3. q * den \in Nat /\ den * Two(B) \in Nat
      BY <1>3, <1>5, <2>1, Z3
    <3>4. QED
      BY <1>5, <2>1, <2>2, <3>2, <3>3
  <2>4. HalfB <= q
    <3>1. SUFFICES ASSUME q + 1 <= HalfB PROVE FALSE
      BY <1>3, <2>1
    <3>2. (q + 1) * den <= HalfB * den
      BY <1>3, <1>5, <2>1, <3>1, Z3
    <3>3. (q + 1) * den = q * den + den
      BY <1>5, <2>1, Z3
    <3>4. q * den \in Nat /\ HalfB * den \in Nat
      BY <1>3, <1>5, <2>1, Z3
    <3>5. QED
      BY <1>5, <2>1, <2>2, <3>2, <3>3, <3>4
  <2>5. r \in {q, q + 1} /\ (w = 0 => r = q)
    BY <1>5, RoundNear DEF q, w
  <2>6. ASSUME den = 2 * num PROVE r = HalfB
    <3>1. n = HalfB * den + 0
      BY <1>3, <1>4, <1>5, <2>6, Z3
    <3>2. (HalfB * den + 0) \div den = HalfB /\ (HalfB * den + 0) % den = 0
      <4>1. 0 \in 0..(den - 1)
        BY <1>5
      <4>2. QED
        BY <1>3, <1>5, <4>1, QuotientUnique
    <3>3. q = HalfB /\ w = 0
      BY <3>1, <3>2 DEF q, w
    <3>4. QED
      BY <2>5, <3>3
  <2>7. QED
    BY <1>3, <2>1, <2>3, <2>4, <2>5, <2>6
<1>7. /\ -(Denominator * T) <= 2 * (r * (Denominator * T) - num0 * Two(2 * B + 2))
      /\ 2 * (r * (Denominator * T) - num0 * Two(2 * B + 2)) <= Denominator * T
  <2>1. -den <= 2 * (r * den - n) /\ 2 * (r * den - n) <= den
    BY <1>5, RoundNear
  <2>2. T = Two(h) * Two(k)
    BY <1>2, TwoPlus DEF T
  <2>3. Two(2 * B + 2) = (Two(d) * Two(k)) * Two(B)
    <3>1. B + 2 \in Nat /\ (B + 2) + B = 2 * B + 2
      BY <1>1
    <3>2. Two((B + 2) + B) = Two(B + 2) * Two(B)
      BY <1>1, <3>1, TwoPlus
    <3>3. Two(B + 2) = Two(d) * Two(k)
      BY <1>2, TwoPlus
    <3>4. QED
      BY <3>1, <3>2, <3>3
  <2>4. r \in Nat
    BY <1>3, <1>6
  <2> HIDE DEF r
  <2>5. /\ -(Denominator * (Two(h) * Two(k))) <=
               2 * (r * (Denominator * (Two(h) * Two(k))) - num0 * ((Two(d) * Two(k)) * Two(B)))
        /\ 2 * (r * (Denominator * (Two(h) * Two(k))) - num0 * ((Two(d) * Two(k)) * Two(B)))
               <= Denominator * (Two(h) * Two(k))
    BY <1>1, <1>2, <1>3, <2>1, <2>4, Scaling
  <2>6. QED
    BY <2>2, <2>3, <2>5
<1>8. num0' = num0 /\ M0' = Rounded(r, shift)[1] /\ shift' = Rounded(r, shift)[2]
  BY DEF Round, Two
<1> HIDE DEF r, n
<1>9. Denominator * T \in Nat /\ num0 * Two(2 * B + 2) \in Nat
  BY <1>1, <1>3, TwoType, Z3
<1>10. CASE r # Two(B)
  <2>1. M0' = r /\ shift' = h - d
    BY <1>2, <1>8, <1>10 DEF Rounded, Two
  <2>2. shift' + B + 2 = h + k
    BY <1>1, <1>2, <2>1 DEF k
  <2>3. Near'
    BY <1>7, <1>8, <2>1, <2>2 DEF Near, T
  <2>4. shift' \in (-(B + 1))..(B + 2) /\ (shift' = B + 2 => h = B + 2)
    BY <1>1, <1>2, <2>1
  <2>5. QED
    BY <1>1, <1>2, <1>3, <1>6, <1>8, <1>10, <2>1, <2>3, <2>4 DEF Multiplier, HalfB
<1>11. CASE r = Two(B)
  <2>1. M0' = Two(B) \div 2 /\ shift' = h - d + 1
    BY <1>2, <1>8, <1>11 DEF Rounded, Two
  <2>2. M0' = HalfB
    BY <1>3, <1>4, <2>1
  <2>3. h <= B + 1
    BY <1>1, <1>2, <1>3, <1>4, <1>6, <1>11
  <2>4. shift' + B + 2 = (h + k) + 1
    BY <1>1, <1>2, <2>1 DEF k
  <2>5. Two((h + k) + 1) = 2 * T
    BY <1>2, TwoSucc DEF T
  <2>6. /\ HalfB * (Denominator * (2 * T)) = r * (Denominator * T)
        /\ Denominator * (2 * T) = 2 * (Denominator * T)
    BY <1>1, <1>3, <1>4, <1>11, Z3
  <2>7. Near'
    <3> DEFINE a == Denominator * T
               b == r * a
               c == num0 * Two(2 * B + 2)
    <3>1. a \in Nat /\ b \in Int /\ c \in Nat /\ -a <= 2 * (b - c) /\ 2 * (b - c) <= a
      BY <1>3, <1>7, <1>9, <1>11, Z3
    <3> HIDE DEF a, b, c
    <3>2. -(2 * a) <= 2 * (b - c) /\ 2 * (b - c) <= 2 * a
      BY <3>1
    <3>3. Two(shift' + B + 2) = 2 * T
      BY <2>4, <2>5
    <3>4. QED
      BY <1>8, <2>2, <2>6, <3>2, <3>3 DEF Near, a, b, c
  <2>8. shift' \in (-(B + 1))..(B + 2)
    BY <1>1, <1>2, <2>1, <2>3
  <2>9. QED
    BY <1>1, <1>2, <1>3, <1>4, <1>8, <2>2, <2>7, <2>8 DEF Multiplier, HalfB
<1>12. QED
  BY <1>10, <1>11

LEMMA QuantizeStep ==
    ASSUME Quantizing, QuantizeMultiplier
    PROVE  Quantizing'
<1>1. num0 \in Numerators /\ num0' = num0 /\ Denominator \in Nat \ {0} /\ num0 \in Nat
  BY Given DEF Quantizing, QuantizeMultiplier, Start, Halve, Double, Round
<1>2. CASE Start
  <2>1. num' = num0 /\ den' = Denominator /\ shift' = 0 /\ M0' = 0
    BY <1>2 DEF Start, Quantizing
  <2>2. CASE num0 = 0
    <3>1. qpc' = "ready"
      BY <1>2, <2>2 DEF Start, Quantizing
    <3>2. Multiplier'
      <4>1. num0' = 0
        BY <1>1, <2>2
      <4>2. (num0 = 0 /\ M0 = 0 /\ shift = 0 => Multiplier)'
        BY ZeroNear, PTL
      <4>3. QED
        BY <2>1, <4>1, <4>2
    <3>3. QED
      BY <1>1, <3>1, <3>2 DEF Quantizing
  <2>3. CASE num0 # 0
    <3>1. qpc' = "halve"
      BY <1>2, <2>3 DEF Start, Quantizing
    <3>2. Scaled(0, 0)'
      BY <1>1, <2>1, <2>3, TwoZero DEF Scaled
    <3>3. QED
      BY <1>1, <3>1, <3>2 DEF Quantizing
  <2>4. QED
    BY <2>2, <2>3
<1>3. CASE Halve
  <2>1. PICK h \in Nat : Scaled(h, 0) /\ (h = 0 \/ den <= 2 * num)
    BY <1>3 DEF Halve, Quantizing
  <2>2. Two(h) \in Nat \ {0} /\ Two(h + 1) = 2 * Two(h) /\ num = num0
    BY <1>1, <2>1, TwoPositive, TwoSucc, TwoZero DEF Scaled
  <2>3. CASE num >= den
    <3>1. den' = den * 2 /\ shift' = shift + 1 /\ qpc' = "halve" /\ num' = num
      BY <1>3, <2>3 DEF Halve
    <3>2. den' = Denominator * Two(h + 1)
      BY <1>1, <2>1, <2>2, <3>1, Z3 DEF Scaled
    <3>3. den \in Nat
      BY <1>1, <2>1, <2>2, Z3 DEF Scaled
    <3>4. den' <= 2 * num'
      BY <1>1, <2>2, <2>3, <3>1, <3>3
    <3>5. Scaled(h + 1, 0)'
      BY <1>1, <2>1, <3>1, <3>2 DEF Scaled
    <3>6. QED
      BY <1>1, <3>1, <3>4, <3>5 DEF Quantizing
  <2>4. CASE ~(num >= den)
    <3>1. den' = den /\ shift' = shift /\ qpc' = "double" /\ num' = num
      BY <1>3, <2>4 DEF Halve
    <3>2. den \in Nat
      BY <1>1, <2>1, <2>2, Z3 DEF Scaled
    <3>3. Scaled(h, 0)' /\ num' < den' /\ (h = 0 \/ den' <= 2 * num')
      BY <1>1, <2>1, <2>2, <2>4, <3>1, <3>2 DEF Scaled
    <3>4. QED
      BY <1>1, <3>1, <3>3 DEF Quantizing
  <2>5. QED
    BY <2>3, <2>4
<1>4. CASE Double
  <2>1. PICK h \in Nat, d \in Nat : /\ Scaled(h, d) /\ num < den
                                    /\ (h = 0 \/ den <= 2 * num)
    BY <1>4 DEF Double, Quantizing
  <2>2. Two(d) \in Nat /\ Two(d + 1) = 2 * Two(d) /\ num \in Nat /\ den \in Nat
    <3>1. Two(d) \in Nat /\ Two(h) \in Nat /\ Two(d + 1) = 2 * Two(d)
      BY <2>1, TwoType, TwoSucc
    <3>2. QED
      BY <1>1, <2>1, <3>1, Z3 DEF Scaled
  <2>3. CASE 2 * num < den
    <3>1. num' = num * 2 /\ shift' = shift - 1 /\ qpc' = "double" /\ den' = den
      BY <1>4, <2>3 DEF Double
    <3>2. h = 0 /\ num' < den'
      BY <2>1, <2>2, <2>3, <3>1
    <3>3. num' = num0 * Two(d + 1)
      BY <1>1, <2>1, <2>2, <3>1, Z3 DEF Scaled
    <3>4. Scaled(h, d + 1)'
      BY <1>1, <2>1, <3>1, <3>2, <3>3 DEF Scaled
    <3>5. QED
      BY <1>1, <2>1, <3>1, <3>2, <3>4 DEF Quantizing
  <2>4. CASE ~(2 * num < den)
    <3>1. num' = num /\ shift' = shift /\ qpc' = "round" /\ den' = den
      BY <1>4, <2>4 DEF Double
    <3>2. Scaled(h, d)' /\ num' < den' /\ den' <= 2 * num'
      BY <1>1, <2>1, <2>2, <2>4, <3>1 DEF Scaled
    <3>3. QED
      BY <1>1, <2>1, <3>1, <3>2 DEF Quantizing
  <2>5. QED
    BY <2>3, <2>4
<1>5. CASE Round
  <2>1. PICK h \in Nat, d \in Nat : Scaled(h, d) /\ num < den /\ den <= 2 * num
    BY <1>5 DEF Round, Quantizing
  <2>2. Multiplier' /\ qpc' = "ready"
    BY <1>1, <1>5, <2>1, RoundStep DEF Round
  <2>3. QED
    BY <1>1, <2>2 DEF Quantizing
<1>6. QED
  BY <1>2, <1>3, <1>4, <1>5 DEF QuantizeMultiplier

-------------------------------------------------------------------------------
(* Rescaling an accumulator.                                               *)

LEMMA FloorDivision ==
    ASSUME NEW a \in Int, NEW b \in Nat \ {0}
    PROVE  a \div b \in Int /\ a % b \in 0..(b - 1) /\ a = (a \div b) * b + (a % b)
BY Z3

LEMMA Magnitude ==
    ASSUME NEW a \in Int, NEW b \in Int, NEW k \in Nat, -b <= a, a <= b
    PROVE  -(k * b) <= k * a /\ k * a <= k * b
BY Z3

LEMMA SignedMagnitude ==
    ASSUME NEW a \in Int, NEW b \in Int, NEW c \in Int, -b <= a, a <= b
    PROVE  -(Abs(c) * b) <= c * a /\ c * a <= Abs(c) * b
<1>1. CASE c < 0
  <2>1. Abs(c) = -c /\ -c \in Nat
    BY <1>1 DEF Abs
  <2>2. -((-c) * b) <= (-c) * a /\ (-c) * a <= (-c) * b
    BY <2>1, Magnitude
  <2>3. (-c) * a = -(c * a) /\ c * a \in Int /\ (-c) * b \in Int
    BY Z3
  <2>4. QED
    BY <2>1, <2>2, <2>3
<1>2. CASE ~(c < 0)
  BY <1>2, Magnitude DEF Abs
<1>3. QED
  BY <1>1, <1>2

LEMMA AbsBound ==
    ASSUME NEW a \in Int, NEW k \in Nat, NEW b \in Int, -b <= a * k, a * k <= b
    PROVE  Abs(a) * k <= b
<1>1. a * k \in Int /\ (-a) * k = -(a * k)
  BY Z3
<1>2. QED
  BY <1>1 DEF Abs

\* No intermediate product overflows, and v is the nearest to x * M0 / 2^rs.
LEMMA RequantIs ==
    ASSUME Multiplier, NEW a \in Acc
    PROVE  /\ requant(a) \in Int
           /\ shift > B => requant(a) = a * M0 * Two(shift - B)
           /\ shift <= B => LET R == Two(B - shift)
                            IN  /\ -R <= 2 * (requant(a) * R - a * M0)
                                /\ 2 * (requant(a) * R - a * M0) <= R
<1> DEFINE P == Two(B)
           H == Two(2 * B + 1)
           y == a * M0
<1>1. /\ B \in Nat \ {0} /\ shift \in (-(B + 1))..(B + 2) /\ M0 \in 0..(P - 1)
      /\ shift = B + 2 => M0 = Two(B - 1)
  BY Given DEF Multiplier
<1>2. P \in Nat \ {0} /\ a \in Int /\ -P <= a /\ a <= P - 1
  BY <1>1, TwoPositive DEF Acc, Two
<1>3. H = 2 * (P * P)
  <2>1. B + B = 2 * B /\ 2 * B \in Nat
    BY <1>1
  <2>2. Two(B + B) = P * P
    BY <1>1, TwoPlus
  <2>3. Two(2 * B + 1) = 2 * Two(2 * B)
    BY <2>1, TwoSucc
  <2>4. QED
    BY <2>1, <2>2, <2>3
<1> HIDE DEF H
<1>4. P * P \in Nat \ {0} /\ H \in Nat
  BY <1>2, <1>3, Z3
<1>5. y \in Int /\ -(P * P) < y /\ y < P * P
  <2>1. M0 \in Nat /\ M0 <= P - 1
    BY <1>1, <1>2
  <2>2. -P <= a /\ a <= P
    BY <1>2
  <2>3. -(M0 * P) <= M0 * a /\ M0 * a <= M0 * P
    BY <1>2, <2>1, <2>2, Z3
  <2>4. M0 * P < P * P
    BY <1>2, <2>1, Z3
  <2>5. M0 * a = a * M0 /\ M0 * P \in Nat /\ M0 * a \in Int
    BY <1>2, <2>1, Z3
  <2>6. QED
    BY <1>4, <2>3, <2>4, <2>5
<1> HIDE DEF y, P
<1>6. WrapProduct(y) = y
  BY <1>3, <1>4, <1>5, WrapInRange DEF H
<1>7. ASSUME shift > B
      PROVE  requant(a) = y * Two(shift - B) /\ requant(a) \in Int
  <2>1. requant(a) = WrapProduct(WrapProduct(y) * Two(-(B - shift))) /\ -(B - shift) = shift - B
    <3>1. ~(B - shift >= 0) /\ -(B - shift) = shift - B
      BY <1>1, <1>7
    <3>2. requant(a) = WrapProduct(WrapProduct(y) * Two(-(B - shift)))
      BY <3>1 DEF requant, Two, y
    <3>3. QED
      BY <3>1, <3>2
  <2>2. -H <= y * Two(shift - B) /\ y * Two(shift - B) < H /\ y * Two(shift - B) \in Int
    <3>1. CASE shift = B + 1
      <4>1. shift - B = 0 + 1
        BY <1>1, <3>1
      <4>2. Two(shift - B) = 2
        BY <4>1, TwoZero, TwoSucc
      <4>3. QED
        BY <1>3, <1>4, <1>5, <4>2
    <3>2. CASE shift = B + 2
      <4>1. shift - B = (0 + 1) + 1
        BY <1>1, <3>2
      <4>2. Two(shift - B) = 4
        <5>1. Two(0 + 1) = 2 * 1 /\ 0 + 1 \in Nat
          BY TwoZero, TwoSucc
        <5>2. QED
          BY <4>1, <5>1, TwoSucc
      <4>3. M0 = Two(B - 1) /\ P = 2 * M0 /\ M0 \in Nat
        <5>1. B - 1 \in Nat /\ B = (B - 1) + 1
          BY <1>1
        <5>2. P = 2 * Two(B - 1) /\ Two(B - 1) \in Nat
          BY <5>1, TwoSucc, TwoType DEF P
        <5>3. QED
          BY <1>1, <3>2, <5>2
      <4>4. y * 4 = 2 * (a * P)
        BY <1>2, <4>3, Z3 DEF y
      <4>5. -(P * P) <= a * P /\ a * P < P * P /\ a * P \in Int
        <5>1. -(P * P) <= a * P /\ a * P <= (P - 1) * P
          BY <1>2, Z3
        <5>2. (P - 1) * P = P * P - P
          BY <1>2, Z3
        <5>3. a * P \in Int
          BY <1>2, Z3
        <5>4. QED
          BY <1>2, <1>4, <5>1, <5>2, <5>3
      <4>6. QED
        BY <1>3, <1>4, <4>2, <4>4, <4>5
    <3>3. QED
      BY <1>1, <1>7, <3>1, <3>2
  <2>3. WrapProduct(y * Two(shift - B)) = y * Two(shift - B)
    BY <2>2, WrapInRange DEF H
  <2>4. QED
    BY <1>6, <2>1, <2>2, <2>3
<1>8. ASSUME shift <= B
      PROVE  LET R == Two(B - shift)
             IN  /\ -R <= 2 * (requant(a) * R - y) /\ 2 * (requant(a) * R - y) <= R
                 /\ requant(a) \in Int
  <2> DEFINE rs == B - shift
             R == Two(rs)
             t == round_val(rs)
  <2>1. rs \in Nat /\ rs <= 2 * B + 1 /\ rs >= 0
    BY <1>1, <1>8
  <2>2. requant(a) = WrapProduct(WrapProduct(y) + t) \div R
    BY <2>1 DEF requant, Two, y
  <2>3. R \in Nat \ {0} /\ R <= H
    <3>1. 2 * B + 1 \in Nat
      BY <1>1
    <3>2. QED
      BY <2>1, <3>1, TwoPositive, TwoOrder DEF H
  <2>4. t \in Nat /\ (rs > 0 => R = 2 * t) /\ (rs = 0 => t = 0 /\ R = 1)
    <3>1. CASE rs > 0
      <4>1. rs - 1 \in Nat /\ rs = (rs - 1) + 1
        BY <2>1, <3>1
      <4>2. t = Two(rs - 1)
        BY <3>1 DEF round_val, Two
      <4>3. QED
        BY <3>1, <4>1, <4>2, TwoSucc, TwoType
    <3>2. CASE rs = 0
      BY <3>2, TwoZero DEF round_val
    <3>3. QED
      BY <2>1, <3>1, <3>2
  <2> HIDE DEF rs, R, t
  <2>5. t <= P * P
    BY <1>3, <1>4, <2>1, <2>3, <2>4
  <2>6. WrapProduct(y + t) = y + t /\ y + t \in Int
    BY <1>3, <1>4, <1>5, <2>4, <2>5, WrapInRange DEF H
  <2> DEFINE q == (y + t) \div R
             w == (y + t) % R
  <2>7. q \in Int /\ w \in 0..(R - 1) /\ y + t = q * R + w
    BY <2>3, <2>6, FloorDivision
  <2>8. requant(a) = q
    BY <1>6, <2>2, <2>6
  <2> HIDE DEF q, w
  <2>9. q * R \in Int
    BY <2>3, <2>7, Z3
  <2>10. -R <= 2 * (q * R - y) /\ 2 * (q * R - y) <= R
    <3>1. q * R - y = t - w
      BY <1>5, <2>3, <2>4, <2>7, <2>9
    <3>2. CASE rs > 0
      BY <2>3, <2>4, <2>7, <3>1, <3>2
    <3>3. CASE rs = 0
      BY <2>3, <2>4, <2>7, <3>1, <3>3
    <3>4. QED
      BY <2>1, <3>2, <3>3
  <2>11. QED
    BY <2>7, <2>8, <2>10 DEF R, rs
<1>9. QED
  BY <1>1, <1>7, <1>8 DEF y

(* The two errors add up to what a nearest integer may be off by.          *)
LEMMA RescaledIsRounded ==
    ASSUME Multiplier, num0 \in Numerators, NEW a \in Acc
    PROVE  IsRounded(requant(a), a)
<1> DEFINE D == Denominator
           T == Two(shift + B + 2)
           V == Two(2 * B + 2)
           y == a * M0
           e == 2 * (M0 * (D * T) - num0 * V)
           u == requant(a) * D - a * num0
<1>1. /\ B \in Nat \ {0} /\ D \in Nat \ {0} /\ num0 \in Nat
      /\ shift \in (-(B + 1))..(B + 2) /\ requant(a) \in Int
  BY Given, RequantIs DEF Multiplier
<1>2. M0 \in Nat /\ a \in Int
  <2>1. Two(B) \in Nat
    BY <1>1, TwoType
  <2>2. QED
    BY <1>1, <2>1 DEF Multiplier, Acc, Two
<1>3. T \in Nat \ {0} /\ V \in Nat \ {0} /\ shift + B + 2 \in Nat /\ 2 * B + 2 \in Nat
  <2>1. shift + B + 2 \in Nat /\ 2 * B + 2 \in Nat
    BY <1>1
  <2>2. QED
    BY <2>1, TwoPositive
<1>4. -(D * T) <= e /\ e <= D * T
  BY DEF Multiplier, Near
<1> HIDE DEF T, V
<1>5. D * T \in Nat /\ D * V \in Nat /\ e \in Int /\ y \in Int /\ u \in Int
  BY <1>1, <1>2, <1>3, Z3
<1>6. a * e \in Int /\ -(Abs(a) * (D * T)) <= a * e /\ a * e <= Abs(a) * (D * T)
  <2> HIDE DEF e, D
  <2>1. a * e \in Int
    BY <1>2, <1>5, Z3
  <2>2. QED
    BY <1>2, <1>4, <1>5, <2>1, SignedMagnitude
<1>7. Abs(a) \in Nat /\ Abs(a) * (D * T) \in Nat
  <2>1. Abs(a) \in Nat
    BY <1>2 DEF Abs
  <2>2. QED
    BY <1>5, <2>1, Z3
<1>8. ASSUME NEW f \in Int, -(D * V) <= f, f <= D * V, u * (2 * V) = f + a * e
      PROVE  Abs(u) * (2 * V) <= D * V + Abs(a) * (D * T)
  <2> HIDE DEF D, e, u
  <2>1. /\ -(D * V + Abs(a) * (D * T)) <= u * (2 * V)
        /\ u * (2 * V) <= D * V + Abs(a) * (D * T)
    BY <1>5, <1>6, <1>7, <1>8
  <2>2. 2 * V \in Nat /\ D * V + Abs(a) * (D * T) \in Int
    BY <1>3, <1>5, <1>7
  <2>3. QED
    BY <1>5, <2>1, <2>2, AbsBound
<1>9. Abs(u) * (2 * V) <= D * V + Abs(a) * (D * T)
  <2>1. CASE shift > B
    <3> DEFINE L == Two(shift - B)
    <3>1. requant(a) = y * L /\ shift - B \in Nat /\ L \in Nat
      <4>1. shift - B \in Nat
        BY <1>1, <2>1
      <4>2. QED
        BY <2>1, <4>1, RequantIs, TwoType
    <3>2. T = V * L
      <4>1. shift + B + 2 = (2 * B + 2) + (shift - B)
        BY <1>1
      <4>2. QED
        BY <1>3, <3>1, <4>1, TwoPlus DEF T, V
    <3> HIDE DEF L
    <3>3. u * (2 * V) = 0 + a * e
      <4>1. u = (a * M0) * L * D - a * num0
        BY <3>1
      <4>2. ((a * M0) * L * D - a * num0) * (2 * V)
                = 0 + a * (2 * (M0 * (D * (V * L)) - num0 * V))
        <5> HIDE DEF D
        <5>1. QED
          BY <1>1, <1>2, <1>3, <3>1, Z3
      <4>3. QED
        BY <3>2, <4>1, <4>2
    <3>4. -(D * V) <= 0 /\ 0 <= D * V
      BY <1>5
    <3>5. QED
      <4> HIDE DEF D, e, u
      <4>1. QED
        BY <1>8, <3>3, <3>4
  <2>2. CASE shift <= B
    <3> DEFINE R == Two(B - shift)
               g == 2 * (requant(a) * R - y)
    <3>1. B - shift \in Nat /\ R \in Nat /\ -R <= g /\ g <= R
      <4>1. B - shift \in Nat
        BY <1>1, <2>2
      <4>2. QED
        BY <2>2, <4>1, RequantIs, TwoType
    <3>2. V = R * T
      <4>1. 2 * B + 2 = (B - shift) + (shift + B + 2)
        BY <1>1
      <4>2. QED
        BY <1>3, <3>1, <4>1, TwoPlus DEF T, V
    <3> HIDE DEF R
    <3>3. u * (2 * V) = (D * T) * g + a * e
      <4> DEFINE z == requant(a)
      <4>1. z \in Int
        BY <1>1
      <4> HIDE DEF z, D
      <4>2. (z * D - a * num0) * (2 * (R * T))
                = (D * T) * (2 * (z * R - a * M0)) + a * (2 * (M0 * (D * T) - num0 * (R * T)))
        BY <1>1, <1>2, <1>3, <3>1, <4>1, Z3
      <4>3. QED
        BY <3>2, <4>2 DEF z
    <3>4. g \in Int
      <4> DEFINE z == requant(a)
      <4>1. z \in Int
        BY <1>1
      <4> HIDE DEF z
      <4>2. 2 * (z * R - y) \in Int
        BY <1>5, <3>1, <4>1, Z3
      <4>3. QED
        BY <4>2 DEF z
    <3>5. -(D * V) <= (D * T) * g /\ (D * T) * g <= D * V /\ (D * T) * g \in Int
      <4> HIDE DEF g, D
      <4>1. -((D * T) * R) <= (D * T) * g /\ (D * T) * g <= (D * T) * R
        BY <1>5, <3>1, <3>4, Magnitude
      <4>2. (D * T) * R = D * V
        BY <1>1, <1>3, <3>1, <3>2, Z3
      <4>3. (D * T) * g \in Int
        BY <1>5, <3>4, Z3
      <4>4. QED
        BY <4>1, <4>2, <4>3
    <3>6. QED
      <4> HIDE DEF D, e, u, g
      <4>1. QED
        BY <1>8, <3>3, <3>5
  <2>3. QED
    BY <1>1, <2>1, <2>2
<1>10. Two(2 * B + 4) = 4 * V /\ Two(2 * B + 4 + 1) = 8 * V
  <2>1. /\ 2 * B + 4 = ((2 * B + 2) + 1) + 1 /\ (2 * B + 2) + 1 \in Nat /\ 2 * B + 4 \in Nat
    BY <1>1
  <2>2. Two((2 * B + 2) + 1) = 2 * V
    BY <1>3, TwoSucc DEF V
  <2>3. Two(2 * B + 4) = 2 * (2 * V)
    BY <2>1, <2>2, TwoSucc
  <2>4. Two(2 * B + 4 + 1) = 2 * (2 * (2 * V))
    BY <2>1, <2>3, TwoSucc
  <2>5. QED
    BY <1>3, <2>3, <2>4
<1>11. Two((2 * B + 4) + shift - B - 1) = 2 * T
  <2>1. (2 * B + 4) + shift - B - 1 = (shift + B + 2) + 1
    BY <1>1
  <2>2. QED
    BY <1>3, <2>1, TwoSucc DEF T
<1>12. Abs(u) * (8 * V) <= D * (4 * V) + 2 * D * Abs(a) * (2 * T)
  <2> DEFINE b == Abs(u)
             c == Abs(a)
  <2>1. b \in Nat /\ c \in Nat
    <3> HIDE DEF u
    <3>1. QED
      BY <1>5, <1>7 DEF Abs
  <2>2. b * (2 * V) <= D * V + c * (D * T)
    BY <1>9
  <2> HIDE DEF b, c, D
  <2>3. b * (8 * V) = 4 * (b * (2 * V)) /\ b * (2 * V) \in Nat
    BY <1>3, <2>1, Z3
  <2>4. D * (4 * V) + 2 * D * c * (2 * T) = 4 * (D * V + c * (D * T))
    BY <1>1, <1>3, <2>1, Z3
  <2>5. D * V + c * (D * T) \in Nat
    BY <1>1, <1>3, <2>1, Z3
  <2>6. b * (8 * V) <= D * (4 * V) + 2 * D * c * (2 * T)
    BY <2>2, <2>3, <2>4, <2>5
  <2>7. QED
    BY <2>6 DEF b, c
<1>13. IsRounded(requant(a), a) <=>
          Abs(u) * Two(2 * B + 4 + 1) <=
              D * Two(2 * B + 4) + 2 * D * Abs(a) * Two((2 * B + 4) + shift - B - 1)
  BY DEF IsRounded, Two
<1>14. QED
  BY <1>10, <1>11, <1>12, <1>13

-------------------------------------------------------------------------------
(* The layer's activations.                                                *)

Sampled == {"pool", "flatten", "close", "wait", "returned"}
Relu(a) == IF a < 0 THEN 0 ELSE SmallerOf(a, ACT_MAX)

Rescaling ==
    /\ Quantizing /\ (pc # "quantize" => qpc = "ready")
    /\ pc \in Sampled \cup {"relu"} => v \in Int /\ IsRounded(v, acc)
    /\ pc = "relu" => h_i8 = clip(v, -ACT_MAX, ACT_MAX)
    /\ pc \in Sampled => h_i8 = Relu(v)

LEMMA ClipIsRelu ==
    ASSUME NEW a \in Int
    PROVE  /\ clip(clip(a, -ACT_MAX, ACT_MAX), 0, ACT_MAX) = Relu(a)
           /\ clip_relu(a) = Relu(a)
BY Given DEF clip, clip_relu, Relu, SmallerOf

LEMMA QuantizingKept ==
    ASSUME Quantizing, UNCHANGED quantVars
    PROVE  Quantizing'
BY DEF quantVars, Quantizing, Scaled, Multiplier, Near

LEMMA SampleKept ==
    ASSUME v \in Int /\ IsRounded(v, acc), UNCHANGED <<quantVars, sampleVars>>
    PROVE  v' \in Int /\ IsRounded(v, acc)'
BY DEF IsRounded, quantVars, sampleVars

\* An accumulator is rescaled.
LEMMA NewSample ==
    ASSUME Quantizing, qpc = "ready", NEW a \in Acc, acc' = a, v' = requant(a),
           UNCHANGED quantVars
    PROVE  v' \in Int /\ IsRounded(v, acc)'
<1>1. Multiplier /\ num0 \in Numerators
  BY DEF Quantizing
<1>2. requant(a) \in Int /\ IsRounded(requant(a), a)
  BY <1>1, RequantIs, RescaledIsRounded
<1>3. num0' = num0 /\ shift' = shift
  BY DEF quantVars
<1>4. QED
  BY <1>2, <1>3 DEF IsRounded

LEMMA RescalingStep == Rescaling /\ [Next]_vars => Rescaling'
<1> SUFFICES ASSUME Rescaling, [Next]_vars PROVE Rescaling'
  OBVIOUS
<1>1. CASE Quantize
  <2>1. Quantizing' /\ pc = "quantize"
    BY <1>1, QuantizeStep DEF Rescaling, Quantize
  <2>2. pc' \in {"quantize", "im2col"} /\ (pc' # "quantize" => qpc' = "ready")
    BY <1>1, <2>1 DEF Quantize
  <2>3. QED
    BY <2>1, <2>2 DEF Rescaling, Sampled
<1>2. ASSUME UNCHANGED <<quantVars, sampleVars>>, pc # "quantize", pc' # "quantize",
             pc' \in Sampled \cup {"relu"} => pc \in Sampled /\ pc' \in Sampled
      PROVE  Rescaling'
  <2>1. Quantizing' /\ qpc' = "ready"
    BY <1>2, QuantizingKept DEF Rescaling, quantVars
  <2>2. ASSUME pc' \in Sampled \cup {"relu"}
        PROVE  pc' \in Sampled /\ v' \in Int /\ IsRounded(v, acc)' /\ h_i8' = Relu(v)'
    <3>1. pc \in Sampled /\ pc' \in Sampled
      BY <1>2, <2>2
    <3>2. v \in Int /\ IsRounded(v, acc) /\ h_i8 = Relu(v)
      BY <3>1 DEF Rescaling
    <3>3. v' = v /\ h_i8' = h_i8
      BY <1>2 DEF sampleVars
    <3>4. QED
      BY <1>2, <3>1, <3>2, <3>3, SampleKept DEF Relu
  <2>3. QED
    BY <2>1, <2>2 DEF Rescaling, Sampled
<1>3. CASE Im2colStep
  BY <1>2, <1>3 DEF Im2colStep, Sampled
<1>4. CASE CallExecute
  BY <1>2, <1>4 DEF CallExecute, Sampled
<1>5. CASE CallDriver
  BY <1>2, <1>5 DEF CallDriver, Sampled
<1>6. CASE ExecuteStep
  BY <1>2, <1>6 DEF ExecuteStep, Sampled
<1>7. CASE DriverStep
  BY <1>2, <1>7 DEF DriverStep, Sampled
<1>8. ASSUME UNCHANGED <<quantVars, sampleVars, pc>> PROVE Rescaling'
  <2>1. Quantizing' /\ qpc' = qpc
    BY <1>8, QuantizingKept DEF Rescaling, quantVars
  <2>2. v \in Int /\ IsRounded(v, acc) => v' \in Int /\ IsRounded(v, acc)'
    BY <1>8, SampleKept
  <2>3. pc' = pc /\ v' = v /\ h_i8' = h_i8
    BY <1>8 DEF sampleVars
  <2>4. QED
    BY <2>1, <2>2, <2>3 DEF Rescaling, Relu, clip
<1>9. CASE RunnerStep \/ UNCHANGED vars
  BY <1>8, <1>9 DEF RunnerStep, vars
<1>10. CASE ReLU
  <2>1. /\ pc = "relu" /\ pc' \in {"pool", "close"}
        /\ h_i8' = clip(h_i8, 0, ACT_MAX) /\ v' = v /\ acc' = acc
        /\ UNCHANGED quantVars
    BY <1>10 DEF ReLU
  <2>2. v \in Int /\ IsRounded(v, acc) /\ h_i8 = clip(v, -ACT_MAX, ACT_MAX)
    BY <2>1 DEF Rescaling
  <2>3. Quantizing' /\ qpc' = "ready"
    BY <2>1, QuantizingKept DEF Rescaling, quantVars
  <2>4. v' \in Int /\ IsRounded(v, acc)'
    BY <2>1, <2>2 DEF IsRounded, quantVars
  <2>5. h_i8' = Relu(v)'
    BY <2>1, <2>2, ClipIsRelu DEF Relu
  <2>6. QED
    BY <2>1, <2>3, <2>4, <2>5 DEF Rescaling, Sampled
<1>11. CASE MaxPool
  BY <1>2, <1>11 DEF MaxPool, Sampled
<1>12. CASE Flatten
  BY <1>2, <1>12 DEF Flatten, Sampled
<1>13. CASE Close
  BY <1>2, <1>13 DEF Close, Sampled
<1>14. ASSUME NEW a \in Acc, MlpActivation(a) PROVE Rescaling'
  <2>1. /\ pc = "driver" /\ pc' = "returned" /\ acc' = a /\ v' = requant(a)
        /\ h_i8' = clip_relu(v') /\ UNCHANGED quantVars
    BY <1>14 DEF MlpActivation
  <2>2. Quantizing' /\ qpc' = "ready" /\ v' \in Int /\ IsRounded(v, acc)'
    BY <2>1, QuantizingKept, NewSample DEF Rescaling, quantVars
  <2>3. h_i8' = Relu(v)'
    BY <2>1, <2>2, ClipIsRelu DEF Relu
  <2>4. QED
    BY <2>1, <2>2, <2>3 DEF Rescaling, Sampled
<1>15. ASSUME NEW a \in Acc, ConvOutput(a) PROVE Rescaling'
  <2>1. /\ pc = "execute" /\ pc' = "relu" /\ acc' = a /\ v' = requant(a)
        /\ h_i8' = clip(v', -ACT_MAX, ACT_MAX) /\ UNCHANGED quantVars
    BY <1>15 DEF ConvOutput
  <2>2. Quantizing' /\ qpc' = "ready" /\ v' \in Int /\ IsRounded(v, acc)'
    BY <2>1, QuantizingKept, NewSample DEF Rescaling, quantVars
  <2>3. QED
    BY <2>1, <2>2 DEF Rescaling, Sampled, clip
<1>16. QED
  BY <1>1, <1>3, <1>4, <1>5, <1>6, <1>7, <1>9, <1>10, <1>11, <1>12, <1>13, <1>14, <1>15 DEF Next

(* The fixed-point rescaling rounds to nearest, for every multiplier,      *)
(* every width and every accumulator: M0 has B significant bits and fits,  *)
(* no intermediate product overflows, and the activation is the rounded    *)
(* value cut off at 0 and ACT_MAX in the graph and in the C code.          *)
THEOREM RescalingIsExact == Spec => []ActivationIsRounded
<1>1. Init => Rescaling
  BY DEF Init, QuantInit, Rescaling, Quantizing, Sampled
<1>2. Rescaling => ActivationIsRounded
  <2> SUFFICES ASSUME Rescaling, pc \in Sampled
               PROVE  /\ IsNormalised /\ IsRounded(v, acc)
                      /\ h_i8 = IF v < 0 THEN 0 ELSE SmallerOf(v, ACT_MAX)
    BY DEF ActivationIsRounded, Sampled
  <2>1. qpc = "ready" /\ Multiplier
    BY DEF Rescaling, Quantizing, Sampled
  <2>2. IsNormalised
    <3>1. Two(B) \in Nat /\ Two(B - 1) \in Nat
      <4>1. B \in Nat /\ B - 1 \in Nat
        BY Given
      <4>2. QED
        BY <4>1, TwoType
    <3>2. num0 # 0 => M0 \in Two(B - 1)..(Two(B) - 1)
      BY <2>1, <3>1 DEF Multiplier
    <3>3. num0 = 0 => M0 = 0
      BY <2>1 DEF Multiplier
    <3>4. QED
      BY <3>2, <3>3 DEF IsNormalised, Two
  <2>3. QED
    BY <2>2 DEF Rescaling, Relu
<1>3. QED
  BY <1>1, <1>2, RescalingStep, PTL DEF Spec
===============================================================================
