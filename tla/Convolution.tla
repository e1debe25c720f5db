---- MODULE Convolution ----
(***************************************************************************)
(* The four GPU implementations of a convolution layer's forward pass.     *)
(* The threads of a block fill a tile of shared memory, meet at            *)
(* __syncthreads(), and sum products from the tile; blocks run in any      *)
(* order and at any pace.  An element of the input, of the filters or of   *)
(* the output is its index, and a sum the sequence of its products in the  *)
(* order they are added, which decides how a float is rounded.             *)
(***************************************************************************)
EXTENDS Integers, Sequences, SequencesExt

CONSTANTS
    Versions,       \* of forward: "simple", "tiled", "constmem", "fused"
    Shapes,         \* records [B, M, C, H, W, K]
    TILE_WIDTH      \* BLOCK_WIDTH in new-forward.cuh

ASSUME ConvolutionAssumption ==
    /\ Versions \subseteq {"simple", "tiled", "constmem", "fused"}
    /\ TILE_WIDTH \in Nat \ {0}
    /\ \A s \in Shapes :
          /\ s \in [{"B", "M", "C", "H", "W", "K"} -> Nat \ {0}]
          /\ s.K <= s.H /\ s.K <= s.W

VARIABLES
    version, shape,     \* what is called, and with which tensors
    phase,              \* of forward: "launch", "running", "done"
    image,              \* its loop over the images
    X_unroll,
    threads,            \* block and thread -> where it is and its cValue
    Ads, Bds,           \* block -> its tile of each matrix
    Y                   \* what has been written to the output

vars == <<version, shape, phase, image, X_unroll, threads, Ads, Bds, Y>>

Zero == -1          \* padding
Junk == -2          \* memory beyond an array

---------------------------------------------------------------------------
(* The dimensions forward computes from the tensors *)

H_out == shape.H - shape.K + 1
W_out == shape.W - shape.K + 1
H_unroll == H_out * W_out
w_base == shape.C * shape.K * shape.K
x_ind == shape.C * shape.H * shape.W
y_ind == shape.M * H_unroll

Tiles(n) == (n + TILE_WIDTH - 1) \div TILE_WIDTH

gridDim ==
    CASE version = "simple" ->
            [x : 0 .. shape.B - 1, y : 0 .. shape.M - 1, z : 0 .. Tiles(W_out) * Tiles(H_out) - 1]
      [] version = "fused" ->
            [x : 0 .. Tiles(H_unroll) - 1, y : 0 .. Tiles(shape.M) - 1, z : 0 .. shape.B - 1]
      [] OTHER ->
            [x : 0 .. Tiles(H_unroll) - 1, y : 0 .. Tiles(shape.M) - 1, z : {0}]

blockDim == [x : 0 .. TILE_WIDTH - 1, y : 0 .. TILE_WIDTH - 1]

\* The loop over images of the two versions that unroll ends one too late.
LastImage == IF version \in {"tiled", "constmem"} THEN shape.B ELSE 0

\* The element of image n that row c and column s of the unrolled input hold.
Unrolled(n, c, s) ==
    LET q == c % shape.K
        a == (c \div shape.K) % shape.K
        b == (c \div shape.K) \div shape.K
    IN  n * x_ind + b * shape.H * shape.W + (s \div W_out + a) * shape.W + (s % W_out) + q

---------------------------------------------------------------------------
(* matrixMultiply: the statements of one round of its loop *)

\* Mutant: threads do not wait before they overwrite the tile.
Round_NoLastSync ==
    CASE version = "simple" -> <<>>
      [] version = "tiled" -> <<"sync", "loadA", "sync", "loadB", "sync", "mac">>
      [] version = "constmem" -> <<"loadB", "sync", "mac">>
      [] version = "fused" -> <<"loadA", "loadB", "sync", "mac">>
Round ==
    CASE version = "simple" -> <<>>
      [] version = "tiled" -> <<"sync", "loadA", "sync", "loadB", "sync", "mac", "sync">>
      [] version = "constmem" -> <<"loadB", "sync", "mac", "sync">>
      [] version = "fused" -> <<"loadA", "loadB", "sync", "mac", "sync">>

\* Mutant: a last tile that is not full is left out.
Rounds_Floor == IF version = "simple" THEN 0 ELSE w_base \div TILE_WIDTH
Rounds == IF version = "simple" THEN 0 ELSE Tiles(w_base)

Row(b, t) == b.y * TILE_WIDTH + t.y
Col(b, t) == b.x * TILE_WIDTH + t.x

LoadA(b, t, i) ==
    LET col == i * TILE_WIDTH + t.x IN
    IF col < w_base /\ (version = "fused" => Row(b, t) < shape.M)
    THEN w_base * Row(b, t) + col ELSE Zero

LoadB(b, t, i) ==
    LET c == i * TILE_WIDTH + t.y
        at == c * H_unroll + Col(b, t)
    IN  IF c >= w_base THEN Zero
        ELSE IF version # "fused" THEN IF at \in DOMAIN X_unroll THEN X_unroll[at] ELSE Junk
        ELSE IF Col(b, t) < H_unroll THEN Unrolled(b.z, c, Col(b, t)) ELSE Zero

LastK == TILE_WIDTH - 1

\* The product of round i that a thread adds in step k, if it is not zero.
Product(b, t, i, k) ==
    LET a == IF version = "constmem" THEN Row(b, t) * w_base + i * TILE_WIDTH + k
             ELSE Ads[b][[t EXCEPT !.x = k]]
        x == Bds[b][[t EXCEPT !.y = k]]
    IN  IF i * TILE_WIDTH + k >= w_base \/ Zero \in {a, x} THEN <<>> ELSE <<<<x, a>>>>

---------------------------------------------------------------------------
(* forward_kernel, and the loops of the CPU's forward *)

Loop(n, Body(_)) == FlattenSeq([i \in 1 .. n |-> Body(i - 1)])

\* The products of output (h, w) of feature m of image b, in the order of
\* the loops.
Sum(b, m, h, w) ==
    Loop(shape.C, LAMBDA c : Loop(shape.K, LAMBDA p : Loop(shape.K, LAMBDA q :
        <<<<b * x_ind + c * shape.H * shape.W + (h + p) * shape.W + w + q,
            m * w_base + c * shape.K * shape.K + p * shape.K + q>>>>)))

\* The output row and column of a thread of forward_kernel.
RowOut(b, t) == (b.z \div Tiles(W_out)) * TILE_WIDTH + t.y
ColOut(b, t) == (b.z % Tiles(W_out)) * TILE_WIDTH + t.x

---------------------------------------------------------------------------
(* What a thread writes to the output *)

Stores(b, t) ==
    IF version = "simple" THEN RowOut(b, t) < H_out /\ ColOut(b, t) < W_out
    ELSE Row(b, t) < shape.M /\ Col(b, t) < H_unroll

OutputIndex(b, t) ==
    IF version = "simple"
    THEN b.x * y_ind + b.y * H_unroll + RowOut(b, t) * W_out + ColOut(b, t)
    ELSE (image + b.z) * y_ind + Row(b, t) * H_unroll + Col(b, t)

Output(b, t) ==
    IF version = "simple" THEN Sum(b.x, b.y, RowOut(b, t), ColOut(b, t))
    ELSE threads[<<b, t>>].cValue

---------------------------------------------------------------------------
(* Steps *)

Init ==
    /\ version \in Versions /\ shape \in Shapes
    /\ phase = "launch" /\ image = 0
    /\ X_unroll = <<>> /\ threads = <<>> /\ Ads = <<>> /\ Bds = <<>> /\ Y = <<>>

\* Mutant: threads without an element to compute do not take part.
Rest_Early(b, t) == IF Stores(b, t) THEN 0 ELSE Rounds
Rest(b, t) == 0

\* The host: unroll_gpu, whose threads each write an element of their own
\* that nothing reads before they end, and the call of the kernel.
Launch ==
    /\ phase = "launch"
    /\ phase' = "running"
    /\ X_unroll' = IF LastImage = 0 THEN X_unroll
                   ELSE [t \in 0 .. w_base * H_unroll - 1 |->
                            Unrolled(image, t \div H_unroll, t % H_unroll)]
    /\ threads' = [bt \in gridDim \X blockDim |->
                      [i |-> Rest(bt[1], bt[2]), at |-> 1, k |-> 0, cValue |-> <<>>]]
    /\ Ads' = [b \in gridDim |-> [t \in blockDim |-> Junk]]
    /\ Bds' = [b \in gridDim |-> [t \in blockDim |-> Junk]]
    /\ UNCHANGED <<version, shape, image, Y>>

\* The next image starts when the kernel has ended.
EndImage ==
    /\ phase = "running"
    /\ \A bt \in DOMAIN threads : threads[bt].i > Rounds
    /\ phase' = IF image < LastImage THEN "launch" ELSE "done"
    /\ image' = IF image < LastImage THEN image + 1 ELSE image
    /\ threads' = <<>> /\ Ads' = <<>> /\ Bds' = <<>>
    /\ UNCHANGED <<version, shape, X_unroll, Y>>

\* A thread whose statement is done goes to the next, or to the next round.
Advanced(thread) ==
    IF thread.at = Len(Round) THEN [thread EXCEPT !.at = 1, !.i = @ + 1]
    ELSE [thread EXCEPT !.at = @ + 1]

At(b, t, statement) ==
    threads[<<b, t>>].i < Rounds /\ Round[threads[<<b, t>>].at] = statement

Load(b, t) ==
    /\ \/ /\ At(b, t, "loadA")
          /\ Ads' = [Ads EXCEPT ![b][t] = LoadA(b, t, threads[<<b, t>>].i)]
          /\ UNCHANGED Bds
       \/ /\ At(b, t, "loadB")
          /\ Bds' = [Bds EXCEPT ![b][t] = LoadB(b, t, threads[<<b, t>>].i)]
          /\ UNCHANGED Ads
    /\ threads' = [threads EXCEPT ![<<b, t>>] = Advanced(@)]
    /\ UNCHANGED <<version, shape, phase, image, X_unroll, Y>>

Mac(b, t) ==
    LET thread == threads[<<b, t>>]
        added == [thread EXCEPT !.cValue = @ \o Product(b, t, thread.i, thread.k)]
    IN  /\ At(b, t, "mac")
        /\ threads' = [threads EXCEPT ![<<b, t>>] =
                          IF thread.k < LastK THEN [added EXCEPT !.k = @ + 1]
                          ELSE Advanced([added EXCEPT !.k = 0])]
        /\ UNCHANGED <<version, shape, phase, image, X_unroll, Ads, Bds, Y>>

Syncthreads(b) ==
    /\ \A t \in blockDim : At(b, t, "sync")
    /\ threads' = [bt \in DOMAIN threads |->
                      IF bt[1] = b THEN Advanced(threads[bt]) ELSE threads[bt]]
    /\ UNCHANGED <<version, shape, phase, image, X_unroll, Ads, Bds, Y>>

Store(b, t) ==
    /\ threads[<<b, t>>].i = Rounds
    /\ Y' = IF ~Stores(b, t) THEN Y
            ELSE [e \in DOMAIN Y \cup {OutputIndex(b, t)} |->
                     IF e = OutputIndex(b, t) THEN Output(b, t) ELSE Y[e]]
    /\ threads' = [threads EXCEPT ![<<b, t>>].i = @ + 1, ![<<b, t>>].cValue = <<>>]
    /\ UNCHANGED <<version, shape, phase, image, X_unroll, Ads, Bds>>

Thread(b, t) == Load(b, t) \/ Mac(b, t) \/ Store(b, t)

Next ==
    \/ Launch
    \/ EndImage
    \/ /\ phase = "running"
       /\ \E b \in gridDim : Syncthreads(b) \/ \E t \in blockDim : Thread(b, t)

Spec == Init /\ [][Next]_vars /\ WF_vars(Next)

---------------------------------------------------------------------------
(* Properties *)

InOutput == 0 .. shape.B * y_ind - 1

Reference(e) ==
    Sum(e \div y_ind, (e \div H_unroll) % shape.M, (e % H_unroll) \div W_out, e % W_out)

\* However its threads and blocks interleave, each implementation gives the
\* output of the CPU's loops, every element of it with the same products added
\* in the same order, whether or not the dimensions are multiples of the tile;
\* and those that launch every image at once write nothing beyond the output,
\* although their blocks do not fit it.
ComputesConvolution ==
    phase = "done" =>
        /\ \A e \in InOutput : e \in DOMAIN Y /\ Y[e] = Reference(e)
        /\ LastImage = 0 => DOMAIN Y = InOutput

\* Between two meetings of a block, no thread reads a cell of the tile that
\* another writes.
RaceFree ==
    \A bu \in DOMAIN threads : At(bu[1], bu[2], "mac") =>
        \A t \in blockDim \ {bu[2]} :
            /\ At(bu[1], t, "loadA") => t.y # bu[2].y \/ version = "constmem"
            /\ At(bu[1], t, "loadB") => t.x # bu[2].x

\* The threads of a block never wait for one that does not come: the call ends.
Finishes == <>(phase = "done")
====
