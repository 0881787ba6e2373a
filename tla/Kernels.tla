------------------------------ MODULE Kernels -------------------------------
(***************************************************************************)
(* The CUDA kernels whose threads share nothing: the threads of the grid   *)
(* that pass the guard each write elements of the output.  A run of a      *)
(* kernel is the bag of its writes, as [thread -> [at |-> .., is |-> ..]]; *)
(* arrays begin at 0, and a pixel has the number of its first byte / 3.    *)
(***************************************************************************)
EXTENDS Integers, Sequences, FiniteSetsExt

CONSTANTS
    Block,       \* blockDim in each direction
    BLUR_SIZE

\* How many blocks the launches ask for: n / Block, rounded up.
Blocks(n) == (n + Block - 1) \div Block

\* threadIdx + blockDim * blockIdx, over the grid.
Threads(n) == {t + Block * b : t \in 0..(Block - 1), b \in 0..(Blocks(n) - 1)}

Threads2(width, height) == Threads(width) \X Threads(height)

\* vec_add.cu
vecAddKernel(A, B, n) ==
    [i \in {i \in Threads(n) : i < n} |-> [at |-> i, is |-> A[i] + B[i]]]

\* The guard of the kernels over an image or a matrix.
InImage(col, row, w, h) == col < w /\ row < h

Inside(w, h) == {t \in Threads2(w, h) : InImage(t[1], t[2], w, h)}

\* grayscale.cu: all three bytes get the weighted mean, here in hundredths and
\* before float arithmetic and the conversion to a byte have rounded it.
Gray(r, g, b) == 21 * r + 71 * g + 7 * b
colortoGrayscaleConvertion(Pin, w, h) ==
    [t \in Inside(w, h) |->
        LET grayOffset == t[2] * w + t[1]
        IN  [at |-> grayOffset,
             is |-> Gray(Pin[3 * grayOffset], Pin[3 * grayOffset + 1], Pin[3 * grayOffset + 2])]]

\* blur.cu: the mean of the square around the pixel, as far as it is inside.
blurKernel(in, w, h) ==
    [t \in Inside(w, h) |->
        LET Near(x) == (x - BLUR_SIZE)..(x + BLUR_SIZE)
            square == {p \in Near(t[1]) \X Near(t[2]) :
                          p[2] >= 0 /\ p[2] < h /\ p[1] >= 0 /\ p[1] < w}
            Pixel(p) == in[p[2] * w + p[1]]
        IN  [at |-> t[2] * w + t[1],
             is |-> MapThenSumSet(Pixel, square) \div Cardinality(square)]]

\* chapter3/matmul.cu
MatrixMulKernel(M, N, Width) ==
    [t \in Inside(Width, Width) |->
        [at |-> t[2] * Width + t[1],
         is |-> MapThenSumSet(LAMBDA k : M[t[2] * Width + k] * N[k * Width + t[1]],
                              0..(Width - 1))]]
==============================================================================
