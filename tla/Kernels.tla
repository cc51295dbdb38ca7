------------------------------- MODULE Kernels -------------------------------
(***************************************************************************)
(* performance/kernels.c: the two versions of pinwheel, one pass of the    *)
(* innermost loop at a time, and glow, one pixel at a time.  An image is a *)
(* function from the indices 1..dim*dim; at index 0 stands its dimension.  *)
(* For pinwheel a pixel is known by its index in src.  For glow it is one  *)
(* of its three colours, which are treated alike.                          *)
(***************************************************************************)
EXTENDS Integers

CONSTANT Jobs   \* which kernel works on which image

block == 8

\* A colour of a pixel is an unsigned short.
unsigned_short == 0..65535

\* A job names a kernel, the dimension of the image and, for glow, the image.
\* The driver's dimensions are multiples of 32.
ASSUME JobAssumption ==
    \A c \in Jobs :
        /\ c.kernel \in {"none", "pinwheel", "naive_pinwheel", "glow"}
        /\ c.kernel # "none" => c.dim \in Nat \ {0}
        /\ c.kernel = "pinwheel" => c.dim % block = 0
        /\ c.kernel = "naive_pinwheel" => c.dim % 2 = 0
        /\ c.kernel = "glow" => c.src \in [1..c.dim * c.dim -> unsigned_short]

VARIABLES
    job,
    at,     \* the loop variables: [k, m, i, j], where k and m count blocks
    dest    \* the pixels that were written

kernelVars == <<job, at, dest>>

RIDX(i, j, n) == 1 + i * n + j

KernelsFresh ==
    /\ at = [k |-> 0, m |-> 0, i |-> 0, j |-> 0]
    /\ dest = <<>>
KernelsInit == job \in Jobs /\ KernelsFresh

KernelsEnded == job.kernel # "none" => at.k >= job.dim

(***************************************************************************)
(* pinwheel                                                                *)
(***************************************************************************)
gray(index) == [color |-> "gray", of |-> index]
same(index) == [color |-> "same", of |-> index]

\* dest[index] = pixel.
Assign(image, index, pixel) ==
    [n \in DOMAIN image \cup {index} |-> IF n = index THEN pixel ELSE image[n]]

\* What is written for the pixel (i, j).
Spin(image, i, j, inside, dim) ==
    IF inside THEN Assign(image, RIDX(dim - j - 1, i, dim), gray(RIDX(i, j, dim)))
              ELSE Assign(image, RIDX(i, j, dim), same(RIDX(i, j, dim)))

\* Not the code: a row below the middle begins like the one above it.
beginLow(i, dim) == IF i < dim \div 2 THEN dim \div 2 - i ELSE i - dim \div 2

\* The part of row i in the diamond: from begin up to end, which is not in it.
begin(i, dim) == IF i < dim \div 2 THEN dim \div 2 - i ELSE i + 1 - dim \div 2

end(i, dim) == IF i < dim \div 2 THEN dim \div 2 + i ELSE dim - (i + 1 - dim \div 2)

\* The next pass of the four loops.
After2(p, dim) ==
    CASE p.j + 2 < p.m + block                          -> [p EXCEPT !.j = @ + 2]
      [] p.j + 2 >= p.m + block /\ p.i + 1 < p.k + block -> [p EXCEPT !.i = @ + 1, !.j = p.m]
      [] p.j + 2 >= p.m + block /\ p.i + 1 >= p.k + block ->
            LET m == IF p.m + block < dim THEN p.m + block ELSE 0
                k == IF m = 0 THEN p.k + block ELSE p.k
            IN  [k |-> k, m |-> m, i |-> k, j |-> m]

pinwheel ==
    /\ job.kernel = "pinwheel" /\ ~KernelsEnded
    /\ LET i == at.i
           in(j) == j >= begin(i, job.dim) /\ j < end(i, job.dim)
           first == Spin(dest, i, at.j, in(at.j), job.dim)
       IN  dest' = Spin(first, i, at.j + 1, in(at.j + 1), job.dim)
    /\ at' = After2(at, job.dim)
    /\ UNCHANGED job

Abs(n) == IF n < 0 THEN -n ELSE n

\* The test of naive_pinwheel, in halves of a pixel.
diamond(i, j, dim) == Abs(2 * i + 1 - dim) + Abs(2 * j + 1 - dim) < dim

\* The next pass of two loops; at.k follows the rows.
After1(p, dim) ==
    IF p.j + 1 < dim THEN [p EXCEPT !.j = @ + 1] ELSE [k |-> p.i + 1, m |-> 0, i |-> p.i + 1, j |-> 0]

naive_pinwheel ==
    /\ job.kernel = "naive_pinwheel" /\ ~KernelsEnded
    /\ dest' = Spin(dest, at.i, at.j, diamond(at.i, at.j, job.dim), job.dim)
    /\ at' = After1(at, job.dim)
    /\ UNCHANGED job

(***************************************************************************)
(* glow                                                                    *)
(***************************************************************************)
\* Not the code: a column beyond the border is read in the next row.
colorWraps(src, i, j, dim) == IF i \in 0..dim - 1 /\ RIDX(i, j, dim) \in DOMAIN src
                              THEN src[RIDX(i, j, dim)] ELSE 0

\* A colour of src, or nothing beyond its border.
color(src, i, j, dim) == IF i \in 0..dim - 1 /\ j \in 0..dim - 1 THEN src[RIDX(i, j, dim)] ELSE 0

weighted_combo(dim, i, j, src) ==
    LET corner(ii, jj) == (color(src, ii, jj, dim) * 4) \div 25
    IN  (corner(i - 1, j - 1) + corner(i - 1, j + 1)
         + (color(src, i, j, dim) * 3) \div 10
         + corner(i + 1, j - 1) + corner(i + 1, j + 1)) % 65536

\* naive_glow and glow are the same loops.
glow ==
    /\ job.kernel = "glow" /\ ~KernelsEnded
    /\ dest' = Assign(dest, RIDX(at.i, at.j, job.dim), weighted_combo(job.dim, at.i, at.j, job.src))
    /\ at' = After1(at, job.dim)
    /\ UNCHANGED job

KernelsNext == pinwheel \/ naive_pinwheel \/ glow
KernelsSpec == KernelsInit /\ [][KernelsNext]_kernelVars

(***************************************************************************)
(* What driver.c compares with.                                            *)
(***************************************************************************)
\* The pixel that check_pinwheel puts at (i, j): the diamond turns into
\* itself, and (j, dim - 1 - i) comes to (i, j).
check_pinwheel(i, j, dim) ==
    IF diamond(i, j, dim) THEN gray(RIDX(j, dim - 1 - i, dim)) ELSE same(RIDX(i, j, dim))

\* Hundredths; the product of a colour with a weight is cut to an integer.
weights == <<<<16, 0, 16>>, <<0, 30, 0>>, <<16, 0, 16>>>>
check_weighted_sum(dim, i, j, src) ==
    LET part(ii, jj) == IF i + ii \in 0..dim - 1 /\ j + jj \in 0..dim - 1
                        THEN (src[RIDX(i + ii, j + jj, dim)] * weights[ii + 2][jj + 2]) \div 100 ELSE 0
        row(ii) == part(ii, -1) + part(ii, 0) + part(ii, 1)
    IN  row(-1) + row(0) + row(1)

(***************************************************************************)
(* Properties.                                                             *)
(***************************************************************************)
\* At the end the image is the one that the driver expects, and nothing but its
\* pixels was written.  The bounds that the blocked pinwheel computes for a row
\* are the diamond that the naive one finds by distance, and no pixel is left
\* out; glow gives what the weights say, and no sum is more than an unsigned
\* short holds.
Expected(i, j) ==
    IF job.kernel = "glow" THEN check_weighted_sum(job.dim, i, j, job.src)
                           ELSE check_pinwheel(i, j, job.dim)
ImageRight ==
    KernelsEnded /\ job.kernel # "none" =>
        /\ DOMAIN dest = 1..job.dim * job.dim
        /\ \A i \in 0..job.dim - 1, j \in 0..job.dim - 1 : dest[RIDX(i, j, job.dim)] = Expected(i, j)
=============================================================================
