-------------------------------- MODULE Blas --------------------------------
(***************************************************************************)
(* common-shims/omcweb_blas_extras.c: the five BLAS routines that sundials *)
(* needs, with their strides.  One turn of a loop per step.                *)
(*                                                                         *)
(* Vectors are taken as the memory from the address passed on; numbers are *)
(* exact.  The loops for strides of one are the general ones at that       *)
(* stride.                                                                 *)
(***************************************************************************)
EXTENDS Integers, FiniteSetsExt

CONSTANTS
    Routines,   \* the routines called
    Lengths,    \* the values of *n
    Strides,    \* the values of *incx and *incy
    Factors,    \* the values of *alpha
    Extent,     \* bound: the last index of the memory modelled
    Vectors     \* what that memory may hold

ASSUME BlasAssumption ==
    /\ Routines \subseteq {"dcopy", "ddot", "daxpy", "dscal", "dnrm2"}
    /\ Lengths \subseteq Int
    /\ Strides \subseteq Int
    /\ Factors \subseteq Int
    /\ Extent \in Nat
    \* what is passed is as long as its length and its stride say
    /\ \A n \in Lengths, s \in Strides : n > 0 => (n - 1) * s \in -Extent .. Extent
    /\ Vectors \subseteq [0 .. Extent -> Int]
    /\ Vectors # {}

Call == [op : Routines, n : Lengths, sx : Strides, sy : Strides, a : Factors,
         x : Vectors, y : Vectors]

VARIABLES
    calls,      \* the call in progress, or none
    step,       \* i
    ix, iy,     \* the indices of the turn
    xs, ys,     \* the memory x and y point to
    total,      \* ddot's s
    norm        \* dnrm2's scale, and its ssq as a fraction

blasVars == <<calls, step, ix, iy, xs, ys, total, norm>>

NormZero == [scale |-> 0, num |-> 0, den |-> 1]

\* Between calls no vector is of account.
AnyVector == CHOOSE v \in Vectors : TRUE

BlasInit ==
    /\ calls = {}
    /\ step = 0 /\ ix = 0 /\ iy = 0
    /\ xs = AnyVector /\ ys = AnyVector
    /\ total = 0
    /\ norm = NormZero

\* Mutant: a negative stride begins one element too early.
Begin_short(n, s) == IF s >= 0 THEN 0 ELSE (0 - n) * s

\* Where a loop begins: with a negative stride at the far end.
Begin(n, s) == IF s >= 0 THEN 0 ELSE (1 - n) * s

\* dscal and dnrm2 have one index, i * sx, whatever the sign of sx.
BeginX(c) == IF c.op \in {"dscal", "dnrm2"} THEN 0 ELSE Begin(c.n, c.sx)

\* dscal with a negative stride leaves its vector: see the README.
Usable(c) == c.op = "dscal" => c.sx >= 0

CallBlas ==
    /\ calls = {}
    /\ \E c \in Call :
          /\ Usable(c)
          /\ calls' = {c}
          /\ ix' = BeginX(c)
          /\ iy' = Begin(c.n, c.sy)
          /\ xs' = c.x /\ ys' = c.y
    /\ step' = 0
    /\ total' = 0
    /\ norm' = NormZero

\* The early returns: dnrm2 of a stride below one, daxpy by zero.
Skipped(c) ==
    \/ c.op = "dnrm2" /\ c.sx < 1
    \/ c.op = "daxpy" /\ c.a = 0

Over(c) == step >= c.n \/ Skipped(c)

Square(v) == v * v

\* Mutant: ssq is not rescaled when a larger element comes.
AddSquare_unscaled(v, e) ==
    IF e > v.scale THEN [scale |-> e, num |-> v.num + v.den, den |-> v.den]
    ELSE [scale |-> v.scale, num |-> v.num * Square(v.scale) + v.den * Square(e),
          den |-> v.den * Square(v.scale)]

\* dnrm2's turn for an element of absolute value e > 0: either way ssq * scale^2 grows
\* by e^2, with the larger of scale and e as the new scale.
AddSquare(v, e) ==
    LET s == IF v.scale < e THEN e ELSE v.scale IN
    [scale |-> s, num |-> v.num * Square(v.scale) + v.den * Square(e),
     den |-> v.den * Square(s)]

Absolute(v) == IF v < 0 THEN -v ELSE v

\* One turn of the loop.
Iterate(c) ==
    /\ ~Over(c)
    /\ step' = step + 1
    /\ ix' = ix + c.sx
    /\ iy' = iy + c.sy
    /\ xs' = IF c.op = "dscal" THEN [xs EXCEPT ![ix] = c.a * @] ELSE xs
    /\ ys' = CASE c.op = "dcopy" -> [ys EXCEPT ![iy] = xs[ix]]
               [] c.op = "daxpy" -> [ys EXCEPT ![iy] = @ + c.a * xs[ix]]
               [] OTHER -> ys
    /\ total' = IF c.op = "ddot" THEN total + xs[ix] * ys[iy] ELSE total
    /\ norm' = IF c.op = "dnrm2" /\ xs[ix] # 0 THEN AddSquare(norm, Absolute(xs[ix])) ELSE norm
    /\ UNCHANGED calls

\* The caller has its result.
Answer(c) ==
    /\ Over(c)
    /\ calls' = {}
    /\ step' = 0 /\ ix' = 0 /\ iy' = 0
    /\ xs' = AnyVector /\ ys' = AnyVector
    /\ total' = 0
    /\ norm' = NormZero

InBlas == \E c \in calls : Iterate(c) \/ Answer(c)

BlasNext == CallBlas \/ InBlas

BlasSpec == BlasInit /\ [][BlasNext]_blasVars

-----------------------------------------------------------------------------
BlasTypeOK ==
    /\ calls \subseteq Call /\ Cardinality(calls) <= 1
    /\ step \in Nat /\ ix \in Int /\ iy \in Int
    /\ xs \in [0 .. Extent -> Int] /\ ys \in [0 .. Extent -> Int]
    /\ total \in Int
    /\ norm \in [scale : Nat, num : Nat, den : Nat \ {0}]

\* The index of element k (from 0) of a vector of n: what a stride means in BLAS.
Cell(n, s, k) == IF s >= 0 THEN k * s ELSE (n - 1 - k) * (-s)

\* Every access is to the element of the vector that the turn is for, and so inside
\* the vector, whatever the signs of the strides.
AtItsElement ==
    \A c \in calls : ~Over(c) =>
        /\ ix = Cell(c.n, c.sx, step)
        /\ c.op \notin {"dscal", "dnrm2"} => iy = Cell(c.n, c.sy, step)

\* The elements a call has to do with, and their number.
Turns(c) == IF c.n > 0 THEN c.n ELSE 0
XAt(c, k) == c.x[Cell(c.n, c.sx, k)]
YAt(c, k) == c.y[Cell(c.n, c.sy, k)]

\* The sums of the first of the n numbers f[0], f[1] and so on.
Sums(f, n) ==
    LET sum[k \in 0 .. n] == IF k = 0 THEN 0 ELSE sum[k - 1] + f[k - 1] IN sum

\* The first m elements of a vector of n that lie in cell i.
In(m, n, s, i) == {k \in 0 .. m - 1 : Cell(n, s, k) = i}

\* What the first m turns of each routine should leave: the copy in y, y with alpha times
\* x added to it, x scaled, the inner product, the sum of the squares, each over the
\* elements the strides choose, with nothing else changed.
Copied(c, m) ==
    [i \in 0 .. Extent |->
        LET K == In(m, c.n, c.sy, i) IN IF K = {} THEN c.y[i] ELSE XAt(c, Max(K))]
Added(c, m) ==
    [i \in 0 .. Extent |->
        c.y[i] + c.a * Sums([k \in 0 .. Turns(c) - 1 |->
                                IF Cell(c.n, c.sy, k) = i THEN XAt(c, k) ELSE 0], Turns(c))[m]]
Scaled(c, m) ==
    [i \in 0 .. Extent |->
        IF In(m, c.n, c.sx, i) = {} THEN c.x[i] ELSE c.a * c.x[i]]
Products(c) == Sums([k \in 0 .. Turns(c) - 1 |-> XAt(c, k) * YAt(c, k)], Turns(c))
Squares(c)  == Sums([k \in 0 .. Turns(c) - 1 |-> Square(XAt(c, k))], Turns(c))

RightAfter(c, m) ==
    /\ c.op # "dscal" => xs = c.x
    /\ c.op = "dscal" /\ c.sx > 0 => xs = Scaled(c, m)
    /\ ys = CASE c.op = "dcopy" -> Copied(c, m)
              [] c.op = "daxpy" -> Added(c, m)
              [] OTHER -> c.y
    /\ c.op = "ddot" => total = Products(c)[m]
    /\ c.op = "dnrm2" /\ c.sx >= 1 => norm.num * Square(norm.scale) = norm.den * Squares(c)[m]

\* What a routine leaves is what it computes, whatever the signs of its strides: the
\* answer of dnrm2 is the root of the sum of the squares although it never forms that sum.
BlasRight == \A c \in calls : Over(c) => RightAfter(c, Turns(c))

=============================================================================
