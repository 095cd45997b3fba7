------------------------------- MODULE Ratios -------------------------------
(***************************************************************************)
(* Exact non-negative rationals, the stand-in for the f64 scores of the    *)
(* validator.  A ratio is a record [num, den] kept in lowest terms, so two *)
(* ratios are equal exactly when the numbers they denote are equal.        *)
(* Scores are products and quotients of small counts, which the code       *)
(* computes in f64; the model computes them exactly (see README).          *)
(***************************************************************************)
EXTENDS Integers, Folds

RECURSIVE GCD(_, _)
GCD(a, b) == IF b = 0 THEN a ELSE GCD(b, a % b)

\* The ratio n/d in lowest terms (n >= 0, d > 0).
Rat(n, d) == LET g == GCD(n, d) IN [num |-> n \div g, den |-> d \div g]

RZero == Rat(0, 1)
ROne  == Rat(1, 1)

RAdd(a, b) == Rat(a.num * b.den + b.num * a.den, a.den * b.den)
RMul(a, b) == Rat(a.num * b.num, a.den * b.den)
\* Quotient a / b for b > 0.
RDiv(a, b) == Rat(a.num * b.den, a.den * b.num)
RLeq(a, b) == a.num * b.den <= b.num * a.den
RMin(a, b) == IF RLeq(a, b) THEN a ELSE b
RMax(a, b) == IF RLeq(a, b) THEN b ELSE a

\* floor(k * a) for a natural k: the "as u16" / "as u64" cast of k * a.
RFloorTimes(k, a) == (k * a.num) \div a.den

\* Sum of the ratios f(x) over a finite set S.
RSum(S, f(_)) == MapThenFoldSet(RAdd, RZero, f, LAMBDA T : CHOOSE x \in T : TRUE, S)
=============================================================================
