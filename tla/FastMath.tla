------------------------------ MODULE FastMath ------------------------------
(***************************************************************************)
(* The inline fast-math functions of bsemathsignal.hh, over exact          *)
(* rationals <<numerator, denominator>>.  Each function is a straight-line *)
(* computation or a few branches; the model keeps the code's order of      *)
(* operations and its branches, and replaces each long decimal constant by *)
(* a nearby fraction with a small denominator, keeping the relations the   *)
(* code relies on (n2 = -d2, and 1.2046... = 1 + 0.2046...).               *)
(***************************************************************************)
EXTENDS Integers

(* Exact rational arithmetic; denominators are positive.                   *)
RECURSIVE Gcd(_, _)
Gcd(a, b) == IF b = 0 THEN a ELSE Gcd(b, a % b)
Abs(a) == IF a < 0 THEN -a ELSE a
Q(n, d) == LET g == Gcd(Abs(n), Abs(d))
               s == IF d < 0 THEN -1 ELSE 1
           IN <<(s * n) \div g, (s * d) \div g>>
QInt(n) == <<n, 1>>
Plus(x, y) == Q(x[1] * y[2] + y[1] * x[2], x[2] * y[2])
Times(x, y) == Q(x[1] * y[1], x[2] * y[2])
Over(x, y) == Q(x[1] * y[2], x[2] * y[1])
Neg(x) == <<-x[1], x[2]>>
Minus(x, y) == Plus(x, Neg(y))
Less(x, y) == x[1] * y[2] < y[1] * x[2]
LessEq(x, y) == x[1] * y[2] <= y[1] * x[2]
QAbs(x) == IF x[1] < 0 THEN Neg(x) ELSE x
Zero == QInt(0)
One == QInt(1)
Half == Q(1, 2)

-----------------------------------------------------------------------------
(* bse_approx_atan1: n1 = -0.4115..., n2 = -1.0091..., d1 = 0.8190...,     *)
(* d2 = 1.0091..., here n1 = -7/17, d1 = 9/11 and d2 = -n2 = 111/110.      *)
N1 == Q(-7, 17)
D1 == Q(9, 11)
D2 == Q(111, 110)
N2 == Neg(D2)

\* Mutant: the negative branch starts its denominator at +1.0, as the
\* positive branch does.
bse_approx_atan1_denominator_plus(x) ==
  IF Less(x, Zero)
  THEN LET denominator == Plus(Times(Plus(One, Times(x, D1)), x), D2)
           numerator == Plus(Times(x, Neg(N1)), N2)
       IN Minus(Neg(One), Over(numerator, denominator))
  ELSE LET denominator == Plus(Times(Plus(One, Times(x, D1)), x), D2)
           numerator == Plus(Times(x, N1), N2)
       IN Plus(One, Over(numerator, denominator))
\* The code: for x < 0 the positive formula is folded into -atan1(-x) by
\* hand, with the signs of n1 and of the leading 1 of the denominator flipped.
bse_approx_atan1(x) ==
  IF Less(x, Zero)
  THEN LET denominator == Plus(Times(Plus(Neg(One), Times(x, D1)), x), D2)
           numerator == Plus(Times(x, Neg(N1)), N2)
       IN Minus(Neg(One), Over(numerator, denominator))
  ELSE LET denominator == Plus(Times(Plus(One, Times(x, D1)), x), D2)
           numerator == Plus(Times(x, N1), N2)
       IN Plus(One, Over(numerator, denominator))

\* The documented formula: positive_atan1(x) = 1 + (n1 x + n2) / ((1 + d1 x) x + d2),
\* and atan1(x) = x < 0 ? -positive_atan1(-x) : positive_atan1(x).
PositiveAtan1(x) == Plus(One, Over(Plus(Times(N1, x), N2), Plus(Times(Plus(One, Times(D1, x)), x), D2)))
Atan1Reference(x) == IF Less(x, Zero) THEN Neg(PositiveAtan1(Neg(x))) ELSE PositiveAtan1(x)

-----------------------------------------------------------------------------
(* The quarter circles: c = 0.2046012479..., taken as 9/44, and            *)
(* 1.2046012479... as 1 + c, so that the end points stay exact.            *)
QC == Q(9, 44)
QC1 == Plus(One, QC)

bse_approx_qcircle1(x) == Over(Minus(Times(QC1, x), QC1), Minus(x, QC1))
bse_approx_qcircle2(x) == Over(Times(QC1, x), Plus(x, QC))
\* Mutant: the denominator takes 1.2046... where the code has 0.2046...
bse_approx_qcircle3_c1(x) == Over(Minus(QC, Times(QC, x)), Plus(x, QC1))
bse_approx_qcircle3(x) == Over(Minus(QC, Times(QC, x)), Plus(x, QC))
bse_approx_qcircle4(x) == Over(Times(Neg(QC), x), Minus(x, QC1))

bse_approx_qcircle(n, x) ==
  CASE n = 1 -> bse_approx_qcircle1(x)
    [] n = 2 -> bse_approx_qcircle2(x)
    [] n = 3 -> bse_approx_qcircle3(x)
    [] n = 4 -> bse_approx_qcircle4(x)

(* The quadrant each approximates: its values at x = 0 and x = 1, upper    *)
(* quadrants (1, 2) above the chord between them, lower ones below it.     *)
QuadrantStart == [n \in 1 .. 4 |-> IF n \in {1, 3} THEN One ELSE Zero]
QuadrantEnd   == [n \in 1 .. 4 |-> IF n \in {1, 3} THEN Zero ELSE One]
Upper(n) == n \in {1, 2}

-----------------------------------------------------------------------------
(* bse_approx2_exp2 .. bse_approx6_exp2 (ex): i = bse_ftoi (ex) is written *)
(* into the exponent bits of a float, which gives 2^i, and x = ex - i goes *)
(* into 1 + x (c1 + x (c2 + ... x cN)).  The model takes ex = e/2 for e in *)
(* -1 .. 1, where x is 0 or +-1/2, and computes exactly in integers scaled *)
(* by 10^7 * 2^(N+1), the code's 32-digit coefficients rounded to 7        *)
(* decimals.  Orders 7 to 9, and ex = +-1 at order 6, need more digits     *)
(* than 32-bit integers hold.                                              *)
Exp2Unit == 10000000
Exp2Coeff == <<6931472, 2402265, 555041, 96181, 13334, 1540>>
Exp2Orders == 2 .. 6

\* The documented error "within -1..+1" of each order, in units of 10^-9,
\* rounded down.
Exp2DocError == [n \in Exp2Orders |->
                   CASE n = 2 -> 12750000 [] n = 3 -> 1123415 [] n = 4 -> 78760
                     [] n = 5 -> 4608     [] n = 6 -> 255]

\* bse_ftoi (e/2): the nearest integer.  At a tie the code's comment rounds
\* half away from zero and lrint-based builds round half to even: either.
bse_ftoi(e) == IF e % 2 = 0 THEN {e \div 2} ELSE {(e - 1) \div 2, (e + 1) \div 2}

\* Mutant: the Horner nesting leaves out the last coefficient.
RECURSIVE Exp2HornerShort(_, _, _)
Exp2HornerShort(n, s, k) ==
  IF k = n - 1 THEN 2 * Exp2Coeff[n - 1]
  ELSE 2 ^ (n - k) * (IF k = 0 THEN Exp2Unit ELSE Exp2Coeff[k]) + s * Exp2HornerShort(n, s, k + 1)
\* 2^(n-k) * (ck + x (ck+1 + ... x cn)) * 10^7 for s = 2x: the code's nested
\* products from coefficient k inwards.
RECURSIVE Exp2Horner(_, _, _)
Exp2Horner(n, s, k) ==
  IF k = n THEN Exp2Coeff[n]
  ELSE 2 ^ (n - k) * (IF k = 0 THEN Exp2Unit ELSE Exp2Coeff[k]) + s * Exp2Horner(n, s, k + 1)

\* bse_approxN_exp2 (e/2) with integer part i, scaled by 10^7 * 2^(n+1).
bse_approx_exp2(n, e, i) == 2 ^ (i + 1) * Exp2Horner(n, e - 2 * i, 0)

-----------------------------------------------------------------------------
(* CLAMP (value, -limit, limit) *)
Clamp(v, l) == IF Less(v, Neg(l)) THEN Neg(l) ELSE IF Less(l, v) THEN l ELSE v

\* Mutant: the halving of the difference is left out.
bse_saturate_hard_unhalved(value, limit) ==
  Minus(QAbs(Plus(value, limit)), QAbs(Minus(value, limit)))
\* bse_saturate_hard: CLAMP () without branching.
bse_saturate_hard(value, limit) ==
  LET v1 == QAbs(Plus(value, limit))
      v2 == QAbs(Minus(value, limit))
  IN Times(Half, Minus(v1, v2))

\* bse_saturate_branching
bse_saturate_branching(value, limit) ==
  IF LessEq(limit, value) THEN limit
  ELSE IF LessEq(value, limit) THEN Neg(limit)
  ELSE value

=============================================================================
