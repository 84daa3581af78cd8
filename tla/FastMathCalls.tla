--------------------------- MODULE FastMathCalls ---------------------------
(***************************************************************************)
(* A caller of the fast-math functions of bsemathsignal.hh.  The functions *)
(* are pure, so a call is one step; the state keeps the last two calls, so *)
(* that properties can compare the results of two calls of one function,   *)
(* as a caller feeding them a signal does from sample to sample.           *)
(***************************************************************************)
EXTENDS FastMath

CONSTANTS
  AtanArgs,    \* arguments of bse_approx_atan1, any real
  CircleArgs,  \* arguments of bse_approx_qcircle1..4, within [0, 1]
  Values,      \* values to saturate
  Limits       \* saturation limits, not negative

ASSUME \A l \in Limits : LessEq(Zero, l)
ASSUME \A x \in CircleArgs : LessEq(Zero, x) /\ LessEq(x, One)

Call(fn, arg, res) == [fn |-> fn, arg |-> arg, res |-> res]
NoCall == Call("none", <<>>, Zero)

VARIABLES prev, last

vars == <<prev, last>>

Init == prev = NoCall /\ last = NoCall

Return(c) == prev' = last /\ last' = c

CallAtan1(x) == Return(Call("atan1", <<x>>, bse_approx_atan1(x)))

CallQCircle(n, x) == Return(Call("qcircle", <<n, x>>, bse_approx_qcircle(n, x)))

CallSaturateHard(v, l) ==
  Return(Call("saturate_hard", <<v, l>>, bse_saturate_hard(v, l)))

\* A call of bse_approxN_exp2 (e/2) in a build whose bse_ftoi rounds a tie
\* one way or the other.
CallExp2(n, e) ==
  \E i \in bse_ftoi(e) : Return(Call("exp2", <<n, e, i>>, bse_approx_exp2(n, e, i)))

CallSaturateBranching(v, l) ==
  Return(Call("saturate_branching", <<v, l>>, bse_saturate_branching(v, l)))

Next ==
  \/ \E x \in AtanArgs : CallAtan1(x)
  \/ \E n \in 1 .. 4, x \in CircleArgs : CallQCircle(n, x)
  \/ \E v \in Values, l \in Limits : CallSaturateHard(v, l)
  \/ \E v \in Values, l \in Limits : CallSaturateBranching(v, l)
  \/ \E n \in Exp2Orders, e \in -1 .. 1 : CallExp2(n, e)

Spec == Init /\ [][Next]_vars

-----------------------------------------------------------------------------
(* bse_approx_atan1 computes the formula its documentation gives, with the *)
(* hand-folded negative branch equal to -positive_atan1(-x), and returns 0 *)
(* for 0 as documented.                                                    *)
Atan1MatchesReference ==
  last.fn = "atan1" =>
    /\ last.res = Atan1Reference(last.arg[1])
    /\ last.arg[1] = Zero => last.res = Zero

(* Each bse_approx_qcircleN maps [0, 1] into [0, 1], is exact at x = 0 and *)
(* x = 1 where its quadrant of the circle is, lies on the circle's side of *)
(* the chord between them, and moves in one direction between any two      *)
(* calls, as the quadrant does.                                            *)
QCircleQuadrants ==
  /\ last.fn = "qcircle" =>
       LET n == last.arg[1]
           x == last.arg[2]
           chord == Plus(QuadrantStart[n], Times(Minus(QuadrantEnd[n], QuadrantStart[n]), x))
       IN /\ LessEq(Zero, last.res) /\ LessEq(last.res, One)
          /\ x = Zero => last.res = QuadrantStart[n]
          /\ x = One => last.res = QuadrantEnd[n]
          /\ IF Upper(n) THEN LessEq(chord, last.res) ELSE LessEq(last.res, chord)
  /\ prev.fn = "qcircle" /\ last.fn = "qcircle" /\ prev.arg[1] = last.arg[1] =>
       LET n == last.arg[1]
       IN Less(prev.arg[2], last.arg[2]) =>
            IF Less(QuadrantStart[n], QuadrantEnd[n]) THEN Less(prev.res, last.res)
            ELSE Less(last.res, prev.res)

(* Where the integer part of bse_approxN_exp2 switches, at a half-integer *)
(* exponent, the result jumps: 2^i p(1/2) on one side, 2^(i+1) p(-1/2) on  *)
(* the other, and bse_ftoi's rounding of the tie picks one.  Any two calls *)
(* of one order at one exponent, whichever way each rounds, differ by at   *)
(* most twice the error the order documents within -1..+1: the switch     *)
(* keeps the approximation as continuous as its stated accuracy.           *)
Exp2TieWithinError ==
  prev.fn = "exp2" /\ last.fn = "exp2" /\ prev.arg[1] = last.arg[1] /\ prev.arg[2] = last.arg[2] =>
    LET n == last.arg[1]
        jump == IF prev.res < last.res THEN last.res - prev.res ELSE prev.res - last.res
    IN jump * 100 <= 2 * Exp2DocError[n] * 2 ^ (n + 1)

(* bse_saturate_hard, CLAMP () done with two fabs () and no branch, returns *)
(* the value clamped to [-limit, limit].                                    *)
SaturateHardClamps ==
  last.fn = "saturate_hard" => last.res = Clamp(last.arg[1], last.arg[2])

(* Both saturation functions return the value clamped to [-limit, limit], *)
(* as their documentation says: a value within the limits comes back      *)
(* unchanged.                                                              *)
SaturateClamps ==
  last.fn \in {"saturate_hard", "saturate_branching"} =>
    last.res = Clamp(last.arg[1], last.arg[2])

=============================================================================
