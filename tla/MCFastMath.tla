----------------------------- MODULE MCFastMath -----------------------------
(* Model values for FastMathCalls: exact rational arguments.               *)
EXTENDS FastMathCalls

\* Both signs, zero, and values near and far from it.
MCAtanArgs == {Q(-4, 1), QInt(-1), Q(-1, 4), Zero, Q(1, 4), One, QInt(4)}
\* The documented domain [0, 1], end points included.
MCCircleArgs == {Zero, Q(1, 4), Half, Q(3, 4), One}
\* Values on both sides of each limit.
MCValues == {QInt(-3), QInt(-1), Zero, QInt(1), QInt(3)}
MCLimits == {Zero, QInt(2)}
=============================================================================
