\* Calls of bse_approx_atan1, the four quarter circles, bse_approx2..6_exp2 and the two saturation
\* functions; bse_saturate_branching's results are checked by FastMathSaturate.cfg.
CONSTANTS
  AtanArgs <- MCAtanArgs
  CircleArgs <- MCCircleArgs
  Values <- MCValues
  Limits <- MCLimits
SPECIFICATION Spec
INVARIANTS Atan1MatchesReference QCircleQuadrants SaturateHardClamps Exp2TieWithinError
