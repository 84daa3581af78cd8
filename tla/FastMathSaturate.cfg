\* Both saturation functions, values around small limits, the zero limit included.
CONSTANTS
  AtanArgs <- MCAtanArgs
  CircleArgs <- MCCircleArgs
  Values <- MCValues
  Limits <- MCLimits
SPECIFICATION Spec
INVARIANT SaturateClamps
