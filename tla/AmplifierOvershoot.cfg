\* The amplifier with control inputs above 1.0, up to BSE_SIGNAL_KAPPA.
CONSTANTS
  LevelPercents = {100}
  Percents = {50, 100}
  Volumes <- MCVolumes
  AudioLevels <- MCAudio
  ControlLevels <- MCControlKappa
SPECIFICATION Spec
INVARIANT GainWithinUnit
