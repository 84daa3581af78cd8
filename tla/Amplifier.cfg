\* The amplifier with control inputs in the nominal signal range.
CONSTANTS
  LevelPercents = {100}
  Percents = {50, 100}
  Volumes <- MCVolumes
  AudioLevels <- MCAudio
  ControlLevels <- MCControlNominal
SPECIFICATION Spec
PROPERTY LoopMatchesConnections
INVARIANT GainWithinUnit
