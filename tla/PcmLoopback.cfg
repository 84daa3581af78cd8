\* A capture driver that always delivers full blocks, played back through
\* the output module with up to one further connection on each joint stream.
CONSTANTS
  BlockSize = 3
  MaxTicks = 4
  AllowShortRead = FALSE
  SynthLevels = {1}
SPECIFICATION FairSpec
INVARIANT InTypeOK
INVARIANT OutTypeOK
INVARIANT InputServesNewestFrames
INVARIANT WrittenIsMix
PROPERTY InputEventuallyRequired
