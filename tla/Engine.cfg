\* One PCM output, one PCM input and one synthesis module.
CONSTANTS
  o1 = o1
  i1 = i1
  s1 = s1
  OutModules <- MCOut
  InModules <- MCIn
  SynthModules <- MCSynth
  MaxCommits = 4
  MaxTicks = 2
SPECIFICATION FairSpec
INVARIANT TypeOK
INVARIANT NoPollOfFreedData
INVARIANT BlocksSeeWholeInserts
PROPERTY EngineRefinesAtomic
