\* Short strings parsed, with any byte after the parser's copy.
CONSTANTS
  MinNote = 0
  MaxNote = 131
  KammerNote = 69
  KammerOctave = 1
  NoteVoid = 132
  IntBits = 16
  LongBits = 24
  Beyond = {"x", "#"}
  Inputs <- MCInputs
SPECIFICATION ParseSpec
INVARIANT StaysInAllocation
