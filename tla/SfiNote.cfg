\* Every valid note formatted and parsed back.
CONSTANTS
  MinNote = 0
  MaxNote = 131
  KammerNote = 69
  KammerOctave = 1
  NoteVoid = 132
  IntBits = 16
  LongBits = 24
  Beyond = {"x"}
  Inputs = {}
SPECIFICATION RoundTripSpec
INVARIANT ExamineInverts
INVARIANT RoundTrip
