\* Note names with octave numbers beyond the range of int, on a target whose
\* int and long are narrowed to 16 and 24 bits.
CONSTANTS
  MinNote = 0
  MaxNote = 131
  KammerNote = 69
  KammerOctave = 1
  NoteVoid = 132
  IntBits = 16
  LongBits = 24
  Beyond = {"x"}
  Inputs <- MCOctaveInputs
SPECIFICATION ParseSpec
INVARIANT OctaveScales
