----------------------------- MODULE MCSfiNote -----------------------------
(* Model values for SfiNote: the note range of sfinote.hh, and every       *)
(* string of up to two bytes over a sharp sign, a note letter and a blank. *)
EXTENDS SfiNote

MCInputs == {<<>>} \cup {<<x>> : x \in {"#", "c", " "}}
              \cup {<<x, y>> : x, y \in {"#", "c", " "}}

\* Note names with octave numbers beyond a 16-bit int: 65541 = 2^16 + 5,
\* 2731 * 12 = 32772 > 2^15 - 1, and -65531 = -2^16 + 5.
MCOctaveInputs ==
  {<<"c", "6", "5", "5", "4", "1">>, <<"c", "2", "7", "3", "1">>,
   <<"c", "-", "6", "5", "5", "3", "1">>}
=============================================================================
