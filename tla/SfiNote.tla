------------------------------ MODULE SfiNote ------------------------------
(***************************************************************************)
(* The note name conversions of sfinote.cc: sfi_note_from_string_err       *)
(* parses a note name such as "Cis-1" or "#c2", sfi_note_to_string formats *)
(* a note, sfi_note_examine splits one into octave and semitone.           *)
(*                                                                         *)
(* A C string is a sequence of one-character tokens; the parser works on a *)
(* copy in heap memory, indices 0 .. Len(s) of which are allocated (the    *)
(* terminator NUL included).  A read or write past the allocation is       *)
(* undefined: the byte there is the constant Beyond, and the result        *)
(* records that it happened.                                               *)
(***************************************************************************)
EXTENDS Integers, Sequences

CONSTANTS
  MinNote, MaxNote,           \* SFI_MIN_NOTE, SFI_MAX_NOTE
  KammerNote, KammerOctave,   \* SFI_KAMMER_NOTE, SFI_KAMMER_OCTAVE
  NoteVoid,                   \* SFI_NOTE_VOID
  Beyond,                     \* bytes that may follow the allocation
  IntBits, LongBits           \* widths of C int and long (32 and 64 on LP64)

ASSUME IntBits \in Nat /\ LongBits \in Nat /\ 9 < IntBits /\ IntBits <= LongBits /\ LongBits < 31

NUL == "NUL"
Upper == [c \in {"A", "B", "C", "D", "E", "F", "G", "H", "I", "S"} |->
            CASE c = "A" -> "a" [] c = "B" -> "b" [] c = "C" -> "c" [] c = "D" -> "d"
              [] c = "E" -> "e" [] c = "F" -> "f" [] c = "G" -> "g" [] c = "H" -> "h"
              [] c = "I" -> "i" [] c = "S" -> "s"]
Digit == [d \in 0 .. 9 |-> CASE d = 0 -> "0" [] d = 1 -> "1" [] d = 2 -> "2"
                               [] d = 3 -> "3" [] d = 4 -> "4" [] d = 5 -> "5"
                               [] d = 6 -> "6" [] d = 7 -> "7" [] d = 8 -> "8"
                               [] OTHER -> "9"]
DigitValue(c) == CHOOSE d \in 0 .. 9 : Digit[d] = c
IsDigit(c) == \E d \in 0 .. 9 : Digit[d] = c

\* to_lower (c)
to_lower(c) == IF c \in DOMAIN Upper THEN Upper[c] ELSE c
\* strchr ("cdefgabh", to_lower (c)) != NULL: strchr also finds the NUL.
is_note_letter(c) == to_lower(c) \in {"c", "d", "e", "f", "g", "a", "b", "h", NUL}

IntMin == -(2 ^ (IntBits - 1))
LongMin == -(2 ^ (LongBits - 1))
LongMax == 2 ^ (LongBits - 1) - 1
\* A long stored in an int, and int arithmetic past its range: two's
\* complement wraparound, the code gcc generates for both.
ToInt(v) == ((v - IntMin) % 2 ^ IntBits) + IntMin

SFI_NOTE_CLAMP(n) == IF n < MinNote THEN MinNote ELSE IF n > MaxNote THEN MaxNote ELSE n
SFI_NOTE_IS_VALID(n) == MinNote <= n /\ n <= MaxNote

\* Mutant: the single-letter entry of c comes before ces and cis.
sfi_note_table_c_first ==
  LET base == KammerNote - KammerOctave * 12 IN
  << <<<<"c">>, base - 9>>, <<<<"c", "e", "s">>, base - 10>>, <<<<"c", "i", "s">>, base - 8>>,
     <<<<"d", "e", "s">>, base - 8>>, <<<<"d", "i", "s">>, base - 6>>, <<<<"d">>, base - 7>>,
     <<<<"e", "s">>, base - 6>>, <<<<"e", "i", "s">>, base - 4>>, <<<<"e">>, base - 5>>,
     <<<<"f", "e", "s">>, base - 5>>, <<<<"f", "i", "s">>, base - 3>>, <<<<"f">>, base - 4>>,
     <<<<"g", "e", "s">>, base - 3>>, <<<<"g", "i", "s">>, base - 1>>, <<<<"g">>, base - 2>>,
     <<<<"a", "s">>, base - 1>>, <<<<"a", "i", "s">>, base + 1>>, <<<<"a">>, base>>,
     <<<<"b", "e", "s">>, base + 1>>, <<<<"b", "i", "s">>, base + 3>>, <<<<"b">>, base + 2>>,
     <<<<"h">>, base + 2>> >>

\* sfi_note_table: <<name, note>> in the order the parser tries them.
sfi_note_table ==
  LET base == KammerNote - KammerOctave * 12 IN
  << <<<<"c", "e", "s">>, base - 10>>, <<<<"c", "i", "s">>, base - 8>>, <<<<"c">>, base - 9>>,
     <<<<"d", "e", "s">>, base - 8>>, <<<<"d", "i", "s">>, base - 6>>, <<<<"d">>, base - 7>>,
     <<<<"e", "s">>, base - 6>>, <<<<"e", "i", "s">>, base - 4>>, <<<<"e">>, base - 5>>,
     <<<<"f", "e", "s">>, base - 5>>, <<<<"f", "i", "s">>, base - 3>>, <<<<"f">>, base - 4>>,
     <<<<"g", "e", "s">>, base - 3>>, <<<<"g", "i", "s">>, base - 1>>, <<<<"g">>, base - 2>>,
     <<<<"a", "s">>, base - 1>>, <<<<"a", "i", "s">>, base + 1>>, <<<<"a">>, base>>,
     <<<<"b", "e", "s">>, base + 1>>, <<<<"b", "i", "s">>, base + 3>>, <<<<"b">>, base + 2>>,
     <<<<"h">>, base + 2>> >>

sfi_note_name_table ==
  << <<"C">>, <<"C", "i", "s">>, <<"D">>, <<"D", "i", "s">>, <<"E">>, <<"F">>,
     <<"F", "i", "s">>, <<"G">>, <<"G", "i", "s">>, <<"A">>, <<"A", "i", "s">>, <<"B">> >>

-----------------------------------------------------------------------------
(* Heap memory holding the parser's copy: a function from byte offsets.    *)
\* g_strdup_stripped: leading and trailing blanks removed.
RECURSIVE StripHead(_), StripTail(_)
StripHead(s) == IF s # <<>> /\ Head(s) = " " THEN StripHead(Tail(s)) ELSE s
StripTail(s) == IF s # <<>> /\ s[Len(s)] = " " THEN StripTail(SubSeq(s, 1, Len(s) - 1)) ELSE s
\* g_strdup_stripped followed by g_ascii_strdown, with the byte b after it.
Copy(s, b) ==
  LET t == StripTail(StripHead(s))
  IN [len |-> Len(t),
      at |-> [i \in 0 .. Len(t) + 4 |->
                IF i < Len(t) THEN to_lower(t[i + 1]) ELSE IF i = Len(t) THEN NUL ELSE b]]
Byte(m, i) == m.at[i]
Outside(m, i) == i > m.len

\* strtol (m + i, &s, 10): optional blanks and sign, then digits; returns
\* <<value, end, value of the digits as written>>, end = i when there are
\* no digits.  A value beyond the range of long saturates (errno ERANGE).
RECURSIVE Digits(_, _, _)
Digits(m, i, v) == IF IsDigit(Byte(m, i)) THEN Digits(m, i + 1, 10 * v + DigitValue(Byte(m, i)))
                   ELSE <<v, i>>
RECURSIVE SkipBlanks(_, _)
SkipBlanks(m, i) == IF Byte(m, i) = " " THEN SkipBlanks(m, i + 1) ELSE i
strtol(m, i) ==
  LET j == SkipBlanks(m, i)
      neg == Byte(m, j) = "-"
      k == IF Byte(m, j) \in {"-", "+"} THEN j + 1 ELSE j
      r == Digits(m, k, 0)
      v == IF neg THEN -r[1] ELSE r[1]
  IN IF r[2] = k THEN <<0, i, 0>>
     ELSE <<IF v > LongMax THEN LongMax ELSE IF v < LongMin THEN LongMin ELSE v, r[2], v>>

\* The table entry a prefix of the string at offset o matches, or 0.
\* The do-while compares name[p] with string[p] until name ends or a byte differs.
RECURSIVE MatchFrom(_, _, _, _)
MatchFrom(m, o, name, p) ==
  /\ to_lower(name[p + 1]) = to_lower(Byte(m, o + p))
  /\ (p + 1 < Len(name) => MatchFrom(m, o, name, p + 1))
\* The offsets the comparison of one entry reads.
RECURSIVE ReadsOf(_, _, _, _)
ReadsOf(m, o, name, p) ==
  {o + p} \cup IF p + 1 < Len(name) /\ to_lower(name[p + 1]) = to_lower(Byte(m, o + p))
               THEN ReadsOf(m, o, name, p + 1) ELSE {}
Match(m, o) ==
  LET hits == {i \in DOMAIN sfi_note_table : MatchFrom(m, o, sfi_note_table[i][1], 0)}
  IN IF hits = {} THEN 0 ELSE CHOOSE i \in hits : \A j \in hits : i <= j

\* sfi_note_from_string_err (s, &error): [note, error set, a byte outside
\* the copy was read or written]; b is the byte after the copy.  The result
\* also records the note of the matched name with its sharps, and the
\* octave number as written.
sfi_note_from_string_err(s, b) ==
  LET m0 == Copy(s, b)
      \* "#c": the leading sharp sign
      sh1 == Byte(m0, 0) = "#" /\ is_note_letter(Byte(m0, 1))
      r1 == {0} \cup (IF Byte(m0, 0) = "#" THEN {1} ELSE {})
      o1 == IF sh1 THEN 1 ELSE 0
      \* "c#": the trailing sharp sign, moved in place of the letter
      sh2 == is_note_letter(Byte(m0, o1)) /\ Byte(m0, o1 + 1) = "#"
      r2 == {o1} \cup (IF is_note_letter(Byte(m0, o1)) THEN {o1 + 1} ELSE {})
      m == IF sh2 THEN [m0 EXCEPT !.at[o1 + 1] = Byte(m0, o1)] ELSE m0
      o == IF sh2 THEN o1 + 1 ELSE o1
      sharp == (IF sh1 THEN 1 ELSE 0) + (IF sh2 THEN 1 ELSE 0)
      i == Match(m, o)
      tried == IF i = 0 THEN DOMAIN sfi_note_table ELSE 1 .. i
      r3 == UNION {ReadsOf(m, o, sfi_note_table[k][1], 0) : k \in tried}
      name == sfi_note_table[i][1]
      rest == o + Len(name)
      num == strtol(m, rest)
      fits == i # 0 /\ (Byte(m, rest) = NUL \/ Byte(m, num[2]) = NUL)
      oct == IF Byte(m, rest) = NUL THEN 0 ELSE ToInt(num[1])
      outside == \E k \in r1 \cup r2 \cup r3 : Outside(m0, k)
  IN IF [k \in 1 .. m0.len |-> Byte(m0, k - 1)] = <<"v", "o", "i", "d">>
     THEN [note |-> NoteVoid, error |-> FALSE, outside |-> FALSE, named |-> NoteVoid,
           octave |-> 0]
     ELSE [note |-> IF fits THEN SFI_NOTE_CLAMP(ToInt(sfi_note_table[i][2] + sharp
                                                     + ToInt(oct * 12)))
                    ELSE KammerNote,
           error |-> ~fits,
           outside |-> outside \/ (sh2 /\ Outside(m0, o1 + 1)),
           named |-> IF i = 0 THEN KammerNote ELSE sfi_note_table[i][2] + sharp,
           octave |-> IF ~fits \/ Byte(m, rest) = NUL THEN 0 ELSE num[3]]

-----------------------------------------------------------------------------
\* C integer division, truncating toward zero.
CDiv(a, b) == IF a >= 0 THEN a \div b ELSE -((-a) \div b)

\* Mutant: the octave is counted from the kammer note instead of its C.
sfi_note_examine_kammer(n) ==
  LET semitone == (n % 12) + (9 - (KammerNote % 12))
  IN [octave |-> CDiv((n - semitone) - KammerNote, 12) + KammerOctave, semitone |-> semitone]

\* sfi_note_examine (note, &octave, &semitone, ...)
sfi_note_examine(n) ==
  LET semitone == (n % 12) + (9 - (KammerNote % 12))
  IN [octave |-> CDiv((n - semitone) - (KammerNote - 9), 12) + KammerOctave,
      semitone |-> semitone]

\* "%+d"
RECURSIVE DecimalDigits(_)
DecimalDigits(v) == IF v < 10 THEN <<Digit[v]>> ELSE DecimalDigits(v \div 10) \o <<Digit[v % 10]>>
SignedDecimal(v) == IF v < 0 THEN <<"-">> \o DecimalDigits(-v) ELSE <<"+">> \o DecimalDigits(v)

\* sfi_note_to_string (note)
sfi_note_to_string(n) ==
  IF SFI_NOTE_IS_VALID(n)
  THEN LET e == sfi_note_examine(n)
           name == sfi_note_name_table[e.semitone + 1]
       IN IF e.octave # 0 THEN name \o SignedDecimal(e.octave) ELSE name
  ELSE <<"v", "o", "i", "d">>

-----------------------------------------------------------------------------
(* A note formatted by sfi_note_to_string and read back by                 *)
(* sfi_note_from_string_err, or an arbitrary string parsed.                *)
CONSTANTS
  Inputs   \* strings a caller may hand to the parser

NoNote == MinNote - 1

VARIABLES
  note,     \* the note formatted, or NoNote
  text,     \* the string handed to the parser
  beyond,   \* the byte after the parser's copy
  parsed,   \* the parser's result, or <<>> before it ran
  phase     \* "format", "parse", "done"

vars == <<note, text, beyond, parsed, phase>>

\* A valid note about to be formatted.
InitRoundTrip ==
  /\ note \in MinNote .. MaxNote
  /\ text = <<>> /\ beyond \in Beyond /\ parsed = <<>> /\ phase = "format"

\* A caller's string about to be parsed.
InitParse ==
  /\ note = NoNote
  /\ text \in Inputs /\ beyond \in Beyond /\ parsed = <<>> /\ phase = "parse"

Format ==
  /\ phase = "format"
  /\ text' = sfi_note_to_string(note)
  /\ phase' = "parse"
  /\ UNCHANGED <<note, beyond, parsed>>

Parse ==
  /\ phase = "parse"
  /\ parsed' = sfi_note_from_string_err(text, beyond)
  /\ phase' = "done"
  /\ UNCHANGED <<note, text, beyond>>

Done == phase = "done" /\ UNCHANGED vars

Next == Format \/ Parse \/ Done
RoundTripSpec == InitRoundTrip /\ [][Next]_vars
ParseSpec == InitParse /\ [][Next]_vars

-----------------------------------------------------------------------------
\* SFI_NOTE_GENERIC (semitone, octave)
Generic(ht, o) == KammerNote - 9 + ht + 12 * (o - KammerOctave)

(* sfi_note_examine splits every valid note into a semitone 0..11 and an   *)
(* octave that SFI_NOTE_GENERIC puts back together into the same note, as *)
(* bse_test_notes checks note by note.                                     *)
ExamineInverts ==
  note # NoNote =>
    LET e == sfi_note_examine(note)
    IN e.semitone \in 0 .. 11 /\ Generic(e.semitone, e.octave) = note

(* Every valid note, formatted by sfi_note_to_string, reads back as the    *)
(* same note without an error: the table order of sfi_note_table, the      *)
(* sharp handling and the octave suffix agree with the names and the "%+d" *)
(* octave that the formatter writes.                                       *)
RoundTrip ==
  phase = "done" /\ note # NoNote => parsed.note = note /\ ~parsed.error

(* The parser reads and writes only the bytes of its own copy of the       *)
(* string, the terminating NUL included.                                   *)
StaysInAllocation ==
  phase = "done" => ~parsed.outside


(* An octave number the parser accepts moves the named note by twelve      *)
(* semitones per octave, and SFI_NOTE_CLAMP then keeps the note within     *)
(* the note range: an octave whose semitone count o * 12 does not fit an  *)
(* int neither wraps around to a small octave nor turns a high note into  *)
(* the lowest one.                                                         *)
OctaveScales ==
  phase = "done" /\ ~parsed.error /\ parsed.note # NoteVoid =>
    parsed.note = SFI_NOTE_CLAMP(parsed.named + 12 * parsed.octave)

=============================================================================
