----------------------------- MODULE Oscillator -----------------------------
(***************************************************************************)
(* The oscillator kernel of gsloscillator-aux.cc: one call of              *)
(* oscillator_process_variants<OSC_FLAGS> processes a block of samples,    *)
(* carrying the phase position, the previous position and the last sync   *)
(* and frequency levels from one block to the next in GslOscData.          *)
(*                                                                         *)
(* The variant is fixed by constants (OSC_FLAG_ISYNC, OSC_FLAG_OSYNC,      *)
(* OSC_FLAG_FREQ, linear, exponential or no frequency modulation,         *)
(* OSC_FLAG_PWM_MOD and OSC_FLAG_PULSE_OSC).                               *)
(* Phase positions are PosBits-bit unsigned integers (uint32 in the code). *)
(* Frequencies are integers in Hz; a wavetable is identified by its index  *)
(* in the oscillator table, all tables having the same size, so they share *)
(* freq_to_step and phase_to_pos.  A produced sample is identified by the  *)
(* table and position it is read from.                                     *)
(***************************************************************************)
EXTENDS Naturals, Integers, Sequences

CONSTANTS
  ISync, OSync,    \* OSC_FLAG_ISYNC, OSC_FLAG_OSYNC
  WithFreq,        \* OSC_FLAG_FREQ: a frequency input is connected
  FmMode,          \* "none", "linear" (OSC_FLAG_LINEAR_MOD), "exp" (OSC_FLAG_EXP_MOD)
  PwmMod,          \* OSC_FLAG_PWM_MOD: a pulse width input is connected
  Pulse,           \* OSC_FLAG_PULSE_OSC: the pulse oscillator
  PosBits,         \* width of cur_pos / last_pos
  TableMaxFreq,    \* max_freq of each table of osc->config.table, ascending
  Step,            \* wave->freq_to_step
  Transpose,       \* osc->config.transpose_factor
  FmStrength,      \* osc->config.fm_strength
  SyncPos          \* osc->config.phase * wave->phase_to_pos

ASSUME ISync \in BOOLEAN /\ OSync \in BOOLEAN /\ WithFreq \in BOOLEAN
ASSUME PwmMod \in BOOLEAN /\ Pulse \in BOOLEAN
ASSUME FmMode \in {"none", "linear", "exp"}
ASSUME PosBits \in Nat \ {0} /\ Step \in Nat /\ Transpose \in Nat /\ FmStrength \in Nat

PosRange == 2 ^ PosBits
\* No pulse offset: the oscillator reads the table without subtraction.
NoPulse == [level |-> -1, wave |-> 0]
Positions == 0 .. PosRange - 1
ASSUME SyncPos \in Positions
Tables == 1 .. Len(TableMaxFreq)

-----------------------------------------------------------------------------
(* gsl_osc_table_lookup: the first table whose range holds the frequency,  *)
(* the last table when the frequency is above every range.                 *)
MinFreq(w) == IF w = 1 THEN 0 ELSE TableMaxFreq[w - 1]
MaxFreq(w) == TableMaxFreq[w]
gsl_osc_table_lookup(f) ==
  IF \E w \in Tables : f <= MaxFreq(w)
  THEN CHOOSE w \in Tables : f <= MaxFreq(w) /\ (w = 1 \/ f > MaxFreq(w - 1))
  ELSE Len(TableMaxFreq)

\* bse_dtoi (freq * transpose * fine_tune * wave->freq_to_step); the fine
\* tuning factor is folded into Step.
PosInc(f) == f * Transpose * Step

\* osc_update_pwm_offset (osc, level): the pulse offset for the pulse width
\* level on the current table (spec section 4.4: the offset is recomputed for
\* a new table).
PwmOffset(level, w) == [level |-> level, wave |-> w]

\* Mutant: a table switch keeps the pulse offset of the old table.
SwitchTableKeepsPwm(L, tf) ==
  LET w == gsl_osc_table_lookup(tf)
  IN IF w # L.wave
     THEN [L EXCEPT !.wave = w, !.sync_pos = SyncPos, !.pos_inc = tf * Step]
     ELSE L
\* The frequency tracking of one sample when the transposed frequency has
\* left the current table's range; the pulse oscillator restarts its pulse
\* width tracking from level 0 on the new table.
SwitchTable(L, tf) ==
  LET w == gsl_osc_table_lookup(tf)
  IN IF w # L.wave    \* orig_values != wave->values
     THEN [L EXCEPT !.wave = w, !.sync_pos = SyncPos, !.pos_inc = tf * Step,
                    !.last_pwm_level = IF Pulse THEN 0 ELSE @,
                    !.pwm_offset = IF Pulse THEN PwmOffset(0, w) ELSE @]
     ELSE L

\* The pulse width tracking of one sample: a changed level recomputes the
\* offset.  Levels are integers, so every change exceeds 1/65536.
TrackPwm(L, level) ==
  IF PwmMod /\ level # L.last_pwm_level
  THEN [L EXCEPT !.last_pwm_level = level, !.pwm_offset = PwmOffset(level, L.wave)]
  ELSE L

\* Mutant: the position sum is kept in a wider type and never reduced.
ToUintUnreduced(x) == x
\* A float sum assigned to a uint32: exact in range, undefined outside; the
\* x86-64 builds (cvttsd2si into a 64-bit register) keep the low 32 bits.
ToUint(x) == x % PosRange

\* Mutant: a position exactly on sync_pos counts as not yet passed.
IsSyncInclusive(L) ==
  LET is_sync == (IF SyncPos <= L.cur_pos THEN 1 ELSE 0)
                 + (IF L.last_pos <= SyncPos THEN 1 ELSE 0)
                 + (IF L.cur_pos < L.last_pos THEN 1 ELSE 0)
  IN IF is_sync >= 2 THEN 1 ELSE 0
\* The output sync test: sync_pos was passed between last_pos and cur_pos.
IsSync(L) ==
  LET is_sync == (IF SyncPos <= L.cur_pos THEN 1 ELSE 0)
                 + (IF L.last_pos < SyncPos THEN 1 ELSE 0)
                 + (IF L.cur_pos < L.last_pos THEN 1 ELSE 0)
  IN IF is_sync >= 2 THEN 1 ELSE 0

\* One iteration of the do-while loop for input sample i = [freq, sync, mod];
\* returns the new locals and the produced sample.
Sample(L, i) ==
  LET \* handle syncs
      edge == ISync /\ L.last_sync_level < i.sync
      L1 == [L EXCEPT !.cur_pos = IF edge THEN SyncPos ELSE @,
                      !.last_sync_level = IF ISync THEN i.sync ELSE @]
      sync_out == IF ~OSync THEN 0 ELSE IF edge THEN 1 ELSE IsSync(L1)
      \* track frequency changes
      tf == Transpose * i.freq
      L2 == IF WithFreq /\ i.freq # L1.last_freq_level
            THEN LET Lw == IF tf <= MinFreq(L1.wave) \/ tf > MaxFreq(L1.wave)
                           THEN SwitchTable(L1, tf)
                           ELSE [L1 EXCEPT !.pos_inc = tf * Step]
                 IN [Lw EXCEPT !.last_freq_level = i.freq]
            ELSE L1
      Lp == TrackPwm(L2, i.pwm)
      \* position increment
      step == CASE FmMode = "linear" -> Lp.pos_inc + Lp.pos_inc * FmStrength * i.mod
                [] FmMode = "exp"    -> Lp.pos_inc * 2 ^ (FmStrength * i.mod)
                [] OTHER             -> Lp.pos_inc
      next == IF FmMode = "none" THEN (Lp.cur_pos + step) % PosRange
                                 ELSE ToUint(Lp.cur_pos + step)
      L3 == [Lp EXCEPT !.last_pos = IF OSync THEN Lp.cur_pos ELSE @,
                       !.cur_pos = next]
  IN <<L3, [wave |-> Lp.wave, pos |-> Lp.cur_pos, sync |-> sync_out,
            pwm |-> IF Pulse THEN Lp.pwm_offset ELSE NoPulse]>>

RECURSIVE SampleLoop(_, _, _)
SampleLoop(L, ins, outs) ==
  IF ins = <<>> THEN <<L, outs>>
  ELSE LET r == Sample(L, Head(ins)) IN SampleLoop(r[1], Tail(ins), Append(outs, r[2]))

\* Mutant: the end of the block stores cur_pos as last_pos in every variant.
SavesCurPos(osc, ins) ==
  LET L0 == [cur_pos |-> osc.cur_pos, last_pos |-> osc.last_pos,
             last_sync_level |-> osc.last_sync_level,
             last_freq_level |-> osc.last_freq_level,
             last_pwm_level |-> osc.last_pwm_level, pwm_offset |-> osc.pwm_offset,
             wave |-> osc.wave, sync_pos |-> SyncPos,
             pos_inc |-> PosInc(osc.last_freq_level)]
      r == SampleLoop(L0, ins, <<>>)
  IN <<[r[1] EXCEPT !.last_pos = r[1].cur_pos], r[2]>>

\* oscillator_process_variants (osc, n_values, ...) for the input samples ins:
\* the new GslOscData and the samples produced.
oscillator_process_variants(osc, ins) ==
  LET pos_inc == PosInc(osc.last_freq_level)
      L0 == [cur_pos |-> osc.cur_pos, last_pos |-> osc.last_pos,
             last_sync_level |-> osc.last_sync_level,
             last_freq_level |-> osc.last_freq_level,
             last_pwm_level |-> osc.last_pwm_level, pwm_offset |-> osc.pwm_offset,
             wave |-> osc.wave, sync_pos |-> SyncPos, pos_inc |-> pos_inc]
      r == SampleLoop(L0, ins, <<>>)
      L == r[1]
  IN <<[cur_pos |-> L.cur_pos,
        last_pos |-> IF OSync THEN L.last_pos ELSE L.cur_pos,
        last_sync_level |-> L.last_sync_level,
        last_freq_level |-> L.last_freq_level,
        last_pwm_level |-> L.last_pwm_level,
        pwm_offset |-> L.pwm_offset,   \* written to osc in place
        wave |-> L.wave],
       r[2]>>

-----------------------------------------------------------------------------
(* The oscillator as the engine drives it: a stream of input samples is    *)
(* consumed by successive calls of oscillator_process_variants, each on a  *)
(* block of 1..MaxBlock samples.                                           *)
CONSTANTS
  FreqLevels, SyncLevels, ModLevels,  \* values an input sample may carry
  PwmLevels,
  InputLen,                           \* samples in the stream
  MaxBlock                            \* n_values of one call

ASSUME \A f \in FreqLevels :
         \A m \in ModLevels : Transpose * f * Step * (1 + FmStrength * m) < PosRange
Input == [freq : FreqLevels, sync : SyncLevels, mod : ModLevels, pwm : PwmLevels]

VARIABLES
  osc,       \* GslOscData carried between calls
  osc0,      \* GslOscData after gsl_osc_reset, kept for the reference run
  inputs,    \* the input stream
  consumed,  \* samples of the stream processed so far
  out,       \* samples produced so far
  reference  \* the samples of the whole stream processed as one block
vars == <<osc, osc0, inputs, consumed, out, reference>>

\* gsl_osc_reset after a configuration for frequency f.
ResetOsc(f) == [cur_pos |-> 0, last_pos |-> 0, last_sync_level |-> 0,
                last_freq_level |-> f, last_pwm_level |-> 0,
                pwm_offset |-> PwmOffset(0, gsl_osc_table_lookup(Transpose * f)),
                wave |-> gsl_osc_table_lookup(Transpose * f)]

Init ==
  /\ osc0 \in {ResetOsc(f) : f \in FreqLevels}
  /\ osc = osc0
  /\ inputs \in [1 .. InputLen -> Input]
  /\ consumed = 0
  /\ out = <<>>
  /\ reference = oscillator_process_variants(osc0, inputs)[2]

\* One call of oscillator_process_variants on the next n samples.
ProcessBlock(n) ==
  /\ consumed + n <= InputLen
  /\ \E r \in {oscillator_process_variants(osc, SubSeq(inputs, consumed + 1, consumed + n))} :
       /\ osc' = r[1]
       /\ out' = out \o r[2]
  /\ consumed' = consumed + n
  /\ UNCHANGED <<osc0, inputs, reference>>

\* The stream is used up.
Drained == consumed = InputLen /\ UNCHANGED vars

Next == (\E n \in 1 .. MaxBlock : ProcessBlock(n)) \/ Drained
Spec == Init /\ [][Next]_vars

-----------------------------------------------------------------------------
Offsets == [level : PwmLevels \cup {0}, wave : Tables]
Sample_ == [wave : Tables, pos : Positions, sync : {0, 1},
            pwm : Offsets \cup {NoPulse}]
TypeOK ==
  /\ osc \in [cur_pos : Positions, last_pos : Positions, last_sync_level : SyncLevels,
              last_freq_level : FreqLevels, last_pwm_level : PwmLevels \cup {0},
              pwm_offset : Offsets, wave : Tables]
  /\ consumed \in 0 .. InputLen
  /\ out \in Seq(Sample_) /\ Len(out) = consumed
  /\ reference \in Seq(Sample_)

\* What a listener hears of a sample: the table and position it is read
\* from, the pulse offset subtracted and the output sync level.
(* Block-split invariance: however the engine cuts the stream into blocks, *)
(* the samples oscillator_process_variants produces, and its output sync,  *)
(* are those of the stream processed as one block; the state saved in      *)
(* GslOscData at the end of a call must carry all a next call depends on.  *)
BlockSplitInvariant ==
  \A k \in 1 .. Len(out) : out[k] = reference[k]

\* sync_pos lies on the arc the phase travelled from a to b.
Crossed(a, b) == IF (SyncPos - a) % PosRange \in 1 .. ((b - a) % PosRange) THEN 1 ELSE 0
PrevPos(k) == IF k = 1 THEN osc0.last_pos ELSE out[k - 1].pos

\* An input sync edge at sample k: its sync level rose above the previous one.
SyncEdge(k) ==
  ISync /\ inputs[k].sync > (IF k = 1 THEN osc0.last_sync_level ELSE inputs[k - 1].sync)

(* Output sync: a sample carries a sync pulse exactly when an input sync   *)
(* edge reset its phase, or else when the phase passed sync_pos since the  *)
(* previous sample, including the first sample of a block, whose test      *)
(* compares with the last_pos the previous call saved.                     *)
SyncAtCrossings ==
  \A k \in 1 .. Len(out) :
    out[k].sync = IF SyncEdge(k) THEN 1 ELSE Crossed(PrevPos(k), out[k].pos)

(* The pulse oscillator subtracts the table read at the offset computed   *)
(* for its own table and for the pulse width level of the same input       *)
(* sample (level 0 without pulse width modulation): a table switch, which  *)
(* restarts pulse width tracking at level 0, and a block boundary, across  *)
(* which the level and offset live in GslOscData, never leave a sample     *)
(* with the offset of another table or of an earlier level.                *)
PulseOffsetCurrent ==
  Pulse => \A k \in 1 .. Len(out) :
             out[k].pwm = PwmOffset(IF PwmMod THEN inputs[k].pwm ELSE 0, out[k].wave)

=============================================================================
