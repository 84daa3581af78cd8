----------------------------- MODULE Amplifier -----------------------------
(***************************************************************************)
(* The amplifier synthesis module of bseamplifier.cc: Module::config turns *)
(* the properties into gains, Module::process picks a process_loop variant *)
(* from the connected input streams through the jump table built by        *)
(* mk_process_loop_table, and the loop computes each output sample as the  *)
(* audio mix times a control gain.  Samples carry no state from one to the *)
(* next, so a block is represented by one sample.  Values are exact        *)
(* rationals <<numerator, denominator>> of FastMath, whose                 *)
(* bse_approx_qcircle4 shapes the exponential control path.                *)
(***************************************************************************)
EXTENDS Integers, FastMath

CONSTANTS
  LevelPercents, \* values of alevel1, alevel2, clevel1 and clevel2
  Percents,      \* values of ostrength and base_level
  Volumes,       \* values of master_volume
  AudioLevels,   \* values an audio input sample may carry
  ControlLevels  \* values a control input sample may carry

\* p * 0.01
Pct(p) == Q(p, 100)

-----------------------------------------------------------------------------
Params == [alevel1 : LevelPercents, alevel2 : LevelPercents, clevel1 : LevelPercents,
           clevel2 : LevelPercents, ostrength : Percents, base_level : Percents,
           ctrl_mul : BOOLEAN, ctrl_exp : BOOLEAN, master_volume : Volumes]

\* Module::config
config(p) ==
  [al1 |-> Times(Pct(p.alevel1), p.master_volume),
   al2 |-> Times(Pct(p.alevel2), p.master_volume),
   cl1 |-> Pct(p.clevel1), cl2 |-> Pct(p.clevel2),
   ctrl_mul |-> p.ctrl_mul, ctrl_exp |-> p.ctrl_exp,
   ocs |-> IF p.ctrl_mul THEN Pct(p.ostrength) ELSE Times(Q(1, 2), Pct(p.ostrength)),
   bl |-> Pct(p.base_level)]

\* The case flags of process_loop<FLAGS, ...>.
ACASE_A1n_A2n == 0
ACASE_A1n_A2y == 1
ACASE_A1y_A2n == 2
ACASE_A1b_A2b == 3
CCASE_C1m_C2m == 0
CCASE_C1n_C2y == 4
CCASE_C1y_C2n == 8
CCASE_C1b_C2b == 12
WITH_EXP_CONTROLS == 16
ACase(f) == f % 4
CCase(f) == (f % 16) - (f % 4)
\* A nullptr entry of the jump table, and no sample.
NullPtr == -1
Null == <<>>

\* Mutant: the table leaves out the entries whose control case is zero.
mk_process_loop_table_ccase ==
  [i \in 0 .. 31 |-> IF CCase(i) # CCASE_C1m_C2m THEN i ELSE NullPtr]

\* mk_process_loop_table: entry i runs static_process_loop<i, false>, the
\* entries without audio input are nullptr.
mk_process_loop_table ==
  [i \in 0 .. 31 |-> IF ACase(i) # ACASE_A1n_A2n THEN i ELSE NullPtr]

Streams == {"au1", "au2", "cv1", "cv2"}

\* Mutant: the upper clamp of the control sum is missing.
ClampNone(v) == v
\* if (cv_sum > 1.0) cv_sum = 1.0;
ClampToOne(v) == IF Less(One, v) THEN One ELSE v

\* The control gain cv_sum of one sample of process_loop<FLAGS, simple>.
ControlSum(m, flags, simple, in) ==
  IF simple THEN m.bl
  ELSE LET c1 == Times(m.cl1, in.cv1)
           c2 == Times(m.cl2, in.cv2)
           raw == CASE CCase(flags) = CCASE_C1b_C2b -> Plus(c1, c2)
                    [] CCase(flags) = CCASE_C1m_C2m ->
                         IF Less(Zero, c1) /\ Less(Zero, c2) THEN Times(c1, c2) ELSE Zero
                    [] CCase(flags) = CCASE_C1y_C2n -> c1
                    [] CCase(flags) = CCASE_C1n_C2y -> c2
           scaled == IF Less(raw, Zero) THEN Zero ELSE Times(raw, m.ocs)
           shaped == IF flags >= WITH_EXP_CONTROLS THEN bse_approx_qcircle4(scaled)
                     ELSE scaled
       IN ClampToOne(Plus(shaped, m.bl))

\* The audio mix au_out of one sample.
AudioMix(m, flags, in) ==
  CASE ACase(flags) = ACASE_A1b_A2b -> Plus(Times(m.al1, in.au1), Times(m.al2, in.au2))
    [] ACase(flags) = ACASE_A1y_A2n -> Times(m.al1, in.au1)
    [] ACase(flags) = ACASE_A1n_A2y -> Times(m.al2, in.au2)

\* The mode Module::process computes from the connected streams.
ProcessMode(m, c) ==
  LET a == IF "au1" \in c /\ "au2" \in c THEN ACASE_A1b_A2b
           ELSE IF "au1" \in c THEN ACASE_A1y_A2n
           ELSE IF "au2" \in c THEN ACASE_A1n_A2y ELSE ACASE_A1n_A2n
      k == IF "cv1" \in c /\ "cv2" \in c
           THEN IF m.ctrl_mul THEN CCASE_C1m_C2m ELSE CCASE_C1b_C2b
           ELSE IF "cv1" \in c THEN CCASE_C1y_C2n
           ELSE IF "cv2" \in c THEN CCASE_C1n_C2y ELSE CCASE_C1m_C2m
      simple == {"cv1", "cv2"} \cap c = {}
  IN a + k + (IF ~simple /\ m.ctrl_exp THEN WITH_EXP_CONTROLS ELSE 0)

-----------------------------------------------------------------------------
VARIABLES
  module,     \* the Module's configuration (al1, al2, cl1, cl2, ocs, bl, ...)
  connected,  \* the input streams with a connection
  loop,       \* the process_loop variant the last process call ran, or NullPtr
  gain,       \* history: cv_sum of the last sample, or Null
  out,        \* the last output sample, or Null before the first call
  crashed     \* process called a nullptr entry of the jump table

vars == <<module, connected, loop, gain, out, crashed>>

Samples == [au1 : AudioLevels, au2 : AudioLevels, cv1 : ControlLevels, cv2 : ControlLevels]

\* The engine applies a property change: Module::config.
Config(p) ==
  /\ module' = config(p)
  /\ UNCHANGED <<connected, loop, gain, out, crashed>>

\* The engine connects or disconnects input streams of the module.
Reconnect(c) ==
  /\ connected' = c
  /\ UNCHANGED <<module, loop, gain, out, crashed>>

\* Module::process for a sample in of the input streams.
process(in) ==
  LET mode == ProcessMode(module, connected)
      simple == {"cv1", "cv2"} \cap connected = {}
      f == IF simple THEN mode ELSE mk_process_loop_table[mode]
  IN /\ ~crashed
     /\ IF ACase(mode) = ACASE_A1n_A2n
        THEN /\ out' = Zero                 \* ostream_set (..., const_values (0))
             /\ loop' = NullPtr /\ gain' = Null
             /\ UNCHANGED crashed
        ELSE IF f = NullPtr
        THEN /\ crashed' = TRUE
             /\ UNCHANGED <<loop, gain, out>>
        ELSE /\ loop' = f
             /\ gain' = ControlSum(module, f, simple, in)
             /\ out' = Times(AudioMix(module, f, in), gain')
             /\ UNCHANGED crashed
     /\ UNCHANGED <<module, connected>>

Init ==
  /\ module \in {config(p) : p \in Params}
  /\ connected \in SUBSET Streams
  /\ loop = NullPtr /\ gain = Null /\ out = Null
  /\ crashed = FALSE

Next ==
  \/ \E p \in Params : Config(p)
  \/ \E c \in SUBSET Streams : Reconnect(c)
  \/ \E in \in Samples : process(in)

Spec == Init /\ [][Next]_vars

-----------------------------------------------------------------------------
(* The variant Module::process runs, through the jump table or directly,   *)
(* is never a nullptr entry (process never crashes) and reads exactly the streams that are         *)
(* connected: its audio case names the connected audio inputs, its control *)
(* case the connected control inputs (multiplying when ctrl_mul), and it   *)
(* shapes the controls exponentially exactly when ctrl_exp is set and a    *)
(* control input is connected.                                             *)
LoopMatchesConnections ==
  [][\A in \in Samples :
       process(in) =>
         /\ ~crashed'
         /\ loop' # NullPtr =>
              LET c == connected IN
              /\ ACase(loop') = (IF "au1" \in c THEN 2 ELSE 0) + (IF "au2" \in c THEN 1 ELSE 0)
              /\ ({"cv1", "cv2"} \cap c # {}) =>
                   /\ CCase(loop') = CASE {"cv1", "cv2"} \subseteq c ->
                                       IF module.ctrl_mul THEN CCASE_C1m_C2m ELSE CCASE_C1b_C2b
                                     [] "cv1" \in c -> CCASE_C1y_C2n
                                     [] OTHER -> CCASE_C1n_C2y
                   /\ (loop' >= WITH_EXP_CONTROLS) = module.ctrl_exp
    ]_vars

(* The control gain the loop applies to the audio mix stays within        *)
(* [0, 1]: the amplifier attenuates, never inverts or boosts, whatever the *)
(* control inputs carry.                                                   *)
GainWithinUnit ==
  gain # Null => ~Less(gain, Zero) /\ ~Less(One, gain)

=============================================================================
