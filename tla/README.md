# TLA+ models of the BSE audio engine core

These modules model the realtime core of BSE, the sound engine of Beast, as far
as it is in `src/`. They cover the PCM bridge modules, the transaction protocol
through which those modules enter and leave the engine, the oscillator kernel,
the amplifier plugin, the note name conversions and the fast-math functions
whose results are exact rationals.
`PROJECT.json` lists every component and run, the mutants, the map from each
definition to the source lines it translates, the findings and the hazards.

## The system and how its parts interact

* The **control domain** builds transactions, which are job sequences, and
  commits them. `bse_pcm_omodule_insert` / `_remove` and
  `bse_pcm_imodule_insert` / `_remove` in `bsepcmmodule.cc` are such builders.
* The **engine thread** applies queued jobs in FIFO order. Between
  transactions it evaluates a block: it waits for the registered polls, such
  as `bse_pcm_module_poll`, and calls every scheduled module's `process` in
  dependency order.
  * The engine itself is not in `src/`. Its protocol is modelled from spec
    sections 4.1, 4.2 and 5; those definitions are marked `spec_modelled` in
    the map.
* **PCM output bridge** (`bse_pcm_omodule_process`): mixes the connections of
  its left and right joint streams into an interleaved scratch buffer, writes
  it to the driver and mirrors it to an optional writer.
* **PCM input bridge** (`bse_pcm_imodule_process`): reads a full interleaved
  block from the driver, or zero-fills when the device is not readable, and
  de-interleaves the tail that was asked for.
  * Its `reset` queues a one-shot idle callback, `pcm_imodule_check_input`,
    into the user thread.
* **Capture to playback.** When a network routes the input module's streams
  into the output module's joint streams, the engine evaluates the input
  first in every block (dependency order), then the output with the same
  `n_values`.
* **Oscillator kernel** (`oscillator_process_variants`, `gsloscillator-aux.cc`):
  advances a uint32 phase per sample. It handles input and output sync,
  tracks frequency changes and switches wavetables. As a pulse oscillator it
  reads the table twice, `pwm_offset` apart. The offset is recomputed when
  the pwm input moves and when the table switches. Its state is carried
  between blocks in `GslOscData`.
* **Amplifier** (`bseamplifier.cc`): `config` turns properties into gains.
  `process` picks a loop variant from the connected inputs, directly or
  through the jump table `mk_process_loop_table`.
  * Its exponential control path uses `bse_approx_qcircle4` from
    `bsemathsignal.hh`.
* **Fast math** (`bsemathsignal.hh`): pure inline functions, called once per
  sample. They include the arctangent approximation `bse_approx_atan1`, the
  four quarter circles `bse_approx_qcircle1`-`4`, the powers of two
  `bse_approx2_exp2`-`9_exp2` and the two saturations.
  * An `exp2` takes the integer part of its exponent from `bse_ftoi` into
    the float's exponent bits, and the fraction into a polynomial. The
    oscillator's exponential FM calls `bse_approx5_exp2`.
* **Note names** (`sfinote.cc`): `sfi_note_from_string_err` parses a
  stripped, lower-cased heap copy of a name; `sfi_note_to_string` formats a
  note; `sfi_note_examine` splits a note into octave and semitone.

## Modules

| Module | Models | State | Actions |
|---|---|---|---|
| `PcmInput` | input bridge, `bsepcmmodule.cc` 149-240 | `buffer`, `left`/`right` output streams, driver frames read, `pcm_input_checked`, queued idle jobs | `bse_pcm_imodule_process(n)`, `bse_pcm_imodule_reset`, `pcm_imodule_check_input` |
| `PcmOutput` | output bridge, 43-133 | `buffer`, last block written and mirrored, tick stamp | `bse_pcm_omodule_process(n, l, r)` with the joint stream connections `l`, `r` |
| `PcmLoopback` | input wired to output through `INSTANCE` of both | the variables of both, with `in_buffer`/`out_buffer` and `in_aborted`/`out_aborted` kept apart | `EngineTick(n)`: input process then output process, the output's joint streams carrying the input's streams alone, beside a synthesis block, or unconnected; the input's `reset` and `check_input` |
| `EngineJobs` | the graph, jobs and transactions; PCM insert/remove builders | (definitions only) | `JobValid`, `ApplyJob`, `ValidTrans`, `ApplyTrans` |
| `Engine` | transactions applied job by job, and the scheduler | control view and engine graph (integrated, consumers, polls, edges, gone), FIFO queue, position in the head transaction, order, trash, garbage and freed modules | `Commit(t)`, `ApplyNextJob`, `EvaluateBlock`, `FreeModule(m)`, `RequestStop`, `Shutdown` |
| `AtomicEngine` | what the engine promises (spec 4.1, 4.2): atomic transactions | pending transactions, graph, garbage, freed, graph seen by the last block | `Commit(t)`, `TakeEffect`, `EvaluateBlock`, `FreeModule(m)`, `RequestStop`, `Shutdown` |
| `Oscillator` | `oscillator_process_variants`, except self-modulation (157-158); the position rescale of a table switch (95-97) is the identity for equal-size tables | `GslOscData` (`cur_pos`, `last_pos`, last sync, frequency and pwm levels, pulse offset, table), the input stream, samples produced, and `reference`, the samples of the whole stream processed as one call (computed in `Init`) | `ProcessBlock(n)`: one call on the next `n` samples |
| `Amplifier` | `Module::config`, `process`, `process_loop`, `mk_process_loop_table` | configuration, connected inputs, loop run, last gain and sample | `Config(p)`, `Reconnect(c)`, `process(in)` |
| `SfiNote` | `sfinote.cc` conversions | note, string, byte beyond the copy, result | `Format`, `Parse` |
| `FastMath` | `bse_approx_atan1`, `bse_approx_qcircle1`-`4`, `bse_approx2_exp2`-`6_exp2`, `bse_saturate_hard`, `bse_saturate_branching` | (definitions only) | |
| `FastMathCalls` | a caller of these functions | the last two calls with their arguments and results | `CallAtan1(x)`, `CallQCircle(n, x)`, `CallSaturateHard(v, l)`, `CallSaturateBranching(v, l)`, `CallExp2(n, e)` with either rounding of a tie |

Each `MC*` module gives the model values TLC needs, such as negative numbers,
rationals and tables; `.cfg` syntax cannot express them.

### Abstractions

* **Samples.** PCM samples are `<<frame, channel>>` pairs for the input, and
  small naturals summed exactly for the output. `PcmLoopback` gives each
  input sample a distinct natural (`Level`), so that a sum can be traced back
  to the frames in it.
* **Oscillator.**
  * A sample is identified by the table and phase position it is read from;
    interpolated values are not computed.
  * Phases are `PosBits`-bit unsigned integers. Frequencies are integers, and
    all tables share `freq_to_step`.
  * The float-to-uint32 conversion of `cur_pos += ...` wraps, as x86-64
    builds do. Out of range the C++ conversion is undefined behaviour, and
    AArch64 builds saturate instead, so the phase would stick at the top
    and the oscillator fall silent. No run checks that build: it would need
    its own configuration with a saturating `ToUint`.
  * `osc_update_pwm_offset` is not under `src/`. `PwmOffset(level, table)`
    models it from the spec (section 4.4) as the offset of that level for
    that table. A pulse sample records the offset it reads. The pwm
    comparison within 1/65536 becomes equality of pwm levels.
* **Amplifier.**
  * Values are exact rationals.
  * Samples carry no state from one to the next, so one sample stands for a
    block.
  * `bse_approx_qcircle4`'s constant c = 0.2046 is taken as 9/44 (see fast
    math below).
* **Fast math.** Values are exact rationals.
  * Each long decimal constant is a nearby small fraction. The relations the
    code relies on are kept: c = 9/44 with 1.2046 = 1 + c, and d2 = -n2 =
    111/110. n1 = -7/17 and d1 = 9/11.
  * The properties are about exactness at end points, sign, symmetry, order
    and range. They do not depend on the exact values of the constants. The
    floating-point error bounds are not checked.
  * `exp2` is computed exactly in integers scaled by 10^7 * 2^(N+1), with
    the code's 32-digit coefficients rounded to 7 decimals.
    * Exact arithmetic with the full coefficients gives the same verdict.
      At order 6 it gives a jump of 3.5e-7 against a bound of 5.1e-7; the
      model gives 3.2e-7.
    * The documented errors are taken in units of 10^-9, rounded down.
    * `bse_ftoi` is not in `src/`. At a half-integer it returns either
      neighbour, as the code's comment (half away from zero) and lrint
      (half to even) would.
* **Strings.** A C string is a sequence of one-character tokens with an
  explicit `NUL`. The heap copy extends four bytes beyond its allocation,
  filled with the constant `Beyond`, so that reads and writes outside it are
  visible.
* **Integer widths.** TLC's integers are 32-bit, so `SfiNote` narrows C's
  `int` and `long` to `IntBits` = 16 and `LongBits` = 24. The relation that
  matters is kept: `long` is wider than `int`, and `strtol` saturates at the
  `long` range. A `long` stored in an `int`, and `int` arithmetic that
  overflows, wrap in two's complement (`ToInt`), which is what gcc generates.
* **`assert_return`** logs and returns in some builds and aborts in others.
  The model chooses either outcome (`aborted' \in BOOLEAN`).

## Runs

| Run | Expect | What it shows |
|---|---|---|
| `pcm_loopback` | pass | An input module wired to an output module. Every process request, full or partial, serves the newest frames of the block just read, or silence (`InputServesNewestFrames`). Every written block is the interleaved sum of the joint stream connections, across blocks reusing one scratch buffer (`WrittenIsMix`). The one-shot notification is delivered eventually under weak fairness of the user thread (`InputEventuallyRequired`). |
| `pcm_input_partial` | violation | Spec section 8 says a half-block request after a full block returns the second half of the *previous* block. The code reads a new block and serves its tail. |
| `engine` | pass | See the list after this table. |
| `oscillator_split` | pass | Cutting the input into blocks of sizes 1-3 changes neither samples nor sync output (`BlockSplitInvariant`), for the input- and output-synced, linearly modulated, frequency-tracking variant. Sync pulses fire exactly on input sync edges and `sync_pos` crossings, across block boundaries (`SyncAtCrossings`). As a pulse oscillator with pwm input, every sample reads the offset of the current pwm level and table, including after a table switch resets the level (`PulseOffsetCurrent`). |
| `oscillator_top_table` | violation | A frequency above the top table keeps the old `pos_inc` until the block ends (line 93), so block splitting changes the output. |
| `amplifier` | pass | `process` never calls a null jump-table entry, and the loop it runs matches the connected inputs (`LoopMatchesConnections`, an action property). With controls in [-1, 1] the gain stays in [0, 1] (`GainWithinUnit`). |
| `amplifier_overshoot` | violation | Controls above 1, up to `BSE_SIGNAL_KAPPA`, pass `bse_approx_qcircle4` beyond its pole: the gain becomes -37/8. |
| `sfinote` | pass | Every note 0..131 formats and parses back to itself without error (`RoundTrip`); `sfi_note_examine` inverts `SFI_NOTE_GENERIC` (`ExamineInverts`). |
| `sfinote_bounds` | violation | For `""`, blank-only strings and `"#"`, the parser reads `string[1]` past its copy, because `strchr` finds the terminating NUL. It writes there if that byte is `'#'`. |
| `sfinote_octave` | violation | `o * 12` overflows `int` before the clamp. At 16-bit `int`, `"c2731"` (which fits in `o`) parses to note 0 where clamping gives the top note. `strtol`'s `long` is also truncated into `int o` (at 32-bit, `"c4294967301"` parses as `"c5"`), which this trace does not show. `OctaveScales` says the note is the named note plus twelve per octave, clamped. |
| `fastmath` | pass | `bse_approx_atan1` computes its documented formula: the hand-folded negative branch is -positive_atan1(-x), and atan1(0) = 0 (`Atan1MatchesReference`). Each quarter circle maps [0, 1] into [0, 1], is exact at both end points, lies on its circle's side of the chord and moves monotonically (`QCircleQuadrants`). `bse_saturate_hard` clamps (`SaturateHardClamps`). At ex = ±1/2, where the integer part of `bse_approxN_exp2` switches, the two results either rounding of the tie gives differ by at most twice the order's documented error (`Exp2TieWithinError`): the switch keeps the approximation as continuous as its stated accuracy, whichever way a build rounds. |
| `saturate_branching` | violation | `value <= limit` should be `value <= -limit`: -1 with limit 2 returns -2. |

The `engine` run checks four properties:

* no poll stays registered on freed data (`NoPollOfFreedData`);
* no block sees part of an output-module insert (`BlocksSeeWholeInserts`);
* the type invariant `TypeOK`;
* the refinement `EngineRefinesAtomic` (next section).

## Refinement: the engine's atomic transactions

`AtomicEngine` states what spec sections 4.1 and 4.2 promise: a committed
transaction takes effect in one step and in commit order. A commit is
accepted when it is valid on `Promised`, the graph that every pending
transaction will produce.

`Engine` applies transactions one job at a time. It is mapped onto the
abstract spec as follows:

* A transaction counts as having taken effect once its first job has run.
* While `pos > 0`:
  * the abstract graph is the engine's graph with the rest of the head
    transaction applied (`AbsGraph`);
  * the abstract pending queue is the queue without its head
    (`AbsPending`);
  * the head's discarded modules count as handed back (`AbsGarbage`).
* A block's `seen.g` is the abstract `seen`.

`EngineRefinesAtomic == Atomic!FairSpec` is checked as a `PROPERTY`. It
shows the following:

* No block and no stop observes a transaction half applied.
* The control domain's private view accepts only transactions valid on the
  graph its queue will produce.
* The trash of discarded modules is handed back with the last job of its
  transaction and reset for the next one.
* Under the engine's fairness, every pending transaction takes effect.

The refinement fails if the end-of-transaction trash is not reset, or if a
block may start between jobs. It also fails if jobs are taken only while
blocks are ticking.

Every property of a passing run has a mutant in `PROJECT.json`: a plausible
bug in a mapped definition that TLC shows breaks it. Examples are a dropped
`remove_poll`, a table entry out of order, a missing clamp, and a sync
comparison made inclusive.

## Bounds and why they suffice

* **`PcmLoopback`.** Block size 3 and four ticks, with every request size
  1..3 in every tick, so that every partial size follows every other. Each joint stream carries the input stream alone, the
  input stream before or after a synthesis block, or nothing. This covers
  partial requests after full ones, unconnected and multiply connected
  streams, output assertions on partial blocks, and scratch buffers of both
  modules reused across blocks. With `AllowShortRead = TRUE`,
  `InputServesNewestFrames` fails: after a
  short read, the input keeps the previous samples and the output plays them
  again. The run assumes a driver that honours `pcm_read`'s full-block
  contract, as the assertion at line 182 states.
* **`PcmInput`** (run `pcm_input_partial`). Block size 2 and six frames.
* **`Engine`.**
  * One PCM output, one PCM input and one synthesis module, four commits and
    two ticks.
  * That gives every transaction kind, a connection chain in-synth-out, a
    remove committed before its insert was applied, a block between the jobs
    of an insert, and a stop with modules integrated.
* **`Oscillator`.**
  * A 4-bit phase (16 positions) with `sync_pos` 7, tables up to 3 and 6,
    and frequencies {2, 3, 5}: 2 and 3 share a table, and 5 switches it.
    Pwm levels are {0, 1}. The modulation input is held at 1 to keep the
    input streams (12^4 of them, 311,040 states) within the time bound; the FM path still
    runs on every sample. With modulation these give increments up to
    10, so the phase wraps within the four-sample stream. A saturating
    conversion would reach the top and stick within it.
  * The violation run `oscillator_top_table` uses a 5-bit phase.
  * Table switches happen in both directions.
  * Every split of the stream into blocks of 1..3 is enumerated.
* **`Amplifier`.** All connection subsets, both `ctrl_mul` and `ctrl_exp`,
  the two strengths, and every control combination of {-1, 1/2, 1}.
* **`SfiNote`.**
  * The whole note range 0..131.
  * Every string of up to two bytes over `#`, `c` and a blank, each with two
    bytes beyond the copy.
  * Octave numbers just past the `int` range, just past `int / 12`, and
    negative, at the narrowed widths.
* **`FastMath`.**
  * `bse_approx_atan1`: -4, -1, -1/4, 0, 1/4, 1, 4. These cover both branches,
    the switch at 0 and the approach to ±1.
  * The quarter circles: 0, 1/4, 1/2, 3/4, 1.
  * Saturation: values -3, -1, 0, 1, 3 on both sides of the limits 0 and 2.
  * `exp2`: orders 2-6 at ex = -1/2, 0 and 1/2. These are both switches
    within the documented range -1..+1, and the exact point between them.
    Order 6 at ex = ±1 would exceed 32-bit integers.
  * Every pair of consecutive calls is reached, so the order properties
    compare all pairs of arguments.

## Fairness

* `PcmLoopback` (and `PcmInput`) assume weak fairness of `pcm_imodule_check_input`: the user
  thread's main loop keeps running idle jobs.
* `Engine` assumes:
  * weak fairness of `ApplyNextJob` and `Shutdown`: the engine thread takes
    jobs whenever it runs, and honours a stop at the next boundary (spec 4.2);
  * weak fairness of `FreeModule`: the control domain's garbage collection
    keeps running.
* Nothing is assumed of commits, ticks or stop requests.
* `AtomicEngine` assumes weak fairness of `TakeEffect`, `Shutdown` and
  `FreeModule`. The refinement check shows that `Engine`'s fairness implies
  it.

## What is not modelled

* Self modulation. It feeds the interpolated sample value back into the
  phase, and sample values are not modelled.
* The arithmetic of `osc_update_pwm_offset`, which is outside `src/`.
* Interpolated sample values, and float rounding of 32-bit phases above 2^24.
* Parameter-set closures in transactions.
* Amplifier `property_changed` and compat code (the property framework).
* `exp2` away from the half-integer grid, orders 7-9, and the `tanh`
  approximations.
  * Their exact values need more digits than TLC's 32-bit integers hold.
  * `tanh` calls `Bse::fast_exp2`, which is not in `src/`, on x * 2/ln 2,
    an irrational multiple.
  * `FastMath` shows that the odd orders (3 and 5 in the model; 7 and 9 by
    exact arithmetic with the full coefficients) step down at the switch.
    For `bse_approx5_exp2`, which the oscillator's exponential FM calls, the
    step is about 1.5e-6 relative.
    * It stays within twice the documented error (`Exp2TieWithinError`).
    * The documentation promises accuracy, not monotonicity, so no property
      states it.
  * The `Oscillator` model takes the FM factor as an exact power of two,
    which `bse_approx5_exp2` returns at integer exponents. Its runs check
    the linear and unmodulated variants. At the bounds TLC can afford
    (modulation level 1, strength 1), the exponential variant's increment
    `inc * 2^1` equals the linear one's `inc + inc * 1`, so a run of it would
    repeat `oscillator_split`.
  * Exact arithmetic with the full coefficients also shows orders 2 and 3
    slightly beyond their documented bounds, as ex approaches 1/2 from
    above: 0.0127525 against 0.01275, and 0.001123517 against 0.001123415.
    No run checks the documented bounds.
  * The same holds for the error bounds of `atan1` and the quarter circles.
  * `bse_cent_tune_fast` reads `bse_cent_table`, which is not in `src/`.
* `regex.cc`, `visitor.hh`, `gxk.hh`, `bseapi-inserts.hh`,
  `bsecontextmerger.hh` and `bseconstvalues.hh`: wrappers, includes,
  declarations and generated text, with no behaviour of the engine.
