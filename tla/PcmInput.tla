------------------------------ MODULE PcmInput ------------------------------
(***************************************************************************)
(* The PCM input module of bsepcmmodule.cc.  Every process call reads one  *)
(* full interleaved stereo block from the driver (or zero-fills its        *)
(* scratch buffer when the driver was not opened for capture) and          *)
(* de-interleaves the tail of that buffer that the engine asked for into   *)
(* its left and right output streams.  Its reset handler queues a one-shot *)
(* notification into the user thread.                                      *)
(*                                                                         *)
(* A captured sample is abstracted to the pair <<frame number, channel>>;  *)
(* silence is Silence.  Scratch buffer positions are 0 .. NValues-1, the   *)
(* gfloat offsets from mdata->buffer.                                      *)
(***************************************************************************)
EXTENDS Naturals

CONSTANTS
  BlockSize,      \* bse_engine_block_size()
  MaxFrames,      \* bound on the frames read from the capture driver
  AllowShortRead  \* whether the driver may return fewer values than asked

ASSUME BlockSize \in Nat \ {0}
ASSUME MaxFrames \in Nat /\ AllowShortRead \in BOOLEAN

\* BSE_PCM_MODULE_N_OSTREAMS
NChannels == 2
\* mdata->n_values = bse_engine_block_size () * BSE_PCM_MODULE_N_OSTREAMS
NValues == BlockSize * NChannels
Positions == 0 .. NValues - 1
Frames == 1 .. BlockSize

Silence == <<0, "Z">>
Captured(f, ch) == <<f, ch>>
\* Whatever an engine output buffer held before this module wrote it.
Garbage == <<0, "G">>
\* What an output stream of channel ch may hold.
ChannelSamples(ch) == {Captured(f, ch) : f \in 1 .. MaxFrames} \cup {Silence, Garbage}
Samples == ChannelSamples("L") \cup ChannelSamples("R")

VARIABLES
  readable,          \* driver->readable(): the device was opened for capture
  buffer,            \* mdata->buffer
  left, right,       \* BSE_MODULE_OBUFFER (module, OSTREAM_LEFT / RIGHT)
  frames_read,       \* frames the driver has handed to pcm_read so far
  last_n,            \* n_values of the last process call (0: none yet)
  pcm_input_checked, \* mdata->pcm_input_checked
  idle_jobs,         \* pcm_imodule_check_input callbacks queued by bse_idle_now
  input_required,    \* calls of require_pcm_input made by the user thread
  aborted            \* an assertion failure aborted the program

vars == <<readable, buffer, left, right, frames_read, last_n,
          pcm_input_checked, idle_jobs, input_required, aborted>>

-----------------------------------------------------------------------------
\* The block pcm_read (l, buffer) fills: the next l/2 frames, interleaved.
ReadBlock(buf, l) ==
  [p \in Positions |->
     IF p < l
     THEN Captured(frames_read + p \div NChannels + 1,
                   IF p % NChannels = 0 THEN "L" ELSE "R")
     ELSE buf[p]]

\* The de-interleaving loop: s starts at buffer + n_values - n * 2 and runs
\* to the bound, writing left and right alternately.
\* Mutant: s starts at the head of the buffer.
TailStartAtHead(n) == 0
TailStart(n) == NValues - n * NChannels
\* Mutant: s advances by one value instead of one frame.
DeinterleaveStride1(out, buf, n, ch) ==
  [k \in Frames |-> IF k <= n THEN buf[TailStart(n) + (k - 1) + ch] ELSE out[k]]
Deinterleave(out, buf, n, ch) ==
  [k \in Frames |-> IF k <= n THEN buf[TailStart(n) + (k - 1) * NChannels + ch]
                              ELSE out[k]]

\* Mutant: the flag is set but the notification is never queued.
ResetWithoutNotify ==
  /\ ~aborted
  /\ pcm_input_checked' = TRUE
  /\ UNCHANGED <<readable, buffer, left, right, frames_read, last_n,
                 idle_jobs, input_required, aborted>>

\* bse_pcm_imodule_reset: queue the one-shot notification on the first reset.
bse_pcm_imodule_reset ==
  /\ ~aborted
  /\ IF ~pcm_input_checked
     THEN /\ pcm_input_checked' = TRUE
          /\ idle_jobs' = idle_jobs + 1
     ELSE UNCHANGED <<pcm_input_checked, idle_jobs>>
  /\ UNCHANGED <<readable, buffer, left, right, frames_read, last_n,
                 input_required, aborted>>

\* pcm_imodule_check_input, run from the user thread's main loop.
pcm_imodule_check_input ==
  /\ idle_jobs > 0
  /\ idle_jobs' = idle_jobs - 1
  /\ input_required' = input_required + 1
  /\ UNCHANGED <<readable, buffer, left, right, frames_read, last_n,
                 pcm_input_checked, aborted>>

\* Value counts pcm_read may return for a request of a full block.
ReadResults == IF AllowShortRead THEN {NChannels * j : j \in 0 .. BlockSize}
                                 ELSE {NValues}

\* A failing assert_return: the build either treats assertion failures as
\* fatal, or logs and returns from the function.
AssertReturnFails == aborted' \in BOOLEAN

\* bse_pcm_imodule_process (module, n_values), n_values <= the block size.
bse_pcm_imodule_process(n) ==
  /\ ~aborted
  /\ n \in Frames
  /\ last_n' = n
  /\ IF readable
     THEN \E l \in ReadResults :
            /\ frames_read + l \div NChannels <= MaxFrames
            /\ buffer' = ReadBlock(buffer, l)
            /\ frames_read' = frames_read + l \div NChannels
            /\ IF l = NValues
               THEN /\ left' = Deinterleave(left, buffer', n, 0)
                    /\ right' = Deinterleave(right, buffer', n, 1)
                    /\ UNCHANGED aborted
               ELSE /\ AssertReturnFails
                    /\ UNCHANGED <<left, right>>
     ELSE /\ buffer' = [p \in Positions |-> Silence]
          /\ left' = Deinterleave(left, buffer', n, 0)
          /\ right' = Deinterleave(right, buffer', n, 1)
          /\ UNCHANGED <<frames_read, aborted>>
  /\ UNCHANGED <<readable, pcm_input_checked, idle_jobs, input_required>>

-----------------------------------------------------------------------------
Init ==
  /\ readable \in BOOLEAN
  /\ buffer = [p \in Positions |-> Silence]       \* g_new0
  /\ left = [k \in Frames |-> Garbage]
  /\ right = [k \in Frames |-> Garbage]
  /\ frames_read = 0
  /\ last_n = 0
  /\ pcm_input_checked = FALSE
  /\ idle_jobs = 0
  /\ input_required = 0
  /\ aborted = FALSE

Next ==
  \/ bse_pcm_imodule_reset
  \/ pcm_imodule_check_input
  \/ \E n \in Frames : bse_pcm_imodule_process(n)

Spec == Init /\ [][Next]_vars

\* The user thread's main loop keeps running the idle jobs queued to it.
FairSpec == Spec /\ WF_vars(pcm_imodule_check_input)

-----------------------------------------------------------------------------
TypeOK ==
  /\ readable \in BOOLEAN
  /\ buffer \in [Positions -> Samples]
  /\ left \in [Frames -> ChannelSamples("L")]
  /\ right \in [Frames -> ChannelSamples("R")]
  /\ frames_read \in 0 .. MaxFrames
  /\ last_n \in 0 .. BlockSize
  /\ pcm_input_checked \in BOOLEAN
  /\ idle_jobs \in Nat /\ input_required \in Nat
  /\ aborted \in BOOLEAN

(* After bse_pcm_imodule_process (module, n) returned, output sample k of  *)
(* both streams is frame k of the newest n frames the driver delivered,   *)
(* the left one from the left channel and the right one from the right,   *)
(* or silence when the driver is not readable: nothing stale from an      *)
(* earlier call and no frame from the head of the block that was skipped. *)
InputServesNewestFrames ==
  last_n > 0 =>
    \A k \in 1 .. last_n :
      IF readable
      THEN /\ left[k] = Captured(frames_read - last_n + k, "L")
           /\ right[k] = Captured(frames_read - last_n + k, "R")
      ELSE left[k] = Silence /\ right[k] = Silence

(* Once the input module has been reset, the user thread eventually runs  *)
(* require_pcm_input.                                                      *)
InputEventuallyRequired == pcm_input_checked ~> input_required > 0

(* Spec section 8: a request for part of a block that follows a full-block *)
(* request returns the tail of the block the previous call read.          *)
PartialServesPreviousTail ==
  [][\A n \in 1 .. BlockSize - 1 :
       (last_n = BlockSize /\ bse_pcm_imodule_process(n)) =>
         \A k \in 1 .. n : left'[k] = buffer[TailStart(n) + (k - 1) * NChannels]
    ]_vars

=============================================================================
