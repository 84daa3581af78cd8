----------------------------- MODULE PcmLoopback ----------------------------
(***************************************************************************)
(* A PCM input module wired to a PCM output module, as in a network that   *)
(* plays back what the device captures.  The engine evaluates one block    *)
(* per tick in dependency order (spec section 4.2): the input module's     *)
(* process call, then the output module's with the same n_values, its     *)
(* joint streams carrying the input's left and right output buffers and,   *)
(* optionally, the block of a further synthesis module.                    *)
(*                                                                         *)
(* The input module models a captured sample as <<frame, channel>>, the    *)
(* output module a sample as a natural number; Level gives each input      *)
(* sample a distinct number, which is all the output module's sums need.   *)
(* Each module keeps its own buffer and abort flag.                        *)
(***************************************************************************)
EXTENDS Naturals, Sequences

CONSTANTS
  BlockSize,      \* bse_engine_block_size()
  MaxTicks,       \* bound on the blocks the engine evaluates
  AllowShortRead, \* whether the capture driver may return fewer values than asked
  SynthLevels     \* sample values of the further synthesis module

VARIABLES
  readable, in_buffer, left, right, frames_read, last_n,
  pcm_input_checked, idle_jobs, input_required, in_aborted,
  writer_attached, out_buffer, written, mirrored, tick, out_aborted, joint

In == INSTANCE PcmInput
        WITH buffer <- in_buffer, aborted <- in_aborted,
             MaxFrames <- MaxTicks * BlockSize

\* The sample value of an input sample, distinct for distinct samples.
Level(s) == IF s = In!Silence THEN 0
            ELSE IF s = In!Garbage THEN 1
            ELSE 2 * s[1] + (IF s[2] = "L" THEN 0 ELSE 1)
InputLevels == {Level(s) : s \in In!Samples}

Out == INSTANCE PcmOutput
         WITH buffer <- out_buffer, aborted <- out_aborted,
              Levels <- InputLevels \cup SynthLevels, MaxConnections <- 2

inVars == <<readable, in_buffer, left, right, frames_read, last_n,
            pcm_input_checked, idle_jobs, input_required, in_aborted>>
outVars == <<writer_attached, out_buffer, written, mirrored, tick, out_aborted, joint>>
vars == <<inVars, outVars>>

\* The connection an output joint stream gets from an input output stream.
Connection(stream) == [k \in In!Frames |-> Level(stream[k])]
SynthBlocks == {[k \in In!Frames |-> v] : v \in SynthLevels}

\* The joint stream connections: the input stream alone, with a synthesis
\* block before or after it, or nothing (the stream is not connected).
JointConnections(stream) ==
  {<<>>, <<Connection(stream)>>}
    \cup {<<Connection(stream), s>> : s \in SynthBlocks}
    \cup {<<s, Connection(stream)>> : s \in SynthBlocks}

\* One engine tick: the input module is processed before the output module
\* that consumes its streams.
EngineTick(n) ==
  /\ In!bse_pcm_imodule_process(n)
  /\ \E l \in JointConnections(left'), r \in JointConnections(right') :
       Out!bse_pcm_omodule_process(n, l, r)

Init == In!Init /\ Out!Init

\* The engine stops after the bound or when an assertion was fatal.
Stopped == (tick = MaxTicks \/ in_aborted \/ out_aborted) /\ UNCHANGED vars

Next ==
  \/ \E n \in In!Frames : EngineTick(n)
  \/ In!bse_pcm_imodule_reset /\ UNCHANGED outVars
  \/ In!pcm_imodule_check_input /\ UNCHANGED outVars
  \/ Stopped

Spec == Init /\ [][Next]_vars

\* The user thread's main loop keeps running the idle jobs queued to it.
FairSpec == Spec /\ WF_vars(In!pcm_imodule_check_input /\ UNCHANGED outVars)

-----------------------------------------------------------------------------
(* The input module's streams hold only samples of their own channel,     *)
(* silence or what the engine buffer held before.                          *)
InTypeOK == In!TypeOK
(* The output module's scratch buffer and written blocks hold sums of at   *)
(* most two connections.                                                   *)
OutTypeOK == Out!TypeOK
(* bse_pcm_imodule_process serves the newest frames it read, for every     *)
(* request size, while the output module consumes its streams.             *)
InputServesNewestFrames == In!InputServesNewestFrames
(* The one-shot notification queued by bse_pcm_imodule_reset eventually    *)
(* runs require_pcm_input in the user thread.                              *)
InputEventuallyRequired == In!InputEventuallyRequired
(* The block bse_pcm_omodule_process writes is the interleaved mix of its  *)
(* joint stream connections, the input's streams among them.               *)
WrittenIsMix == Out!WrittenIsMix

=============================================================================
