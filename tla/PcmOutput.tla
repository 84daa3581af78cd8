----------------------------- MODULE PcmOutput ------------------------------
(***************************************************************************)
(* The PCM output module of bsepcmmodule.cc.  Every process call sums the  *)
(* connections of its left and right joint streams into an interleaved     *)
(* scratch buffer, hands the buffer to the driver's pcm_write and mirrors  *)
(* it, tagged with the module's tick stamp, to an attached PCM writer.     *)
(*                                                                         *)
(* A sample is a small integer; a connection is the block its source       *)
(* module produced.  Scratch buffer positions are 0 .. NValues-1, the      *)
(* gfloat offsets from mdata->buffer.                                      *)
(***************************************************************************)
EXTENDS Naturals, Sequences, Functions

CONSTANTS
  BlockSize,      \* bse_engine_block_size()
  MaxConnections, \* most connections the model puts on one joint stream
  Levels,         \* sample values a connected module may produce
  MaxTicks        \* bound on the blocks written to the driver

ASSUME BlockSize \in Nat \ {0}
ASSUME MaxConnections \in Nat /\ Levels \subseteq Nat /\ Levels # {}
ASSUME MaxTicks \in Nat

\* BSE_PCM_MODULE_N_JSTREAMS
NChannels == 2
\* mdata->n_values = bse_engine_block_size () * BSE_PCM_MODULE_N_JSTREAMS
NValues == BlockSize * NChannels
Positions == 0 .. NValues - 1
Frames == 1 .. BlockSize

ConnBuffer == [Frames -> Levels]
Connections == UNION {[1 .. k -> ConnBuffer] : k \in 0 .. MaxConnections}

VARIABLES
  writer_attached, \* mdata->pcm_writer != NULL
  buffer,          \* mdata->buffer
  written,         \* the last block handed to driver->pcm_write
  mirrored,        \* the last <<tick stamp, block>> given to bse_pcm_writer_write
  tick,            \* bse_module_tick_stamp (module), in blocks
  aborted,         \* an assertion failure aborted the program
  joint            \* history: <<left, right>> joint stream connections of the last call

vars == <<writer_attached, buffer, written, mirrored, tick, aborted, joint>>

-----------------------------------------------------------------------------
\* One do { ...; d += 2; } while (d < b) pass over the scratch buffer from
\* start, combining each visited slot with the next source value.
StridePass(buf, start, src, Combine(_, _)) ==
  [p \in Positions |->
     IF p >= start /\ (p - start) % NChannels = 0
     THEN Combine(buf[p], src[(p - start) \div NChannels + 1])
     ELSE buf[p]]

\* Mutant: the first pass adds to the scratch buffer instead of overwriting it.
AssignAdds(old, new) == old + new
Assign(old, new) == new
Accumulate(old, new) == old + new

\* bse_engine_const_values (0)
ZeroBlock == [k \in Frames |-> 0]

\* Mutant: the accumulation loop starts at connection 0.
MixStreamFromZero(buf, start, conns) ==
  LET first == IF Len(conns) > 0 THEN conns[1] ELSE ZeroBlock
      RECURSIVE AddFrom(_, _)
      AddFrom(b, i) == IF i > Len(conns) THEN b
                       ELSE AddFrom(StridePass(b, start, conns[i], Accumulate), i + 1)
  IN AddFrom(StridePass(buf, start, first, Assign), 1)

\* The two loops for one joint stream: the first connection (or the zero
\* block) is copied, every further connection is added.
MixStream(buf, start, conns) ==
  LET first == IF Len(conns) > 0 THEN conns[1] ELSE ZeroBlock
      RECURSIVE AddFrom(_, _)
      AddFrom(b, i) == IF i > Len(conns) THEN b
                       ELSE AddFrom(StridePass(b, start, conns[i], Accumulate), i + 1)
  IN AddFrom(StridePass(buf, start, first, Assign), 2)

\* A failing assert_return: the build either treats assertion failures as
\* fatal, or logs and returns from the function.
AssertReturnFails == aborted' \in BOOLEAN

\* bse_pcm_omodule_process (module, n): the joint streams carry the
\* connections l and r.  Each call is one engine tick.
bse_pcm_omodule_process(n, l, r) ==
  /\ ~aborted
  /\ tick < MaxTicks
  /\ tick' = tick + 1
  /\ IF n = BlockSize
     THEN /\ buffer' = MixStream(MixStream(buffer, 0, l), 1, r)
          /\ written' = buffer'
          /\ mirrored' = IF writer_attached THEN <<tick, buffer'>> ELSE mirrored
          /\ joint' = <<l, r>>
          /\ UNCHANGED aborted
     ELSE /\ AssertReturnFails
          /\ UNCHANGED <<buffer, written, mirrored, joint>>
  /\ UNCHANGED writer_attached

-----------------------------------------------------------------------------
Init ==
  /\ writer_attached \in BOOLEAN
  /\ buffer = [p \in Positions |-> 0]             \* g_new0
  /\ written = <<>>
  /\ mirrored = <<>>
  /\ tick = 0
  /\ aborted = FALSE
  /\ joint = <<>>

\* The engine stops asking for blocks when the bound is reached, and
\* nothing runs after an abort.
Stopped == (tick = MaxTicks \/ aborted) /\ UNCHANGED vars

Next ==
  \/ \E n \in Frames, l, r \in Connections : bse_pcm_omodule_process(n, l, r)
  \/ Stopped

Spec == Init /\ [][Next]_vars

-----------------------------------------------------------------------------
\* The values a sum of at most MaxConnections samples can take.
MixLevels == 0 .. MaxConnections * (CHOOSE m \in Levels : \A v \in Levels : v <= m)
TypeOK ==
  /\ writer_attached \in BOOLEAN
  /\ buffer \in [Positions -> MixLevels]
  /\ written \in {<<>>} \cup [Positions -> MixLevels]
  /\ tick \in 0 .. MaxTicks
  /\ aborted \in BOOLEAN

(* Reference for the block: slot 2(k-1) holds the sum over the left       *)
(* connections of their frame k, slot 2(k-1)+1 the same for the right     *)
(* ones, and a stream without connections contributes silence.            *)
StreamSum(conns, k) == SumFunction([i \in DOMAIN conns |-> conns[i][k]])
ReferenceMix(l, r) ==
  [p \in Positions |-> StreamSum(IF p % NChannels = 0 THEN l ELSE r,
                                 p \div NChannels + 1)]

(* The block bse_pcm_omodule_process hands to pcm_write is the sample-wise *)
(* sum of the blocks on each joint stream, interleaved left/right, with    *)
(* nothing of the scratch buffer's previous block left in it.              *)
WrittenIsMix ==
  written # <<>> => written = ReferenceMix(joint[1], joint[2])

=============================================================================
