---------------------------- MODULE MCOscillator ----------------------------
(* Model values for Oscillator: two wavetables, the first for (0, 3] Hz,   *)
(* the second for (3, 6] Hz.                                               *)
EXTENDS Oscillator

MCTableMaxFreq == <<3, 6>>
=============================================================================
