---------------------------- MODULE MCAmplifier ----------------------------
(* Model values for Amplifier: input samples as exact rationals.           *)
EXTENDS Amplifier

\* Audio input: a full-scale sample.
MCAudio == {QInt(1)}
\* Control inputs within the nominal signal range [-1, 1].
MCControlNominal == {QInt(-1), Q(1, 2), QInt(1)}
\* Control inputs up to BSE_SIGNAL_KAPPA, the largest value of a signal sample.
MCControlKappa == {Q(1, 2), Q(5, 4)}
MCVolumes == {QInt(1)}
=============================================================================
