------------------------------ MODULE MCEngine ------------------------------
EXTENDS Engine

CONSTANTS o1, i1, s1

MCOut == {o1}
MCIn == {i1}
MCSynth == {s1}
=============================================================================
