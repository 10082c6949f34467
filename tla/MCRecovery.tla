----------------------------- MODULE MCRecovery -----------------------------
(* Model-checking instance of Recovery.                                     *)
EXTENDS Recovery, TLC

CONSTANTS p1, p2

\* Two processors, so that the dedup rows of one never stand for the other.
MCRecProcessors == {p1, p2}

MCRecSymmetry == Permutations(MCRecProcessors)

\* One batch and its dedup entry fill two of the three arena slots.
MCRecMemtableCapacity == 3

MCRecClockModulus == 16
=============================================================================
