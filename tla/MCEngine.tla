------------------------------ MODULE MCEngine ------------------------------
(* Model-checking instance of Engine.                                       *)
EXTENDS Engine, TLC

CONSTANTS p1, p2

\* Two processors writing concurrently, so that both can find the same
\* memtable full and race to replace it.
MCProcessors == {p1, p2}

\* Processors are interchangeable in every definition and property.
MCSymmetry == Permutations(MCProcessors)

\* A batch of one entry plus its dedup entry takes two of the three arena
\* slots: the second batch into any memtable finds it full.
MCMemtableCapacity == 3

\* A 4-bit clock: every reading fits, and maybeReplaceMemtable's unsigned
\* subtraction wraps exactly as the 64-bit one does for these readings.
MCClockModulus == 16
=============================================================================
