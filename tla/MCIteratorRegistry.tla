------------------------- MODULE MCIteratorRegistry -------------------------
(* Model-checking instance of IteratorRegistry.                             *)
EXTENDS IteratorRegistry, TLC

CONSTANTS i1, i2

\* Two callers of NewIterator, the least that can race on the map.
MCIters == {i1, i2}

MCRegistrySymmetry == Permutations(MCIters)
=============================================================================
