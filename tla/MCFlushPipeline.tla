--------------------------- MODULE MCFlushPipeline ---------------------------
(* Model-checking instance of FlushPipeline.                                *)
EXTENDS FlushPipeline

\* Four rotations: enough for two uploads in flight while a third append
\* grows the slice (capacities 0 -> 1 -> 2 -> 4), for a compaction to
\* strand one of them, and for a fourth memtable queued behind a stall.
MCMaxRotations == 4

\* A channel of two signals: senders block behind one another.
MCFlushQueueMaxSize == 2
=============================================================================
