----------------------------- MODULE MCIteration -----------------------------
EXTENDS Iteration

\* Fixed-length keys: one byte each.
MCShortKeys == {<<0>>, <<1>>}

\* Variable-length keys: a key and its one-byte extension.
MCMixedKeys == {<<0>>, <<0, 0>>, <<1>>}

MCRangeStart == <<0>>
MCRangeEnd == <<2>>
=============================================================================
