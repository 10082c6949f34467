---------------------------- MODULE MCColumnDef ----------------------------
(* Model-checking instance of ColumnDef.                                    *)
EXTENDS ColumnDef

\* The edges of every rule: 0, 1, 6/7 (fsp), 30/31 (scale), 65/66
\* (precision), and 256 and 262, which int8 turns into 0 and 6.
MCNumbers == {0, 1, 6, 7, 30, 31, 65, 66, 256, 262}
=============================================================================
