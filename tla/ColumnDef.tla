------------------------------ MODULE ColumnDef ------------------------------
(***************************************************************************)
(* ColumnDef.ToColumnType of src/command/parser/ast.go: the column type a  *)
(* CREATE SOURCE column declaration stands for.  The grammar accepts one   *)
(* of seven type names followed by an optional list of Number parameters;  *)
(* ToColumnType turns the pair into a common.ColumnType or an error.       *)
(*                                                                         *)
(* The operator is checked against the rules its own error messages state  *)
(* over every declaration built from a small set of parameter values, the  *)
(* boundaries of each rule and of the int8 the TIMESTAMP parameter is      *)
(* converted to among them.  Positions and message wording are left out:   *)
(* an error is the record [ok |-> FALSE].                                  *)
(***************************************************************************)
EXTENDS Integers, Sequences

CONSTANTS
    Numbers,    \* the values a Number token may carry
    MaxParams   \* the longest parameter list tried

TypeNames == {"VARCHAR", "TINYINT", "INT", "BIGINT", "TIMESTAMP", "DOUBLE", "DECIMAL"}

\* common.ColumnTypesByType: the types that take no parameters.
FixedTypes == {"VARCHAR", "TINYINT", "INT", "BIGINT", "DOUBLE"}

\* DefaultFSP
DefaultFSP == 0

Error == [ok |-> FALSE]
Column(t, prec, scale, fsp) == [ok |-> TRUE, type |-> t, prec |-> prec, scale |-> scale, fsp |-> fsp]

\* int8(x): Go keeps the low 8 bits, read as two's complement.
Int8(x) == ((x + 128) % 256) - 128

ParamLists == UNION {[1..n -> Numbers] : n \in 0..MaxParams}

-----------------------------------------------------------------------------

\* ToColumnType(c): fixed types reject any parameter; DECIMAL needs exactly
\* (precision, scale) within bounds; TIMESTAMP takes its fsp from a single
\* parameter through int8, and otherwise the default.
ToColumnType(t, params) ==
    CASE t \in FixedTypes ->
            IF params # <<>> THEN Error ELSE Column(t, 0, 0, 0)
      [] t = "DECIMAL" ->
            IF Len(params) # 2 THEN Error
            ELSE LET prec == params[1]
                     scale == params[2]
                 IN  IF prec > 65 \/ prec < 1 \/ scale > 30 \/ scale < 0 \/ scale > prec
                     THEN Error
                     ELSE Column(t, prec, scale, 0)
      [] t = "TIMESTAMP" ->
            LET fsp == IF Len(params) = 1 THEN Int8(params[1]) ELSE DefaultFSP
            IN  IF Len(params) = 1 /\ (fsp < 0 \/ fsp > 6) THEN Error
                ELSE Column(t, 0, 0, fsp)

-----------------------------------------------------------------------------
(* The declarations, one per state.                                        *)

VARIABLES typeName, parameters

Init == typeName \in TypeNames /\ parameters \in ParamLists

Next == UNCHANGED <<typeName, parameters>>

Spec == Init /\ [][Next]_<<typeName, parameters>>

-----------------------------------------------------------------------------

TypeOK == typeName \in TypeNames /\ parameters \in ParamLists

\* The column a declaration asks for, as the messages of ToColumnType put
\* it: "Expected DECIMAL(precision, scale)", "Decimal precision must be > 0
\* and <= 65", "decimal scale must be >= 0 and <= 30", "Decimal scale must
\* be <= precision", "Timestamp fsp must be >= 0 and <= 6", and no
\* parameters for the other types.
Documented(t, params) ==
    CASE t \in FixedTypes ->
            IF params = <<>> THEN Column(t, 0, 0, 0) ELSE Error
      [] t = "DECIMAL" ->
            IF /\ Len(params) = 2
               /\ params[1] \in 1..65
               /\ params[2] \in 0..30
               /\ params[2] <= params[1]
            THEN Column(t, params[1], params[2], 0) ELSE Error
      [] t = "TIMESTAMP" ->
            CASE params = <<>> -> Column(t, 0, 0, DefaultFSP)
              [] Len(params) = 1 /\ params[1] \in 0..6 -> Column(t, 0, 0, params[1])
              [] OTHER -> Error

\* ToColumnType accepts exactly the declarations its error messages allow,
\* with the precision, scale or fractional-seconds precision written.
ToColumnTypeAsDocumented == ToColumnType(typeName, parameters) = Documented(typeName, parameters)

=============================================================================
