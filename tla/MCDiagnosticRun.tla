---------------------------- MODULE MCDiagnosticRun ----------------------------
(* One or two operators of a run root for TLC. *)
EXTENDS DiagnosticRun

CONSTANTS o1, o2

OneOperator == {o1}
TwoOperators == {o1, o2}
===============================================================================
