-------------------------- MODULE MCReducerExecution --------------------------
(* Small instances of ReducerExecution for TLC. *)
EXTENDS ReducerExecution

CONSTANTS p0, p1, ownerA, ownerB, outsider

\* One unpartitioned build that is started again and again.
OneProcess == {p0}
OneIndex == [p \in OneProcess |-> 0]
OneOwner == [p \in OneProcess |-> ownerA]

\* Two partitions of the same build.
TwoProcesses == {p0, p1}
TwoIndexes == [p \in TwoProcesses |-> IF p = p0 THEN 0 ELSE 1]
TwoOwners == [p \in TwoProcesses |-> IF p = p0 THEN ownerA ELSE ownerB]
===============================================================================
