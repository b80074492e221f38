---------------------------- MODULE MCPlcHealth ----------------------------
(* Instances of PlcHealth for TLC.                                         *)
EXTENDS PlcHealth

CONSTANTS q1, q2, q3, k1

\* Three requests meet on one PLC: one holds the lock, one waits, one comes
\* when it is released.
MCPlcOf == [r \in {q1, q2, q3} |-> k1]
=============================================================================
