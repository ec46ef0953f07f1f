------------------------------ MODULE MCLeaves ------------------------------
(* An incarnation, one that starts later under its pid, and a third beside   *)
(* them that makes no leaves of its own.                                     *)
EXTENDS Leaves

CONSTANTS old, new, other, l1, l2

MCOwnerOf == [l \in Leaf |-> IF l = l1 THEN old ELSE new]
MCPidOf == [p \in Procs |-> IF p = other THEN 2 ELSE 1]
MCAllSee == [p \in Procs |-> Procs]
=============================================================================
